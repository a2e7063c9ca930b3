\* Two Workers on one Queue, with leases that lapse and commands that are late.
CONSTANTS
  Workers = {w1, w2}
  Jobs = {j1}
  Malformed = {}
  NoJob = NoJob
  Codes <- MCCodes
  MaxAttempts = 3
  MaxReceives = 2
  MaxLapses = 1
  MaxLate = 1
  MaxCrashes = 1
SYMMETRY WorkerSymmetry
SPECIFICATION Spec
INVARIANTS
  TypeOK
  AckedOnlyAfterAcceptedSuccess
  SuccessMeansArtifact
  FailedVerdictIsHonest
  ExclusiveProcessing
  SuccessAnnouncesOwnArtifact
  AckedJobStaysSuccess
  SuccessStandsUntilRedelivery
  AckedArtifactWasAnnounced
PROPERTIES
  BackendNeverRunsBackwards
  KeepsLedger
  EachStepNearsTheEnd
CHECK_DEADLOCK FALSE

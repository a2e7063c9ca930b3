\* One Worker that may crash, be told to stop and be killed.
CONSTANTS
  Workers = {w1}
  Jobs = {j1, bad}
  Malformed = {bad}
  NoJob = NoJob
  Codes <- MCCodes
  MaxAttempts = 2
  MaxReceives = 2
  MaxLapses = 0
  MaxLate = 0
  MaxCrashes = 1
SPECIFICATION FairSpec
PROPERTIES
  EveryJobSettles
  GracefulStop
  KeepsPhases
CHECK_DEADLOCK FALSE

\* An answer cut short during an intermediate report.
CONSTANTS
  Workers = {w1}
  Jobs = {j1}
  Malformed = {}
  NoJob = NoJob
  Codes <- MCCodes
  MaxAttempts = 2
  MaxReceives = 1
  MaxLapses = 0
  MaxLate = 0
  MaxCrashes = 0
SPECIFICATION Spec
PROPERTIES
  IntermediateStatusNeverFailsJob
CHECK_DEADLOCK FALSE

\* A delete_message that fails, and the redelivery that follows.
CONSTANTS
  Workers = {w1}
  Jobs = {j1}
  Malformed = {}
  NoJob = NoJob
  Codes <- MCCodes
  MaxAttempts = 2
  MaxReceives = 2
  MaxLapses = 0
  MaxLate = 0
  MaxCrashes = 0
SPECIFICATION Spec
INVARIANTS
  AcceptedSuccessStaysAuthoritative
CHECK_DEADLOCK FALSE

\* The three attempts of the code, over the boundary codes.
CONSTANTS
  Codes <- MCCodes
  MaxAttempts = 3
SPECIFICATION Spec
INVARIANTS
  TypeOK
  StopsAtFinalAnswer
  OutcomeFollowsLastAnswer
  BackoffIsBounded
CHECK_DEADLOCK FALSE

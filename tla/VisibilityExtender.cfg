\* Scaled down: one unit of time is about 25 s of the deployed 300 s timeout.
CONSTANTS
  QueueVT = 12
  FallbackVT = 16
  MinInterval = 2
  JoinTimeout = 1
  MaxPrepare = 1
  MaxCall = 2
  MaxFailures = 2
SPECIFICATION Spec
INVARIANTS
  TypeOK
  LeaseOutlivesJob
  ReleasedInTime
  StopIsBounded

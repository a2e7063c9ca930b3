CONSTANTS
  Jobs = {j1, j2}
  Uploads = {"fine"}
  HermesMaxAttempts = 1
  MaxDeliveries = 2
  MaxCrashes = 0
SPECIFICATION Spec
INVARIANT SweepIsThorough
PROPERTY OthersAreKept

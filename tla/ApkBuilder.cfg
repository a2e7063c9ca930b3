CONSTANTS
  Specs = {g8, g9}
  NoSpec = NoSpec
  WorkerSpec = g9
  MaxShipped = 2
SPECIFICATION Spec
INVARIANTS TypeOK OnlyValidatedWrapperRuns DeclaredGradleRuns FreshApkWins
\* A call of build_apk ends.
CHECK_DEADLOCK FALSE

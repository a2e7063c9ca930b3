CONSTANTS
  NumKeys = 7
  Images <- MCImages
  Names <- MCNames
  NameOf <- MCNameOf
  MaxAssets = 5
SPECIFICATION Spec
INVARIANTS TypeOK SelectsTheFirst OnlyNamesakesReplace
\* A call of download_assets ends.
CHECK_DEADLOCK FALSE

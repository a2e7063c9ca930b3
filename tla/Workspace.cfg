CONSTANTS
  Jobs = {j1}
  Uploads = {"fine", "large", "notUtf8", "notJson", "tooDeep", "longNumber", "notObject"}
  HermesMaxAttempts = 3
  MaxDeliveries = 3
  MaxCrashes = 2
SPECIFICATION Spec
INVARIANTS
  TypeOK
  NothingStale
  ToolsReadWhole
  PromptNeverTorn
  VerdictIsFair
PROPERTIES KeepsClean EachStepNearsTheVerdict KeepsPhases

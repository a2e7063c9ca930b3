CONSTANTS
  Jobs = {j1}
  Uploads = {"fine", "large", "notUtf8", "notJson", "tooDeep", "longNumber", "notObject"}
  HermesMaxAttempts = 2
  MaxDeliveries = 1
  MaxCrashes = 0
SPECIFICATION Spec
INVARIANT ContentFailureIsCoded

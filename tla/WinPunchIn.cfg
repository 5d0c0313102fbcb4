SPECIFICATION Spec
CONSTANTS
  MaxPasses = 2
  MaxBoxes = 2
  MaxRequests = 0
  Unhurried = TRUE
  Patient = TRUE
  OneDownload = TRUE
CHECK_DEADLOCK FALSE
PROPERTIES EveryPassIsFilmed

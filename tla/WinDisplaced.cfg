SPECIFICATION Spec
CONSTANTS
  MaxPasses = 2
  MaxBoxes = 2
  MaxRequests = 0
  Unhurried = TRUE
  Patient = FALSE
  OneDownload = FALSE
CHECK_DEADLOCK FALSE
INVARIANTS DownloadedIsInserted

SPECIFICATION MCSpec
CONSTANTS
  MaxPasses = 2
  MaxBoxes = 2
  MaxRequests = 2
  Unhurried = TRUE
  Patient = TRUE
  OneDownload = FALSE
CHECK_DEADLOCK FALSE
INVARIANTS TypeOK DownloadedIsInserted InsertedWhereRecorded FilmIsOwnedIfPatient
PROPERTIES OnlyAgreedDeletes RecordingIsFilmed

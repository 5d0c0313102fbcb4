SPECIFICATION FairSpec
CONSTANTS
  MaxActs = 4
  MaxFailures = 1
  MaxBoxes = 1
  Patient = TRUE
CHECK_DEADLOCK FALSE
PROPERTIES LiveRestarted

SPECIFICATION Spec
CONSTANTS
  MaxActs = 4
  MaxFailures = 1
  MaxBoxes = 1
  Patient = FALSE
CHECK_DEADLOCK FALSE
INVARIANTS DisabledMeansStopped FlagsFollowStream
PROPERTIES RendererOutlivesFeed

SPECIFICATION FairSpec
CONSTANTS
  MaxActs = 4
  MaxFailures = 2
  MaxBoxes = 1
  Patient = TRUE
CHECK_DEADLOCK FALSE
INVARIANTS TypeOK FlagsFollowStream DisabledMeansStopped
PROPERTIES RendererOutlivesFeed PlaybackIsNotPaintedOver LiveReturns

CONSTANTS
  Cap = 1
  Sizes = {1, 2}
  MaxUnits = 1
  Clips = {"a", "b"}
  Length = 12
  Keys = {0, 10}
  Delay = 2
  Back = 1
  Ahead = 3
  MaxPackets = 20
  MaxRequests = 3
  Hosts = {"a", "b"}
  Profiles = {"p", "q"}
  MaxActs = 1
SPECIFICATION Spec
INVARIANTS ShowsLatestRequest
CHECK_DEADLOCK FALSE

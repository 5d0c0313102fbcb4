CONSTANTS
  Cap = 1
  Sizes = {1, 2}
  MaxUnits = 5
  Clips = {"a", "b"}
  Length = 12
  Keys = {0, 6}
  Delay = 2
  Back = 1
  Ahead = 3
  MaxPackets = 20
  MaxRequests = 3
  Hosts = {"a", "b"}
  Profiles = {"p", "q"}
  MaxActs = 6
SPECIFICATION Spec
INVARIANTS TypeOK ShowsLatestRequest TokenIsSaved
PROPERTIES FeedIsDecodable CommandGoesToShownHost
CHECK_DEADLOCK FALSE

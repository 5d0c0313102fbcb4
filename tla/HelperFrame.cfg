CONSTANTS
  Commands = {"stop", "download"}
  Preparing = {"download"}
  Phones = {"p", "q"}
  Paired = {"p"}
  Orders <- MCOrders
  MaxJumps = 8
  Block = 8
  Counter = 2
  Ordinary = {"x"}
  Paths <- MCPaths
  Arguments <- MCArguments
  Bytes <- MCBytes
  Files <- MCFiles
  Buffers <- MCBuffers
  Lengths = {0, 1, 125, 126, 127, 255, 256, 65534, 65535, 65536}
  Settings <- MCSettings
  Recordings <- MCRecordings
SPECIFICATION MCSpec
INVARIANTS ArrivesAsMeant
CHECK_DEADLOCK FALSE

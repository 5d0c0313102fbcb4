\* Two helpers download the same recording to the same directory.
SPECIFICATION MCSpec
CONSTANTS
  Helper = {h1, h2}
  Version = {"raw"}
  Size <- Three
  Chunk = 2
  MaxAttempts = 2
  Sized = {"raw"}
  Summed = {"raw"}
  Inode = {i1, i2}
  Files = {i1, i2}
  None = None
INVARIANT AcknowledgedIsOnDisk
\* Once the phone has no recording left there is nothing more to do.
CHECK_DEADLOCK FALSE

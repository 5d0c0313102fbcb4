\* One helper at a time, whose connections close early, break and time out: a
\* recording that stays as it is, and one that is rendered again meanwhile.
SPECIFICATION MCSpec
CONSTANTS
  Helper = {h1}
  Version = {"raw"}
  Size <- Three
  Chunk = 2
  MaxAttempts = 3
  Sized = {"raw"}
  Summed = {}
  Inode = {i1, i2}
  Files = {i1, i2, i3}
  None = None
INVARIANTS TypeOK AcknowledgedIsOnDisk TemporaryIsPrefix MixtureIsNotAcknowledged
PROPERTIES PromiseKept DownloadEnds
\* Once the phone has no recording left there is nothing more to do.
CHECK_DEADLOCK FALSE

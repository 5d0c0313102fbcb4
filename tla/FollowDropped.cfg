\* The user records on while the first take is still being downloaded.
SPECIFICATION Spec
CONSTANTS
  Clip = {c1, c2}
  Project = {A}
  Helper = {h1, h2}
  RetryLimit = 2
  Patient = FALSE
  Reliable = TRUE
  None = None
SYMMETRY Symmetry
INVARIANT DownloadedIsInserted

\* A patient user, two projects, and a phone whose answers may get lost.
SPECIFICATION Spec
CONSTANTS
  Clip = {c1, c2}
  Project = {A, B}
  Helper = {h1, h2}
  RetryLimit = 2
  Patient = TRUE
  Reliable = FALSE
  None = None
SYMMETRY Symmetry
INVARIANTS TypeOK InsertedWhereRecorded DownloadedIsInserted FilmIsKnown

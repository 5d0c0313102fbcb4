\* Two hazards of a single slot, each with a patient user (to be listed one at a time):
\*   INVARIANT RestoredIntoOpenProject  a clip is restored after another project was opened
\*   PROPERTY AlignmentIsTried          a second item takes the place of one that waits for its alignment
SPECIFICATION Spec
CONSTANTS
  Clip = {c1, c2}
  Project = {A, B}
  Helper = {h1, h2}
  RetryLimit = 2
  Patient = TRUE
  Reliable = TRUE
  None = None
INVARIANT RestoredIntoOpenProject

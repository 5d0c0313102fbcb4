\* A patient user and a phone whose answers all arrive.
SPECIFICATION FairSpec
CONSTANTS
  Clip = {c1, c2}
  Project = {A}
  Helper = {h1, h2}
  RetryLimit = 2
  Patient = TRUE
  Reliable = TRUE
  None = None
PROPERTIES FilmStops FollowRecovers

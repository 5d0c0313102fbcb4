\* A second prepare of a clip may arrive while the first is running.
SPECIFICATION Spec
CONSTANTS
  Take = {t1}
  Connection = {c1, c2}
  Overlap = {"prepare"}
  None = None
INVARIANT FootageIsKept

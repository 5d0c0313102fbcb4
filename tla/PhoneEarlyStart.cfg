\* Two hazards of a record that is read before an await (to be listed one at a time):
\*   INVARIANT TakeIsListed         a start while the previous take is still being finished
\*   PROPERTY DeletedStaysDeleted   a clip is deleted while it is being prepared
SPECIFICATION Spec
CONSTANTS
  Take = {t1, t2}
  Connection = {c1, c2}
  Overlap = {"start"}
  None = None
INVARIANT TakeIsListed

\* Stops may overlap; clients end one start or prepare before the next.
SPECIFICATION FairSpec
CONSTANTS
  Take = {t1, t2}
  Connection = {c1, c2}
  Overlap = {"stop"}
  None = None
INVARIANTS FootageIsKept TakeIsListed SumIsOfServedFile StopAnswersItsTake
PROPERTIES StopIsAnswered PrepareIsAnswered

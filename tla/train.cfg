SPECIFICATION Spec
CONSTANTS
  p1 = p1
  p2 = p2
  t1 = t1
  t2 = t2
  Instances = {p1, p2}
  Trains = {t1, t2}
  CarCnt = 2
  MaxId = 3
  MaxSession = 3
  None = None
SYMMETRY InstanceSymmetry
INVARIANTS AnswerTrue NoOpenLeft
PROPERTY StoreSpec
CHECK_DEADLOCK FALSE

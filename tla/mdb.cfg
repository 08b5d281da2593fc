SPECIFICATION Spec
CONSTANTS
  Conns = {k1, k2, k3}
  MaxConn = 2
  MaxCnt = 2
  NFd = 3
  MaxMsg = 1
  None = None
SYMMETRY ConnSymmetry
INVARIANTS OwnSlot NothingLost FreshWeights
CHECK_DEADLOCK FALSE

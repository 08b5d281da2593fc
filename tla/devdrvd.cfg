SPECIFICATION SafeSpec
CONSTANTS
  ServerCnt = 2
  MaxClients = 1
  Conns = {k1, k2}
  PipeCap = 1
  None = None
SYMMETRY ConnSymmetry
INVARIANTS ServeConnected NoStray PoolConsistent ClientsCounted
PROPERTY PoolSpec
CHECK_DEADLOCK FALSE

CONSTANTS
  k1 = k1
  k2 = k2
  None = None
  Conns = {k1, k2}
  MaxClients = 1
  ScaleCnt = 2
  PipeCap = 1
SPECIFICATION ServeSpec
SYMMETRY ConnSymmetry
INVARIANTS NoCrossTalk SeatConsistent ReadEndsHeld LossNeedsReuse
PROPERTY PoolSpec

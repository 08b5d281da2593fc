CONSTANTS
  k1 = k1
  k2 = k2
  None = None
  Conns = {k1, k2}
  MaxClients = 1
  ScaleCnt = 1
  PipeCap = 1
SPECIFICATION LiveSpec
PROPERTIES DeadClientReleased ShutdownEnds
CHECK_DEADLOCK FALSE

SPECIFICATION LiveSpec
CONSTANTS
  ServerCnt = 2
  MaxClients = 1
  Conns = {k1}
  PipeCap = 1
  None = None
PROPERTIES DataServed Reconnects ShutdownEnds
CHECK_DEADLOCK FALSE

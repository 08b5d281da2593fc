CONSTANTS
  CR = CR
  Dee = Dee
  NUL = NUL
  x = x
  Byte <- MCByte
  Size = 4
  PortCap = 3
SPECIFICATION FairSpec
INVARIANT ReadFits
PROPERTIES FramerSpec PacketReaches
CHECK_DEADLOCK FALSE

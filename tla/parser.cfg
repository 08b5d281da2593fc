SPECIFICATION Spec
CONSTANTS
  s1 = s1
  s2 = s2
  Servers = {s1, s2}
  PcktCnt = 2
  PcktLen = 3
  MaxRead = 5
  RECBUF_SIZE = 5
SYMMETRY ServerSymmetry
INVARIANTS DamageEnds CopiesKnown InBuffer
CHECK_DEADLOCK FALSE

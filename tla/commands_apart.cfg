CONSTANTS
  A = A
  B = B
  NULL = NULL
  Scales = {A, B}
  Supported <- NoTare
  Datagrams <- MixedDatagrams
  MaxReq = 2
  Chans = {A, B, NULL}
  MaxMsg = 3
  LineCap = 1
  Room = 1
SPECIFICATION ApartSpec
INVARIANTS ReplyFaithful HandshakeSound CalibratedIsCurrent

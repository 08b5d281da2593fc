CONSTANTS
  A = A
  B = B
  NULL = NULL
  Scales = {A, B}
  Supported <- AllSupported
  Datagrams <- GoodDatagrams
  MaxReq = 2
  Chans = {}
  MaxMsg = 0
  LineCap = 1
  Room = 1
SPECIFICATION Spec
INVARIANT OkMeansDone

CONSTANTS
  A = A
  B = B
  NULL = NULL
  Scales = {A}
  Supported <- AllSupported
  Datagrams <- KnownOrNot
  MaxReq = 1
  Chans = {A, NULL}
  MaxMsg = 2
  LineCap = 1
  Room = 1
SPECIFICATION FairSpec
INVARIANTS CmdHeld CreditsAccounted
PROPERTIES AllAnswered  

CONSTANTS
  HeaderSize = 2
  BufSize = 4
  SockBuf = 5
  ReqSizes = {3, 6}
  RespSizes = {0}
  Count = 3
SPECIFICATION Spec
INVARIANTS
  HeaderComplete

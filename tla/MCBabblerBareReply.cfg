CONSTANTS
  HeaderSize = 2
  BufSize = 4
  SockBuf = 5
  ReqSizes = {3}
  RespSizes = {2}
  Count = 2
SPECIFICATION FairSpec
PROPERTIES
  EveryJobEnds

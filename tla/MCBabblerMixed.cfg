CONSTANTS
  HeaderSize = 2
  BufSize = 5
  SockBuf = 4
  ReqSizes = {1, 2, 3, 6}
  RespSizes = {0, 1, 2, 5}
  Count = 3
SPECIFICATION FairSpec
INVARIANTS
  StreamInv
  NoProtocolException
  BugOnlyOnFragmentOrSize
  UnparsedIntact
  HalfDuplex
  StatsAgree
PROPERTIES
  InOrder
  ImplementsRequestReply
  JobEnds
  ResponderEnds

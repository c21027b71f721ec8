CONSTANTS
  Clients = {c1, c2}
  Threads = {t1, t2}
  HeaderSize = 2
  ClientBuf = 4
  ServerBuf = 6
  MaxDatagram = 5
  Sizes <- MCSizes
  Count = 2
  MaxFaults = 1
SPECIFICATION FairSpec
INVARIANTS
  EndsExplained
PROPERTIES
  AnswerFits
  JobEnds

CONSTANTS
  Clients = {c1, c2}
  Time = 5
  Status = 2
  Replies = TRUE
SPECIFICATION FairSpec
INVARIANTS
  LoopInv
  SummaryIsFinal
  NoBug
  NotBeforeTime
PROPERTIES
  TimeLimit
  StopsOnInterrupt

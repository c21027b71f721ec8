CONSTANTS
  Clients = {c1}
  Time = 2
  Status = 1
  Replies = FALSE
SPECIFICATION FairSpec
PROPERTIES
  TimeLimit

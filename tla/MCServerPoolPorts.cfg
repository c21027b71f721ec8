CONSTANTS
  Listeners = {tcp, sctp}
  Workers = {}
  Conns = {c1}
  Limit = 1
SPECIFICATION FairSpec
CHECK_DEADLOCK FALSE
PROPERTIES
  EveryPortListens

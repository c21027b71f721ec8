CONSTANTS
  Listeners = {tcp, sctp}
  Workers = {udp}
  Conns = {c1, c2, c3}
  Limit = 2
SPECIFICATION FairSpec
INVARIANTS
  PermitInv
  BusyBounded
  ListBounded
  NoThreadLost
  SemaphoreOutlives
PROPERTIES
  Served

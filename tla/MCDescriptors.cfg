CONSTANTS
  Threads = {t1, t2, t3}
  Fds = {f1, f2}
  Handles = {h1, h2, h3, h4}
  Sockets = {s1, s2, s3}
  None = None
SPECIFICATION Spec
SYMMETRY Symmetry
INVARIANTS
  CountInv
  OwnSocket

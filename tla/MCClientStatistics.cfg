CONSTANTS
  ReqLen = 2
  RespLen = 2
  Jobs = 2
  Boot = 3
  MaxClock = 6
  Word = 16
SPECIFICATION Spec
INVARIANTS
  SnapshotsWhole
  SummaryExact
PROPERTIES
  RateSane

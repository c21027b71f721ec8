CONSTANTS
  MinLen = 4
  HeaderSize = 3
  Word = 32
  Options <- MCOptions
  Limits = {0, 1, 4, 5, 10, 19, 24}
SPECIFICATION FairSpec
INVARIANTS
  SizesInv
  RequestInRange
  SentWithin
  StopsExactly
  ReceivedWithin
  BugOnlyOnSizes
PROPERTIES
  LimitStops

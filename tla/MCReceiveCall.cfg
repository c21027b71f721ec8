CONSTANTS
  Calls <- MCCalls
  MaxArrive = 8
SPECIFICATION FairSpec
INVARIANTS
  CallInv
PROPERTIES
  ImplementsContract
  CallEnds

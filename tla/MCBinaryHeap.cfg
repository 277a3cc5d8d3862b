SPECIFICATION FairSpec
CONSTANTS
  Ranks = {1, 2, 3}
  MaxRows = 6
  MaxK = 5
INVARIANTS IsHeadOfSort HeadInv HeapOrdered HeapInv
PROPERTIES ImplementsTopK RunsDown Returns
CHECK_DEADLOCK FALSE

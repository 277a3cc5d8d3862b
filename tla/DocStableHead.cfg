SPECIFICATION Spec
CONSTANTS
  Ranks = {1, 2, 3}
  MaxRows = 5
  MaxK = 4
INVARIANTS HeadOfSortIsStable
CHECK_DEADLOCK FALSE

SPECIFICATION FairSpec
CONSTANTS
  Keys = {k1, k2}
  NULL = NULL
  MaxRows = 3
INVARIANTS TypeOK LargerRowsInOrder Inv
PROPERTIES ImplementsRelationalJoin RunsDown Terminates
CHECK_DEADLOCK FALSE

SPECIFICATION FairSpec
CONSTANTS
  Inputs <- mcInputs
  Apply <- mcApply
  Thrown <- mcThrown
INVARIANTS TypeOK StopsAtFixpoint
PROPERTIES RunsDown Returns
CHECK_DEADLOCK FALSE

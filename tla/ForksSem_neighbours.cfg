SPECIFICATION Spec
CONSTANTS
  N = 5
CHECK_DEADLOCK FALSE
INVARIANTS NeighboursExclude

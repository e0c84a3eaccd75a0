SPECIFICATION Spec
CONSTANTS
  Modulus = 8
  Count = 9
  RoundLimit = 17
  Widths = {1, 2, 3, 4, 5, 6, 7, 8}
INVARIANTS
  HalfIsSafe
  ScriptTellsWidths
  FailureExplained
CHECK_DEADLOCK FALSE

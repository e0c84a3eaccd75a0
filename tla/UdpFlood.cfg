SPECIFICATION Spec
CONSTANTS
  Count = 3
  EndRepeats = 2
  Sessions = 2
  Capacity = 3
  MaxRepeats = 1
INVARIANTS
  GapsExact
  ReportTrue
PROPERTIES
  EveryRunReported
CHECK_DEADLOCK FALSE

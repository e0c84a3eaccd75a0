SPECIFICATION Spec
CONSTANTS
  NWRITERS = 2
  NREADERS = 2
  Writers = {1, 2}
  Readers = {3, 4}
  Failing = {2, 4}
  Calls = 2
CHECK_DEADLOCK FALSE
INVARIANTS AccessExclusive NobodyOverslept TotalsExact OverlapSeen
PROPERTIES EverybodyStops

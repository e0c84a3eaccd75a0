SPECIFICATION LossySpec
CONSTANTS
  Delays = {0, 1, 2}
  Jitters = {0, 2}
  Horizon = 6
  Sends = 4
INVARIANTS
  NeverOverslept
PROPERTIES
  ImplementsLink
  EverythingArrives
CHECK_DEADLOCK FALSE

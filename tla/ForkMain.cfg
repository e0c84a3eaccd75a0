SPECIFICATION ForkSpec
CONSTANTS
  N = 5
CHECK_DEADLOCK FALSE
INVARIANTS MonitorExact SemaphoresAccount DeadlockIsTotal
PROPERTIES NobodyStuck

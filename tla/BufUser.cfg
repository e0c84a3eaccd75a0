SPECIFICATION UserSpec
CONSTANTS
  Size = 2
  Items <- UserItems
  Producers = {0, 1}
  Consumers = {2}
  None = None
  NPROC = 2
  Stamps = 4
  Stop = Stop
CHECK_DEADLOCK FALSE
INVARIANTS NoLostWakeup UnitsAccounted NobodyOverslept MessagesInOrder NothingLeftBehind
PROPERTIES ImplementsFifo SemImplementsFifo Terminates

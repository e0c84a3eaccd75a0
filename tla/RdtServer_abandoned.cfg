SPECIFICATION ServerSpec
CONSTANTS
  Count = 2
  MaxRetries = 3
  Jitter = FALSE
  Prompt = FALSE
  MaxLoss = 1
  Capacity = 3
  Mode = "gbn"
  LingerRtos = 0
  Senders = 2
INVARIANTS
  EveryTransferServed
CHECK_DEADLOCK FALSE

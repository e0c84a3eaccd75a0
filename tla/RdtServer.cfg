SPECIFICATION ServerSpec
CONSTANTS
  Count = 3
  MaxRetries = 3
  Jitter = FALSE
  Prompt = FALSE
  MaxLoss = 1
  Capacity = 3
  Mode = "gbn"
  LingerRtos = 0
  Senders = 3
INVARIANTS
  SuccessIsTrue
  NeverTwoAhead
  ReportsWholeRuns
CHECK_DEADLOCK FALSE

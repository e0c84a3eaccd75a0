SPECIFICATION Spec
CONSTANTS
  Count = 3
  MaxRetries = 2
  Jitter = TRUE
  Prompt = FALSE
  MaxLoss = 1
  Capacity = 3
  Mode = "sr"
  LingerRtos = 1
  Window = 2
CHECK_DEADLOCK FALSE
INVARIANTS WindowBrackets BufferWithinWindow
PROPERTIES ImplementsTransfer EndsSomehow

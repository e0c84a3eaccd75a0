SPECIFICATION Spec
CONSTANTS
  Count = 4
  MaxRetries = 4
  Prompt = TRUE
  MaxLoss = 3
  Capacity = 6
  LingerRtos = 3
  Window = 3
CHECK_DEADLOCK FALSE
INVARIANTS ResendsPaidByLoss
PROPERTIES EveryPairReliable MispairedStalls

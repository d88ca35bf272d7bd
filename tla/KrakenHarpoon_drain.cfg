CONSTANTS
  h1 = h1
  Harpoons = {h1}
  CANCEL = CANCEL
  QueueLength = 1
  MaxChunkSize = 2
  Sizes = {1}
  Faults = {"cancel"}
  MaxCalls = 2
  MaxQueued = 3
SPECIFICATION Spec
INVARIANT BreachCleansChannel
CHECK_DEADLOCK FALSE

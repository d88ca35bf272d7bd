\* One Harpoon, no fault: the promise of ChunkStream.
CONSTANTS
  h1 = h1
  Harpoons = {h1}
  CANCEL = CANCEL
  QueueLength = 1
  MaxChunkSize = 2
  Sizes = {0, 1, 2, 5}
  Faults = {}
  MaxCalls = 4
  MaxQueued = 4
SPECIFICATION FairSpec
INVARIANTS InSync CreditConserved VictoryIsComplete
PROPERTIES ImplementsStream EveryChunkArrives NoStall
CHECK_DEADLOCK FALSE

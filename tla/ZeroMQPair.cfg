\* A server and several clients, one after the other; full pipes; the server is
\* destroyed before or after its client.
CONSTANTS
  HighWater = 2
  Closing = {"server", "client"}
  MaxPointers = 4
  MaxReady = 3
SPECIFICATION FairSpec
INVARIANT PointersOnce
PROPERTIES ImplementsQueue 
CHECK_DEADLOCK FALSE

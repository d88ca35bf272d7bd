\* Two Harpoons that share the Kraken; they cancel, are interrupted by signals and crash,
\* and the Kraken is restarted.
CONSTANTS
  h1 = h1
  h2 = h2
  Harpoons = {h1, h2}
  CANCEL = CANCEL
  QueueLength = 1
  MaxChunkSize = 2
  Sizes = {2}
  Faults = {"cancel", "signal", "crash", "restart"}
  MaxCalls = 2
  MaxQueued = 1
SYMMETRY HarpoonSymmetry
SPECIFICATION Spec
INVARIANTS RequestsAnsweredOnce FlowControl InOrder Accounted EndIsFinal
CHECK_DEADLOCK FALSE

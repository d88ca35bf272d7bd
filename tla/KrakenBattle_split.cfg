\* Chunks of the header and two more symbols, so that payloads take up to four
\* pieces and some of them end with a piece.
CONSTANTS
  t1 = t1
  t2 = t2
  Uuids = {t1, t2}
  emptyUUID = emptyUUID
  Bytes = {"x", "y", "z", "<", ">", "Done"}
  Payloads <- SomePayloads
  kSplitSize = 6
  MaxForwards = 2
SPECIFICATION Spec
INVARIANTS PiecesAreSelfContained Reassembled
CHECK_DEADLOCK FALSE

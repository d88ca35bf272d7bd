\* A handshake that comes too late is counted for the next notification.
CONSTANTS
  l1 = l1
  l2 = l2
  Listeners = {l1, l2}
  gHandshakeCount = 2
  Messages <- PlainMessages
  Hwm = 2
  HighWater = 2
  Faults = {}
  MaxNotifies = 2
SPECIFICATION Spec
INVARIANT SuccessMeansConfirmed
CHECK_DEADLOCK FALSE

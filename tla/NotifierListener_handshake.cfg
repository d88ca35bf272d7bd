\* Two Listeners that come late, go away and read past an empty vector; a Notifier
\* that is destroyed and created again; full pipes.
CONSTANTS
  l1 = l1
  l2 = l2
  Listeners = {l1, l2}
  gHandshakeCount = 2
  Messages <- AllMessages
  Hwm = 2
  HighWater = 1
  Faults = {"notifier", "listener"}
  MaxNotifies = 2
SPECIFICATION FairSpec
INVARIANTS CountedOnce HonestWhileComplete MessagesAreCurrent
PROPERTY ReachedIsConfirmed
CHECK_DEADLOCK FALSE

\* One id of the caller's, used again and again, and one Send; replies that come late,
\* in any order or malformed; the stick is moved, assigned to and bound again.
CONSTANTS
  a = a
  u = u
  Ids = {a}
  Uuids = {u}
  Period = 2
  SendHWM = 2
  Faults = {"rebind", "move", "assign", "malformed", "signal"}
  MaxSends = 3
  MaxTime = 3
SPECIFICATION FairSpec
INVARIANTS CacheIsPending NoReplyDropped
PROPERTIES OwnReply KeptForPeriod ForgottenInTime EveryCommandAnswered
CHECK_DEADLOCK FALSE

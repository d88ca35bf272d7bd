\* Two Senders and two Receivers of one queue, with a wait_and_pop of its own or not.
CONSTANTS
  s1 = s1
  s2 = s2
  r1 = r1
  r2 = r2
  Senders = {s1, s2}
  Receivers = {r1, r2}
  Capacity = 2
  Natives = {TRUE, FALSE}
  Waits = {0, 1}
  TicksPerMs = 2
  MaxItems = 3
SPECIFICATION FairEndsSpec
PROPERTIES EndsImplementQueue EmptyHandedIsLate WaitEnds
CHECK_DEADLOCK FALSE

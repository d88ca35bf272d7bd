\* Two Aliens with small pipes, and all that can go wrong for them.
CONSTANTS
  a1 = a1
  a2 = a2
  Aliens = {a1, a2}
  Shots <- AllShots
  Hwm = 1
  Faults = {"gun", "alien", "signal", "thread"}
  MaxShots = 2
SPECIFICATION FairSpec
PROPERTIES ShotsInOrder GetShotEnds
CHECK_DEADLOCK FALSE

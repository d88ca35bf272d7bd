\* One Rifle that binds and two Vampires, or two Rifles and one Vampire that binds; all
\* of them can be destroyed, and made again, also between a poll and the send after it.
CONSTANTS
  r1 = r1
  r2 = r2
  v1 = v1
  v2 = v2
  Rifles = {r1, r2}
  Vampires = {v1, v2}
  Owners = {"Rifle", "Vampire"}
  Bullets <- AllBullets
  Reads = {"GetShot", "GetStake", "GetStakes"}
  Hwm = 1
  Faults = {"Rifle", "Vampire", "signal"}
  MaxShots = 2
  MaxAims = 2
SPECIFICATION FairSpec
INVARIANTS FreedOnce Accounted PointersKeepTheirKind
PROPERTIES FireReturns BulletArrives
CHECK_DEADLOCK FALSE

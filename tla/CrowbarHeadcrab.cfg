\* Two Crowbars and a Headcrab that are destroyed and made again, also in the middle of
\* a hit, over a network or, without restarts of the Headcrab, in its context; another
\* program comes to the address and goes, and a signal ends the tries to connect.
CONSTANTS
  c1 = c1
  c2 = c2
  Crowbars = {c1, c2}
  ConnectRetries = 2
  Faults = {"Crowbar", "Headcrab", "other", "signal"}
  MaxHits = 2
SPECIFICATION FairSpec
INVARIANT InLockstep
PROPERTIES ImplementsCalls TryingEnds HitIsAnswered
CHECK_DEADLOCK FALSE

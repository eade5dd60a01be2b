SPECIFICATION FairSpec
CONSTANTS
  Swaps = {i1, i2}
  Secrets = {s1, s2}
  Durations = {0, 2, 3}
  None = none
  MaxTime = 6
PROPERTIES
  EverySwapIsSettled
  ImplementsHashTimeLock
CHECK_DEADLOCK FALSE

SPECIFICATION LockSpec
CONSTANTS
  Grain = 3
  Day = 5
  LastClock = 4
  LastVersion = 2
INVARIANT
  HoldRestored

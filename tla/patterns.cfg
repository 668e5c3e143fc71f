SPECIFICATION PatternsSpec
CONSTANTS
  t1 = t1  t2 = t2  g1 = g1  g2 = g2  p1 = p1  p2 = p2
  NoFile = NoFile
  Thread = {t1, t2}
  Target = {g1}
  Id = {p1, p2}
  Contents <- AllContents
  Hour = 1
  Day = 2
  DefaultThreshold = 3
  DefaultDisable = 2
  MaxVersions = 3
  Horizon = 3
SYMMETRY Alike
INVARIANTS
  EngineInv
  RateCapsHold
  BreakerHolds
  BreakerJustified
PROPERTIES
  NoRevokedArm

SPECIFICATION Spec
CONSTANTS
  t1 = t1  t2 = t2  g1 = g1  g2 = g2  p1 = p1  p2 = p2
  NoFile = NoFile
  Thread = {t1, t2}
  Target = {g1}
  Id = {p1, p2}
  Contents <- Revoking
  Hour = 1
  Day = 2
  DefaultThreshold = 3
  DefaultDisable = 2
  MaxVersions = 3
  Horizon = 1
SYMMETRY Alike
PROPERTIES
  NoRevokedArm

SPECIFICATION Spec
CONSTANTS
  a1 = a1  a2 = a2  v1 = v1  v2 = v2  v3 = v3
  NoValue = NoValue
  Agent = {a1, a2}
  Value = {v1, v2}
  MaxStray = 1
  MaxTokens = 2
  Faults = TRUE
SYMMETRY Alike
INVARIANTS
  UInv
  AppliedLanded
PROPERTIES
  NoReplayAfterReport
  TokenRestores

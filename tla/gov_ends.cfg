SPECIFICATION FairSpec
CONSTANTS
  w1 = w1  w2 = w2  r1 = r1  p1 = p1  p2 = p2
  NoCall = NoCall
  Call = {w2, r1}
  Proc = {p1, p2}
  Host <- TwoProcesses
  Writes = {w2}
  Marks = {}
  Captures = {w2}
  Resends = {w2}
  Interrupts = {w2, r1}
  RotateAt = 1
INVARIANTS
  TypeOK
PROPERTIES
  EveryCallEnds
CHECK_DEADLOCK FALSE

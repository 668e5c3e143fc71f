SPECIFICATION Spec
CONSTANTS
  w1 = w1  w2 = w2  r1 = r1  p1 = p1  p2 = p2
  NoCall = NoCall
  Call = {w1, w2}
  Proc = {p1, p2}
  Host <- TwoProcesses
  Writes = {w1, w2}
  Marks = {}
  Captures = {w1}
  Resends = {}
  Interrupts = {}
  RotateAt = 1
INVARIANTS
  VerdictsTrue
CHECK_DEADLOCK FALSE

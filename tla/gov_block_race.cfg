SPECIFICATION Spec
CONSTANTS
  w1 = w1  w2 = w2  r1 = r1  p1 = p1  p2 = p2
  NoCall = NoCall
  Call = {w1, w2}
  Proc = {p1}
  Host <- OneProcess
  Writes = {w1, w2}
  Marks = {w1, w2}
  Captures = {w1}
  Resends = {}
  Interrupts = {}
  RotateAt = 1
PROPERTIES
  NoIntentAfterBlock
CHECK_DEADLOCK FALSE

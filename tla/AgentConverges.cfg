SPECIFICATION FairSpec
CONSTANTS
  a = a
  b = b
  c1 = c1
  c2 = c2
  c3 = c3
  None = None
  Sides = {a, b}
  Conns = {c1, c2, c3}
  MaxBreak = 0
  MaxFail = 0
  MaxSignal = 0
  MaxMsg = 0
  MaxExit = 0
  MaxEvent = 0
PROPERTIES Converges
CHECK_DEADLOCK FALSE

SPECIFICATION Spec
CONSTANTS
  a = a
  b = b
  c1 = c1
  c2 = c2
  None = None
  Sides = {a, b}
  Conns = {c1, c2}
  MaxBreak = 1
  MaxFail = 2
  MaxSignal = 2
  MaxMsg = 1
  MaxExit = 2
  MaxEvent = 3
SYMMETRY Symmetry
INVARIANTS NoOneSided Recoverable NoSocketLost
CHECK_DEADLOCK FALSE

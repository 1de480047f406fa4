SPECIFICATION FairSpec
CONSTANTS
  c1 = c1
  c2 = c2
  None = None
  Conns = {c1, c2}
  MaxOff = 1
  MaxBreak = 1
  Accepted = {c1}
  Opened = {c2}
  Disagree = {c1}
  MayTimeout = TRUE
INVARIANTS RefExact RecvTaskLive QuietAfterOff StatusTrue LossNotified
PROPERTIES TeardownEnds
CHECK_DEADLOCK FALSE

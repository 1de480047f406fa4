CONSTANTS
  s1 = s1
  a1 = a1
  p1 = p1
  Sync = {s1}
  Async = {a1}
  Page = {p1}
  Linger = {p1}
  MaxOff = 1
  MaxBusy = 2
SPECIFICATION FairSpec
INVARIANTS RefExact CompletedOnce OffWakesAll ReplyHasBuffer
PROPERTIES FinishedOnce Served OffEnds
CHECK_DEADLOCK FALSE

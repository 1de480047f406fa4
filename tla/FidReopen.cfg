SPECIFICATION FairSpec
CONSTANTS
  Procs = {p1, p2}
  Readers = {p1, p2}
  Writers = {p1}
  MayRefuse = TRUE
  MaxId = 3
  MaxOffline = 1
INVARIANTS
  NoLeak
  
PROPERTIES ReopenEnds
CHECK_DEADLOCK FALSE

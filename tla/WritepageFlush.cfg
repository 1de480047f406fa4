SPECIFICATION Spec
CONSTANTS
  Pages = {p1, p2}
  StashEnabled = TRUE
  Flusher = TRUE
  Faults = {}
  ServerErr = {"ETIME", "EBADF"}
  MaxVer = 1
SYMMETRY Symmetry
INVARIANTS
  FlushExcludesBackground
CHECK_DEADLOCK FALSE

SPECIFICATION FairSpec
CONSTANTS
  Pages = {p1}
  StashEnabled = TRUE
  Flusher = TRUE
  Faults = {"oom", "disk", "nocache", "eof"}
  ServerErr = {"ETIME", "EBADF"}
  MaxVer = 2
INVARIANTS
  ReadersExact
  StashSaves
  CleanIsSaved
PROPERTIES
  StashFreezesPages
  WritebackEnds
CHECK_DEADLOCK FALSE

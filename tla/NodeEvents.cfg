CONSTANTS
  t1 = t1
  t2 = t2
  Threads = {t1, t2}
  Worker = Worker
  Free = Free
  MaxSeq = 7
SPECIFICATION FairSpec
INVARIANTS RingMatchesQueue LastReportWins StaleOnlineNoticed
PROPERTIES CallbacksInOrder ReportsDrain
CHECK_DEADLOCK FALSE

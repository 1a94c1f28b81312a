SPECIFICATION FairSpec
CONSTANTS
  Threads = {t1, t2, t3}
  GenMayFail = TRUE
INVARIANTS GeneratedOnce NullOnlyAfterFailure
PROPERTIES CallReturns
CHECK_DEADLOCK FALSE

SPECIFICATION Spec
CONSTANTS
  Threads = {t1, t2}
  GenMayFail = FALSE
INVARIANTS UsesComplete
CHECK_DEADLOCK FALSE

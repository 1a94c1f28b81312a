SPECIFICATION FairSpec
CONSTANTS
  t1 = t1
  t2 = t2
  Threads = {t1, t2}
  BufMsgs = 1
  MaxMsgs = 2
  MaxContexts = 2
  FailingAllocs = {}
  ExitCall = "cleanup"
PROPERTIES EventuallyWritten CleanupReturns

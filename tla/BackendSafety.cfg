SPECIFICATION Spec
CONSTANTS
  t1 = t1
  t2 = t2
  t3 = t3
  Threads = {t1, t2, t3}
  BufMsgs = 2
  MaxMsgs = 2
  MaxContexts = 2
  FailingAllocs = {"bytes_buf", "node", "msg_buf"}
  ExitCall = "cleanup"
SYMMETRY ThreadSymmetry
INVARIANTS TypeOK NoUseAfterFree Registered ExitDelivers ReleasedThenWritten
CHECK_DEADLOCK FALSE

SPECIFICATION Spec
CONSTANTS
  backup_count = 3
  max_bytes = 3
  Sizes = {1, 2}
  MaxMsgs = 10
  MaxCrashes = 2
  Failing = {"open", "remove", "rename"}
INVARIANTS TypeOK OldestLast NoHole BackupsKept OneLineOver
CHECK_DEADLOCK FALSE

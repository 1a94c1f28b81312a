SPECIFICATION Spec
CONSTANTS
  WR_MIN_INTERVAL = 1
  Capacities = {13, 14}
  HdrSize = 2
  ParamSizes = {0, 1}
  StrSizes = {0, 2, 5}
  MaxCalls = 4
  MayShrink = FALSE
INVARIANTS WaitIsForReader

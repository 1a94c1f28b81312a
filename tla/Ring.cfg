SPECIFICATION FairSpec
CONSTANTS
  WR_MIN_INTERVAL = 2
  Capacities = {16}
  HdrSize = 2
  ParamSizes = {0, 1}
  StrSizes = {0, 2, 5, 7}
  MaxCalls = 4
  MayShrink = FALSE
INVARIANTS TypeOK UnreadIntact DeliveredInOrder EmptyMeansRead ClaimsInBounds WaitIsForReader
PROPERTIES OnlyOversizedDropped ImplementsChannel

SPECIFICATION Spec
CONSTANTS
  color = color
  plain = plain
  file = file
  HandlerSet <- MCHandlerSet
  Kind <- MCKind
  MaxHandlers = 2
  Levels = {1, 2, 3}
  Sizes = {4}
  DefaultBytes = 8
  MaxCalls = 2
  MaxSets = 2
INVARIANTS
  DeliveredToEach LinesWhole

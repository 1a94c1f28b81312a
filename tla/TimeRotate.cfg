SPECIFICATION Spec
CONSTANTS
  SecPerMin = 2
  MinPerHour = 2
  HourPerDay = 2
  DayPerMonth = 2
  Mods = {1, 2}
  Start = 9
  MaxTime = 17
  MaxLag = 3
  MaxMsgs = 3
  MaxStarts = 2
INVARIANTS
  OneLineAhead FilesInOrder
PROPERTIES
  LeftForGood
CHECK_DEADLOCK FALSE

CONSTANTS
  Final = 2
  Capacity = 1
  Droppable = {2}
  MaxOther = 0
  MaxBreaks = 0
CHECK_DEADLOCK FALSE
SPECIFICATION FairSpec
PROPERTIES
  WatchReturns

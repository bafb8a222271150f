CONSTANTS
  Final = 4
  Capacity = 1
  Droppable = {1, 2}
  MaxOther = 1
  MaxBreaks = 2
SPECIFICATION RunFairSpec
CHECK_DEADLOCK FALSE
INVARIANTS
  ConnectionConsistent
  SeenContiguous
  ResultReady
PROPERTIES
  RunReturns

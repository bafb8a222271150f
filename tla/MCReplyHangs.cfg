CONSTANTS
  None = None
  MaxLog = 2
  MaxDrops = 1
  Window = 1
SPECIFICATION FairSpec
CHECK_DEADLOCK FALSE
PROPERTIES
  RunTimeoutBounds

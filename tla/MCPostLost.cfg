CONSTANTS
  None = None
  MaxLog = 2
  MaxDrops = 1
  Window = 1
SPECIFICATION Spec
CHECK_DEADLOCK FALSE
PROPERTIES
  PostResponseCloses

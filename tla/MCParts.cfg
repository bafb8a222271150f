CONSTANTS
  None = None
  Nothing = Nothing
  Source = {src1}
  Limit <- MCLimit
  Reserve <- MCReserve
  Monitor <- MCMonitor
  Kind <- MCKind
  MaxAge = 2
  Interval = 2
  Skew = 1
  MaxTime = 5
  MaxExt = 2
  Max = 5
  MaxChars = 6
  Submission = {s1, s2}
  Config <- MCConfig
  Request <- MCRequest
  Process = {p1, p2, p3}
  Installer = {i1, i2}
  Attempt = {t1}
SPECIFICATION PartsSpec
CHECK_DEADLOCK FALSE
INVARIANTS
  OwnWithinLimit
  TruncatedMeansLonger
  ResultIsPrefix
  FrozenBoundary
  ValidatedIsEnough
  ServingOwns
PROPERTIES
  DispatchLeavesReserve
  SampleAgeBounded
  RecoverySparesTheLiving

CONSTANTS
  s1 = s1
  s2 = s2
  a1 = a1
  a2 = a2
  src1 = src1
  src2 = src2
  ws1 = ws1
  None = None
  Keep = Keep
  Submission = {s1, s2}
  Attempt = {a1, a2}
  Source = {src1, src2}
  Request <- MCRequestFree
  Patch <- MCPatch
  Blocker = {"not_before", "workspace_busy", "capacity_unavailable", "capacity_unknown", "route_unsatisfied"}
  Legacy = {}
  Limit <- MCLimit
  Reserve <- MCReserve
  Monitor <- MCStatic
  Answer <- MCAnswer
  MaxAge = 1
  Interval = 1
  Skew = 1
  AgeCap = 1
  PriorityCap = 2
  MaxRevision = 2
  MaxLog = 1
  History = FALSE
  MaxTime = 1
  MaxFaults = 1
SYMMETRY MCSymmetry
SPECIFICATION Spec
INVARIANTS
  CapacityRespected
  RunningIsDriven
  FinishAccepted
  CancelReaches
PROPERTIES
  UnwatchedIsUncertain

SYMMETRY MCSymmetry
CONSTANTS
  s1 = s1
  s2 = s2
  a1 = a1
  a2 = a2
  src1 = src1
  src2 = src2
  ws1 = ws1
  None = None
  Keep = Keep
  Submission = {s1, s2}
  Attempt = {a1, a2}
  Source = {src1, src2}
  Request <- MCRequest
  Patch <- MCPatch
  Blocker = {"not_before", "workspace_busy", "capacity_unavailable", "capacity_unknown", "route_unsatisfied"}
  Legacy = {s2}
  Limit <- MCLimit
  Reserve <- MCReserve
  Monitor <- MCMonitor
  Answer <- MCAnswer
  MaxAge = 1
  Interval = 1
  Skew = 1
  AgeCap = 1
  PriorityCap = 2
  MaxRevision = 2
  MaxLog = 6
  History = TRUE
  MaxTime = 1
  MaxFaults = 1
SPECIFICATION CallersSpec
CHECK_DEADLOCK FALSE
INVARIANTS
  StoreTypeOK
  AttemptInv
  WorkspaceExclusive
  KeyUnique
  LogMatchesState
  WindowNonEmpty
PROPERTIES
  TerminalIsFinal
  RevisionCountsChanges
  ImplementsLifecycle
  TerminalEventIsLast

CONSTANTS
  None = None
  MaxSignals = 2
  MaxInFlight = 2
SPECIFICATION FairSpec
CHECK_DEADLOCK FALSE
INVARIANTS
  ConfirmedMeansGone
  ConfirmedIsReported
  OutcomeIsEarned
PROPERTIES
  CancelAnswered
  LeftBehindEnds

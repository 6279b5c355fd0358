\* Two calls; bills may exceed reservations, the event log may fail, and the agent may
\* leave tasks behind.
SPECIFICATION WorkerSpec
CONSTANTS
  NumCalls = 2
  Limit = 3
  Amounts = {1, 2}
  Bills = {0, 1, 3}
  MarginHolds = FALSE
  LogMayFail = TRUE
INVARIANTS
  WorkerTypeOK
  PointsStayWithinLimit
  PointsAreForSolution
  RescoredOverrunWasHeld
  BooksAgree
  WithinLimitIsTruthful
  OpenLedgerCoversRequests
PROPERTIES
  DrivesClient
CHECK_DEADLOCK FALSE

SPECIFICATION Spec
CONSTANTS
  NumCalls = 2
  Limit = 4
  Amounts = {1, 2}
  Bills = {0, 1}
  MarginHolds = TRUE
  LogMayFail = FALSE
INVARIANTS
  MalformedSuccessClosesLedger
CHECK_DEADLOCK FALSE

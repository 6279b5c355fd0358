\* Every bill is within its call's reservation.
SPECIFICATION Spec
CONSTANTS
  NumCalls = 3
  Limit = 4
  Amounts = {1, 2, 3}
  Bills = {0, 1, 3}
  MarginHolds = TRUE
  LogMayFail = TRUE
INVARIANTS
  SpendIsCapped
  BookedSpendIsLogged
PROPERTIES
  KeepsSpendCap
CHECK_DEADLOCK FALSE

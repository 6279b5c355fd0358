\* Two calls and two Lean checks; every write may fail, a kill may come anywhere.
SPECIFICATION Spec
CONSTANTS
  NumCalls = 2
  NumChecks = 2
  Contents = {"plain", "surrogate"}
INVARIANTS
  AckedEventsAreRead
  SentCallsAreTranscribed
  RecordsAreOrdered
CHECK_DEADLOCK FALSE

\* One call; lines may hold a Unicode line separator.
SPECIFICATION Spec
CONSTANTS
  NumCalls = 1
  NumChecks = 0
  Contents = {"plain", "separator"}
INVARIANTS
  SentCallsAreTranscribed
CHECK_DEADLOCK FALSE

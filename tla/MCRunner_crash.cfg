\* A killed worker's last log line ends inside a character.
SPECIFICATION Spec
CONSTANTS
  NumProblems = 2
  NWorkers = 2
  MaxRuns = 1
  Abandons = FALSE
INVARIANTS
  CrashIsContained
CHECK_DEADLOCK FALSE

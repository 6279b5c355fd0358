\* Two problems at a time, hung or killed; the run is interrupted anywhere and resumed
\* once, and the runner of the resumed run may die and leave its workers alone.
SPECIFICATION Spec
CONSTANTS
  NumProblems = 2
  NWorkers = 2
  MaxRuns = 2
  Abandons = TRUE
INVARIANTS
  TypeOK
  
  
  FinishedRunIsComplete
PROPERTIES
  ResultsSurviveResume
  RunEnds
CHECK_DEADLOCK FALSE

\* The submission's own settings: one proposal, three repairs, three residual rounds.
SPECIFICATION AgentSpec
CONSTANTS
  MaxPropose = 1
  MaxRepair = 3
  TopRank = 3
  MaxRounds = 3
  StallLimit = 2
  Challenges <- SmallChallenges
  Answers = {a1, a2, a3}
  Circular = {a1}
  Calls = 2
  RetryCalls = 1
  MaxCandidates = 2
  MaxAccepted = 3
  MaxStates = 2
  Passes = 2
INVARIANTS
  AgentTypeOK
  StallsAfterTwoRepairs
  CheckpointIsSubstantive
  ProgramGetsARound
  
  SlotsFitTheirState
  
PROPERTY AgentEnds
CHECK_DEADLOCK FALSE

\* Two milestones in two waves, calls nested once, a bank of two of which one is offered.
SPECIFICATION BridgeSpec
CONSTANTS
  Stmts = {s1, s2}
  Root = root
  MaxNodes = 2
  BankLimit = 1
  MaxDepth = 1
  Waves = 2
  MaxRoutes = 1
  MaxRoutesTried = 1
  MaxLemmas = 2
  MemoLimit = 1
INVARIANTS
  SearchTypeOK
  BankIsAcyclic
  CertificatesStayReplayed
  MilestonesInScope
  ReturnedProofFits
  NothingProvedIsLost
PROPERTY SearchEnds
CHECK_DEADLOCK FALSE

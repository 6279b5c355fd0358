\* Three checks, as in a batch of samples, cancelled at any point.
SPECIFICATION Spec
CONSTANTS
  Checks = {k1, k2, k3}
INVARIANTS
  TypeOK
  ChecksUseOwnEnvironment
  NoStaleReply
  
PROPERTIES
  VerificationCompletes
CHECK_DEADLOCK FALSE

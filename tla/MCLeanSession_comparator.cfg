\* Two checks are enough for one to start late.
SPECIFICATION Spec
CONSTANTS
  Checks = {k1, k2}
INVARIANTS
  ComparatorUndisturbed
CHECK_DEADLOCK FALSE

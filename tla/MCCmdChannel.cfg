CONSTANTS
  MaxExecs = 3
  Faults = TRUE
SPECIFICATION Spec
CHECK_DEADLOCK FALSE
INVARIANT NoAssertFail

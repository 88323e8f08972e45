CONSTANTS
  Callers = {c1, c2}
  MaxCalls = 2
SPECIFICATION Spec
CHECK_DEADLOCK FALSE
INVARIANTS
  TypeOK
  NoDispatchPanic
  PendingAccounted
PROPERTIES
  ExecRefined

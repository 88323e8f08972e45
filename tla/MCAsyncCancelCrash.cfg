CONSTANTS
  Callers = {c1, c2}
  MaxCalls = 2
SPECIFICATION SpecWithCancel
CHECK_DEADLOCK FALSE
INVARIANT NoDispatchPanic

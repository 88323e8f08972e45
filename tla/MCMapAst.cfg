CONSTANTS
  Labels = {"a"}
  MaxDepth = 3
  MaxWidth = 2
  StackBound = 9
SPECIFICATION Spec
CHECK_DEADLOCK FALSE
INVARIANTS TypeOK MapsBottomUp
PROPERTIES Terminates

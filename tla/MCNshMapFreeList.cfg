SPECIFICATION Spec
CONSTANTS
  MapArgs <- EdgeArgs
  AdjPool <- TwoAdjs
  UninitAdj = {0}
  SubInterfaces = TRUE
  MaxSw = 4
  MaxSessionPool = 3
  NoValue = NoValue
CHECK_DEADLOCK FALSE
INVARIANT FreeListHoldsTunnels

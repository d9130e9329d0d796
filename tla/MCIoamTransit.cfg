SPECIFICATION Spec
CONSTANTS
  d1 = d1
  d2 = d2
  Dest <- MCDest
  HackDest = d1
  Fib = {0, 1}
  NumInterfaces = 3
  MaxChildren = 2
  MaxRefs = 5
  MaxEnables = 3
  NoFib = NoFib
INVARIANT TypeOK
INVARIANT RecordsOnEnabled
INVARIANT RouteHeard
PROPERTY DisableInBounds
PROPERTY DestsRefineTable
CHECK_DEADLOCK FALSE

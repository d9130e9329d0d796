SPECIFICATION Spec
CONSTANTS
  MapArgs <- PathArgs
  AdjPool <- TwoAdjs
  UninitAdj = {0}
  SubInterfaces = FALSE
  MaxSw = 4
  MaxSessionPool = 2
  NoValue = NoValue
INVARIANTS
  TypeOK
  TunnelOwnership
  TunnelRouting
  NoFault
PROPERTIES
  TunnelNameStable
  MapsRefineTable
  SessionsRefineTable

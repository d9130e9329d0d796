SPECIFICATION Spec
CONSTANTS
  trace = trace
  trace2 = trace2
  unknown = unknown
  local = local
  vnf = vnf
  tunnel = tunnel
  sff = sff
  NoPath = "~0"
  NoInterface = NoInterface
  Path <- MCPath
  Interface <- MCInterface
  Option <- MCOption
  Registered <- MCRegistered
  Maps <- MCMaps
  EntryArgs <- MCEntryArgs
  TunnelIndex <- MCTunnelIndex
  Vxlan4Sessions <- MCSessions
  OptionBytes <- MCOptionBytes
  Adjacency <- MCAdjacency
  Arrivals <- NeighbourArrivals
  Profiles <- Loaded
  MaxFrame = 4
  MaxSpace = 2
  EntryChanges = FALSE
  ExportChanges = FALSE
INVARIANT OwnFate

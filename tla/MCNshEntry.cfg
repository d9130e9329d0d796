SPECIFICATION Spec
CONSTANTS
  none = none
  trace = trace
  context = context
  k1 = k1
  k2 = k2
  k3 = k3
  NoTlvs = none
  Trace = trace
  NoValue = NoValue
  Profile = TRUE
  Metadata <- MCMetadata
  TlvLen <- MCTlvLen
  Key <- ThreeKeys
  CliRequests <- MCCli
  ApiRequests <- MCApi
INVARIANT TypeOK
INVARIANT EntryIndexSound
INVARIANT DumpTellsAll
INVARIANT DumpReinstalls
PROPERTY EntriesRefineTable
CHECK_DEADLOCK FALSE

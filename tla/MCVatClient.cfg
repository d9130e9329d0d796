SPECIFICATION Spec
CONSTANTS
  Table = {"entry", "map"}
  Word <- MCWord
  ntohl <- MCntohl
  AsyncModes <- MCModes
  MaxRequests = 3
INVARIANT TypeOK
INVARIANT ResultTellsTable
INVARIANT ScriptInOrder
INVARIANT AnswersOnce
PROPERTY CommandEnds
CHECK_DEADLOCK FALSE

SPECIFICATION Spec
CONSTANTS
  w1 = w1
  w2 = w2
  Worker <- MCWorker
  Swapped = {"swap"}
  Pushed <- MCPushed
  Packets <- MCPackets
  MaxPackets = 4
INVARIANT TypeOK
INVARIANT HeaderWhole
CHECK_DEADLOCK FALSE
SYMMETRY Interchangeable

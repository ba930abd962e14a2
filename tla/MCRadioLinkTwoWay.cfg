SPECIFICATION Spec
CONSTANTS
  a = a
  b = b
  Node <- MCNode
  TX_PACKET_COUNT = 2
  RX_PACKET_COUNT = 2
  MAX_TRIES = 1
  LONG_TRIES = 0
  MaxPackets <- Packets11
  MaxBoots <- Boots11
  MaxQueueResets = 0
  Corruption = TRUE
  WaitForConnection = TRUE
SYMMETRY Symmetry
INVARIANTS AcksAreRight
CHECK_DEADLOCK FALSE

SPECIFICATION Spec
CONSTANTS
  a = a
  b = b
  Node <- MCNode
  TX_PACKET_COUNT = 2
  RX_PACKET_COUNT = 2
  MAX_TRIES = 1
  LONG_TRIES = 0
  MaxPackets <- Packets11
  MaxBoots <- Boots11
  MaxQueueResets = 1
  Corruption = TRUE
  WaitForConnection = FALSE
SYMMETRY Symmetry
INVARIANTS TypeOK QueuedDataIsNotForgotten
CHECK_DEADLOCK FALSE

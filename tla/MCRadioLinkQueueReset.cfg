SPECIFICATION Spec
CONSTANTS
  a = a
  b = b
  Node <- MCNode
  TX_PACKET_COUNT = 4
  RX_PACKET_COUNT = 2
  MAX_TRIES = 1
  LONG_TRIES = 0
  MaxPackets <- Packets30
  MaxBoots <- Boots11
  MaxQueueResets = 1
  Corruption = FALSE
  WaitForConnection = TRUE
INVARIANTS ReleasedWasAccepted
CHECK_DEADLOCK FALSE

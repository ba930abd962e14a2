SPECIFICATION Spec
CONSTANTS
  a = a
  b = b
  Node <- MCNode
  TX_PACKET_COUNT = 2
  RX_PACKET_COUNT = 2
  MAX_TRIES = 1
  LONG_TRIES = 0
  MaxPackets <- Packets20
  MaxBoots <- Boots22
  MaxQueueResets = 0
  Corruption = FALSE
  WaitForConnection = TRUE
INVARIANTS ProtocolInv
PROPERTIES InOrder ConnectsOnlyWhenExpected ImplementsReliableLink OwnedBuffersAreStable
CHECK_DEADLOCK FALSE

SPECIFICATION MCSpec
CONSTANTS
  a = a
  b = b
  Node <- MCNode
  TX_PACKET_COUNT = 2
  RX_PACKET_COUNT = 2
  radioQueueAllowCrcErrors <- OnlyB
  Corruption = TRUE
  MaxPackets <- Packets11
INVARIANTS QueuedDataIsNotForgotten
PROPERTIES OrderIsKept AllIsAired
CHECK_DEADLOCK FALSE

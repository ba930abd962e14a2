CONSTANTS
  a = a
  b = b
  Node <- Wixels
  RADIO_LINK_PAYLOAD_SIZE = 2
  TX_QUEUE_THRESHOLD = 1
  TxCapacity = 3
  RxCapacity = 2
  UINT8 = 5
  Signals = {0, 1}
  EnforceOrdering = TRUE
  MaxBytes <- ThreeFromA
  MaxChanges <- TwoFromA
  MaxBoots <- Once
  ResetCopies = 1
SPECIFICATION MCSpec
INVARIANTS RoomIsReal
PROPERTIES StreamIsKept ArriveInTheEnd

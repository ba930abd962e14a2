CONSTANTS
  a = a
  b = b
  Node <- Wixels
  RADIO_LINK_PAYLOAD_SIZE = 18
  TX_QUEUE_THRESHOLD = 1
  TxCapacity = 15
  RxCapacity = 2
  UINT8 = 256
  Signals = {0, 1}
  EnforceOrdering = TRUE
  MaxBytes <- None
  MaxChanges <- None
  MaxBoots <- Once
  ResetCopies = 1
SPECIFICATION Spec
INVARIANTS RoomIsExact

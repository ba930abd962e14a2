CONSTANTS
  a = a
  b = b
  Node <- Wixels
  RADIO_LINK_PAYLOAD_SIZE = 3
  TX_QUEUE_THRESHOLD = 1
  TxCapacity = 3
  RxCapacity = 2
  UINT8 = 8
  Signals = {0, 1}
  EnforceOrdering = TRUE
  MaxBytes <- None
  MaxChanges <- OneFromA
  MaxBoots <- SenderRestarts
  ResetCopies = 1
SPECIFICATION FairSpec
PROPERTIES SignalsArrive

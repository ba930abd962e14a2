CONSTANTS
  SIZE = 3
  MaxTx = 6
  MaxRx = 4
SPECIFICATION FairSpec
INVARIANTS BuffersInv TxKeepsGoing
PROPERTIES WireInOrder GapsAreReported AllIsSent
CHECK_DEADLOCK FALSE

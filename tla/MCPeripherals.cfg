CONSTANTS
  TxBytes = {1, 2}
  MaxSize = 3
  MaxExchanged = 4
  SpiUINT8 = 2
  Pins <- MCPins
  Targets <- MCTargets
  Speeds = {0, 2}
  UINT16 = 8
  Tuples = {1, 2}
  QContSize = 3
  SContSize = 2
  BUFSIZE = 4
  TxAvailable = {0, 1, 3}
  NoTuple = 0
  Strings <- MCStrings
  bytesToTransmitPerCall = 2
  sizeOfCircularBuffer = 5
  UINT8 = 8
  UINT32 = 16
  CheckPeriod = 1
  Hold = 3
  BlinkBit = 1
  MaxGap = 2
  Addresses <- MCAddresses
  ROMBITS = 4
  BYTEBITS = 2
  MaxChanges = 2
  Tags = {1, 2}
  numberOfAprilTagLocations = 2
  Spots = {0, 40}
  Headings = {0, 180}
  SeenEvery = 2
  AverageEvery = 2
  AverageUpTo = 2
  numberOfTrials = 2
  PacketSize = 2
  TooLong = 1
  NoTag = 0
SPECIFICATION MCSpec
INVARIANTS BytesAreExchanged ServosAreDriven ContentsAreRight BoardIsExact ConversionsAreExact SearchFindsAll EndsAfterEveryTag
PROPERTIES StepsAreSafe
CHECK_DEADLOCK FALSE

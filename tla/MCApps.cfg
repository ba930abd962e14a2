CONSTANTS
  lastChannelIndex = 2
  MAX_CHANNEL_CHANGE_TRIES = 1
  RADIO_LINK_PAYLOAD_SIZE = 18
  TX_QUEUE_THRESHOLD = 1
  TxCapacity = 15
  UINT8 = 256
  BatchSizes = {1, 18}
  MaxResets = 2
  Bytes = {0, 1, 2, 3}
  CMD_START = 1
  CMD_STOP = 2
  CMD_GET_ERRORS = 3
  CmdTimeout = 1
  param_framing_error_ms = 5
  RecentError = 2
  FramingUINT8 = 8
  MaxGap = 2
  BITS = 2
  BusBytes = {1, 2}
  MaxBytes = 2
  MaxTimeouts = 1
SPECIFICATION MCFairSpec
INVARIANTS NoByteIsRefused
PROPERTIES OncePerChannel RoundEnds DeadIsReached NotBackEarly ProgramsGetThere I2cTransfersAreWhole
CHECK_DEADLOCK FALSE

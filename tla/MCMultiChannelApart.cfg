CONSTANTS
  lastChannelIndex = 2
  MAX_CHANNEL_CHANGE_TRIES = 1
  RADIO_LINK_PAYLOAD_SIZE = 18
  TX_QUEUE_THRESHOLD = 1
  TxCapacity = 15
  UINT8 = 256
  BatchSizes = {1}
  MaxResets = 2
SPECIFICATION Spec
PROPERTIES ChannelsAreApart

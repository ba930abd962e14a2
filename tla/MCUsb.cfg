CONSTANTS
  USB_EP0_PACKET_SIZE = 2
  Requests <- AllRequests
  Length <- Lengths
  bNumInterfaces = 2
  usbStringDescriptorCount = 4
  CDC_IN_PACKET_SIZE = 2
  UINT8 = 6
  BootloaderDelay = 2
  MaxGap = 3
  MaxChanges = 1
  hidNumInterfaces = 3
  hidStringDescriptorCount = 7
  UINT16 = 3
  IdleDuration = 1
  Reports = {1, 2}
  MaxUpdates = 2
SPECIFICATION MCFairSpec
CHECK_DEADLOCK FALSE
INVARIANTS RoomIsReal DeviceIsAsReported
PROPERTIES ControlTransfersAreWhole DeviceGoesOn

-------------------------------- MODULE Apps --------------------------------
(***************************************************************************)
(* Three programs, each on a Wixel of its own: wireless_serial_multichannel *)
(* (the module this one extends), serial_i2c, and the framing errors of    *)
(* wireless_serial_jws; and the library i2c, for any program that drives   *)
(* it as serial_i2c does.  They share nothing, so a step of one leaves the *)
(* others as they are.                                                     *)
(***************************************************************************)
EXTENDS MultiChannel

CONSTANTS
  Bytes, CMD_START, CMD_STOP, CMD_GET_ERRORS, CmdTimeout,           \* SerialI2c
  param_framing_error_ms, RecentError, FramingUINT8, MaxGap,        \* FramingError
  BITS, BusBytes, MaxBytes, MaxTimeouts                             \* I2c

ASSUME BridgeAssumption ==
  /\ Bytes \subseteq Nat /\ {CMD_START, CMD_STOP, CMD_GET_ERRORS} \subseteq Nat
  /\ CmdTimeout \in Nat

ASSUME FramingAssumption ==
  /\ param_framing_error_ms \in Nat /\ RecentError \in Nat
  /\ FramingUINT8 \in Nat \ {0} /\ MaxGap \in Nat

VARIABLES
  i2cState, started, dataDirIsRead, dataLength, errors, response, returnResponse, sinceLastCmd,
  i2cTimeoutOccurred, i2cPc, parsed,
  line, uart1RxBufferFullOccurred, uart1RxFramingErrorOccurred, framingErrorActive,
  uartRxDisabled, sinceRxLow, sinceError, errorOccurredRecently, redLed, gap, highFor,
  master, holds, busStarted, busTimeoutOccurred, internalTimeoutOccurred, call, read, slave,
  transfer, timeouts

bridgeVars == <<i2cState, started, dataDirIsRead, dataLength, errors, response, returnResponse,
                sinceLastCmd, i2cTimeoutOccurred, i2cPc, parsed>>
framingVars == <<line, uart1RxBufferFullOccurred, uart1RxFramingErrorOccurred, framingErrorActive,
                 uartRxDisabled, sinceRxLow, sinceError, errorOccurredRecently, redLed, gap, highFor>>
busVars == <<master, holds, busStarted, busTimeoutOccurred, internalTimeoutOccurred, call, read,
             slave, transfer, timeouts>>
appsVars == <<vars, bridgeVars, framingVars, busVars>>

Bridge == INSTANCE SerialI2c WITH state <- i2cState, pc <- i2cPc
Framing == INSTANCE FramingError WITH UINT8 <- FramingUINT8
I2cBus == INSTANCE I2c WITH Bytes <- BusBytes, started <- busStarted,
                            i2cTimeoutOccurred <- busTimeoutOccurred

\* A byte of the bus is a number of BITS bits, and a byte to be read ends the
\* transfer, so that there is room for one.
ASSUME I2cAssumption ==
  /\ BITS \in Nat \ {0} /\ MaxBytes \in Nat \ {0} /\ MaxTimeouts \in Nat
  /\ I2cBus!BytesAreBits

AppsInit == Init /\ Bridge!Init /\ Framing!Init /\ I2cBus!Init

ChannelsStep == Next /\ UNCHANGED <<bridgeVars, framingVars, busVars>>
BridgeStep == Bridge!Next /\ UNCHANGED <<vars, framingVars, busVars>>
FramingStep == Framing!Next /\ UNCHANGED <<vars, bridgeVars, busVars>>
BusStep == I2cBus!Next /\ UNCHANGED <<vars, bridgeVars, framingVars>>

AppsNext == ChannelsStep \/ BridgeStep \/ FramingStep \/ BusStep

AppsSpec == AppsInit /\ [][AppsNext]_appsVars

-----------------------------------------------------------------------------
\* What a comment says should never happen does not: no byte of the host is
\* refused (serial_i2c.c, parseCmd).
NoByteIsRefused == Bridge!NoByteIsRefused

\* The UART's receiver does not come back early (errorService).
NotBackEarly == Framing!NotBackEarly

\* Bytes cross I2C unchanged and in order, between a START and a STOP that the
\* program makes and no others (i2c.c).
I2cTransfersAreWhole == []I2cBus!BytesArrive /\ I2cBus!NoFalseStart
=============================================================================

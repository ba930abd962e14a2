----------------------------- MODULE AppProofs -----------------------------
(***************************************************************************)
(* What is proved of the programs of Apps, for every number of channels,   *)
(* every width and every time of the parameters.                           *)
(***************************************************************************)
EXTENDS Apps, SequenceTheorems, WellFoundedInduction, TLAPS

(***************************************************************************)
(* Each program takes a step of its own, or none.                          *)
(***************************************************************************)

LEMMA StepsAreOfTheirProgram ==
  ASSUME [AppsNext]_appsVars
  PROVE  /\ [Next]_vars
         /\ [Bridge!Next]_(Bridge!vars)
         /\ [Framing!Next]_(Framing!vars)
         /\ [I2cBus!Next]_(I2cBus!vars)
<1>1. UNCHANGED bridgeVars => UNCHANGED Bridge!vars
  BY DEF bridgeVars, Bridge!vars, Bridge!commandVars, Bridge!answerVars
<1>2. UNCHANGED framingVars => UNCHANGED Framing!vars
  BY DEF framingVars, Framing!vars, Framing!uartVars, Framing!errorVars
<1>3. UNCHANGED busVars => UNCHANGED I2cBus!vars
  BY DEF busVars, I2cBus!vars, I2cBus!flagVars
<1>4. CASE UNCHANGED appsVars
  BY <1>1, <1>2, <1>3, <1>4 DEF appsVars
<1>5. CASE AppsNext
  BY <1>1, <1>2, <1>3, <1>5 DEF AppsNext, ChannelsStep, BridgeStep, FramingStep, BusStep
<1> QED BY <1>4, <1>5

-----------------------------------------------------------------------------
(* serial_i2c *)

\* parseCmd refuses a byte only where i2cService does not call it.
LEMMA BridgeStepRefusesNone ==
  ASSUME Bridge!NoByteIsRefused, [Bridge!Next]_(Bridge!vars)
  PROVE  Bridge!NoByteIsRefused'
<1> USE DEF Bridge!NoByteIsRefused
<1>1. CASE Bridge!i2cServiceServes
  <2>1. CASE Bridge!i2cRead
    BY <2>1 DEF Bridge!i2cRead
  <2>2. CASE Bridge!CommandComes
    <3>1. PICK byte \in Bytes : Bridge!parseCmd(byte)
      BY <2>2 DEF Bridge!CommandComes
    <3>2. CASE i2cState = "IDLE" /\ parsed' = "command"
      BY <3>2
    <3>3. CASE i2cState = "GET_ADDR" /\ Bridge!ParseAddress(byte)
      BY <3>3 DEF Bridge!ParseAddress, Bridge!Write
    <3>4. CASE i2cState = "GET_LEN" /\ parsed' = "length"
      BY <3>4
    <3>5. CASE i2cState = "GET_DATA" /\ Bridge!ParseData
      <4>1. ~dataDirIsRead
        BY <2>2, <3>5 DEF Bridge!CommandComes, Bridge!ReadIsDue
      <4> QED BY <3>5, <4>1 DEF Bridge!ParseData, Bridge!Write
    <3> QED BY <3>1, <3>2, <3>3, <3>4, <3>5 DEF Bridge!parseCmd
  <2>3. CASE Bridge!CommandTimesOut
    BY <2>3 DEF Bridge!CommandTimesOut
  <2>4. CASE Bridge!NothingToDo
    BY <2>4 DEF Bridge!NothingToDo
  <2> QED BY <1>1, <2>1, <2>2, <2>3, <2>4 DEF Bridge!i2cServiceServes
<1>2. CASE Bridge!i2cServiceSends
  BY <1>2 DEF Bridge!i2cServiceSends
<1>3. CASE Bridge!i2cServiceDoesNotSend
  BY <1>3 DEF Bridge!i2cServiceDoesNotSend
<1>4. CASE Bridge!uartCheckErrors
  BY <1>4 DEF Bridge!uartCheckErrors
<1>5. CASE Bridge!Millisecond
  BY <1>5 DEF Bridge!Millisecond
<1>6. CASE UNCHANGED Bridge!vars
  BY <1>6 DEF Bridge!vars
<1> QED BY <1>1, <1>2, <1>3, <1>4, <1>5, <1>6 DEF Bridge!Next, Bridge!Service

\* No byte of the host is refused: none is taken while the bytes of a read
\* are still to be sent back (i2cService, parseCmd).
THEOREM BridgeRefusesNoByte == AppsSpec => []NoByteIsRefused
<1>1. AppsInit => NoByteIsRefused
  BY DEF AppsInit, Bridge!Init, NoByteIsRefused, Bridge!NoByteIsRefused
<1>2. NoByteIsRefused /\ [AppsNext]_appsVars => NoByteIsRefused'
  BY StepsAreOfTheirProgram, BridgeStepRefusesNone DEF NoByteIsRefused
<1> QED BY <1>1, <1>2, PTL DEF AppsSpec

-----------------------------------------------------------------------------
(* The framing errors of wireless_serial_jws *)

\* While the receiver is off, lastRxLowTime is not older than the line has
\* been high, unless that is long enough.
WaitIsReal ==
  /\ sinceRxLow \in Nat /\ highFor \in Nat
  /\ line \in BOOLEAN /\ uartRxDisabled \in BOOLEAN
  /\ uartRxDisabled => sinceRxLow <= highFor \/ highFor > param_framing_error_ms

LEMMA WaitIsRealInit == Framing!Init => WaitIsReal
<1> SUFFICES ASSUME Framing!Init PROVE WaitIsReal
  OBVIOUS
<1>1. line \in BOOLEAN /\ uartRxDisabled \in BOOLEAN /\ ~uartRxDisabled
  BY Zenon DEF Framing!Init
<1>2. sinceRxLow \in Nat /\ highFor \in Nat
  BY DEF Framing!Init
<1> QED BY <1>1, <1>2 DEF WaitIsReal

LEMMA WaitIsRealStep ==
  ASSUME WaitIsReal, [Framing!Next]_(Framing!vars)
  PROVE  /\ WaitIsReal'
         /\ uartRxDisabled /\ ~uartRxDisabled' => line /\ highFor > param_framing_error_ms
<1> USE FramingAssumption
<1>1. CASE Framing!Turn
  <2> USE <1>1 DEF WaitIsReal, Framing!Turn, Framing!errorService
  <2>1. WaitIsReal'
    <3>1. CASE Framing!RestartsWait
      BY <3>1
    <3>2. CASE ~Framing!RestartsWait
      BY <3>2 DEF Framing!RestartsWait
    <3> QED BY <3>1, <3>2
  <2>2. uartRxDisabled /\ ~uartRxDisabled' => line /\ highFor > param_framing_error_ms
    <3> SUFFICES ASSUME uartRxDisabled, ~uartRxDisabled'
                 PROVE  line /\ highFor > param_framing_error_ms
      OBVIOUS
    <3>1. uartRxDisabled' = (Framing!SwitchesOff \/ (uartRxDisabled /\ ~Framing!LineWasHigh))
      BY Zenon
    <3>2. Framing!LineWasHigh
      BY <3>1, Zenon
    <3>3. line /\ sinceRxLow > param_framing_error_ms
      BY <3>2, Zenon DEF Framing!LineWasHigh
    <3> QED BY <3>3
  <2> QED BY <2>1, <2>2
<1>2. CASE Framing!Millisecond
  <2>1. UNCHANGED <<line, uartRxDisabled>>
    BY <1>2 DEF Framing!Millisecond, Framing!errorVars
  <2>2. (sinceRxLow + 1) % FramingUINT8 <= sinceRxLow + 1
    BY DEF WaitIsReal
  <2>3. sinceRxLow' \in Nat /\ sinceRxLow' <= sinceRxLow + 1
    BY <1>2, <2>2 DEF Framing!Millisecond, WaitIsReal
  <2>4. highFor' \in Nat /\ (highFor' = highFor + 1 \/ (highFor' = highFor /\ highFor > param_framing_error_ms))
    BY <1>2 DEF Framing!Millisecond, WaitIsReal
  <2> QED BY <2>1, <2>3, <2>4 DEF WaitIsReal
<1>3. CASE Framing!LineChanges
  <2>1. line' \in BOOLEAN
    BY <1>3, Zenon DEF Framing!LineChanges
  <2>2. UNCHANGED <<uartRxDisabled, sinceRxLow, highFor>>
    BY <1>3 DEF Framing!LineChanges, Framing!errorVars
  <2> QED BY <2>1, <2>2 DEF WaitIsReal
<1>4. CASE Framing!FramingErrorComes
  BY <1>4 DEF WaitIsReal, Framing!FramingErrorComes, Framing!errorVars
<1>5. CASE Framing!BufferIsFull
  BY <1>5 DEF WaitIsReal, Framing!BufferIsFull, Framing!errorVars
<1>6. CASE UNCHANGED Framing!vars
  BY <1>6 DEF WaitIsReal, Framing!vars, Framing!errorVars
<1> QED BY <1>1, <1>2, <1>3, <1>4, <1>5, <1>6 DEF Framing!Next

\* The receiver is not switched on before the line was high for longer than
\* param_framing_error_ms, whatever the byte of the time does (errorService).
THEOREM ReceiverIsNotBackEarly == AppsSpec => NotBackEarly
<1>1. AppsInit => WaitIsReal
  BY WaitIsRealInit DEF AppsInit
<1>2. WaitIsReal /\ [AppsNext]_appsVars
      => /\ WaitIsReal'
         /\ [uartRxDisabled /\ ~uartRxDisabled' => line /\ highFor > param_framing_error_ms]_(Framing!vars)
  BY StepsAreOfTheirProgram, WaitIsRealStep
<1> QED BY <1>1, <1>2, PTL DEF AppsSpec, NotBackEarly, Framing!NotBackEarly

-----------------------------------------------------------------------------
(* wireless_serial_multichannel *)

LEMMA LeastExists ==
  ASSUME NEW S, S \subseteq Nat, S # {}
  PROVE  \E n \in S : \A m \in S : n <= m
<1> DEFINE Less == {p \in Nat \X Nat : p[1] < p[2]}
<1>1. IsWellFoundedOn(Less, Nat)
  BY NatLessThanWellFounded DEF OpToRel
<1> HIDE DEF Less
<1>2. PICK n \in S : \A m \in S : <<m, n>> \notin Less
  BY <1>1, WFMin, Zenon
<1>3. ASSUME NEW m \in S PROVE n <= m
  <2>1. <<m, n>> \notin Less
    BY <1>2
  <2>2. ~(m < n)
    BY <2>1 DEF Less
  <2> QED BY <2>2
<1> QED BY <1>3

\* findNextChannel looks for the lowest channel of a set.
LEMMA LowestIsLeast ==
  ASSUME NEW S, S \subseteq Channels, S # {}
  PROVE  Lowest(S) \in S /\ \A c \in S : Lowest(S) <= c
<1>1. S \subseteq Nat
  BY SizeAssumption DEF Channels
<1>2. \E n \in S : \A m \in S : n <= m
  BY <1>1, LeastExists
<1> QED BY <1>2 DEF Lowest

\* A batch goes up the list: the channels it was sent on lie below the one it
\* goes to next, and the list is over when the end of it is met.  The last
\* channel is never dropped, so the list has an end.
Ascending ==
  /\ channelCounter \in Channels /\ channel \in Channels
  /\ channelStates \subseteq Channels /\ served \subseteq Channels
  /\ deadchannelCounter \in Nat
  /\ sendingState \in 0 .. 2 /\ rollover \in BOOLEAN
  /\ lastChannelIndex \in channelStates
  /\ pc = "fill" => sendingState = 1
  /\ sendingState # 2 => channel = channelCounter /\ ~rollover
  /\ sendingState = 1 /\ pc # "fill" => \A c \in served : c < channelCounter
  /\ sendingState = 1 => \A c \in served : c <= channelCounter
  /\ sendingState = 2 /\ ~rollover => \A c \in served : c < channelCounter

LEMMA AscendingInit == Init => Ascending
<1> SUFFICES ASSUME Init PROVE Ascending
  OBVIOUS
<1>1. 255 % UINT8 \in Nat
  BY SizeAssumption
<1>2. channelStates = Channels /\ served = {}
  BY DEF Init
<1>3. lastChannelIndex \in Channels /\ 0 \in Channels
  BY SizeAssumption DEF Channels
<1>4. rollover \in BOOLEAN /\ ~rollover /\ pc = "txService"
  BY Zenon DEF Init
<1>5. sendingState = 0 /\ channelCounter = 0 /\ channel = 0 /\ deadchannelCounter \in Nat
  BY <1>1 DEF Init
<1> QED BY <1>2, <1>3, <1>4, <1>5 DEF Ascending

LEMMA HeartbeatRevivesAChannel ==
  ASSUME Ascending, Heartbeat
  PROVE  /\ Revived \subseteq Channels /\ lastChannelIndex \in Revived
         /\ deadchannelCounter' \in Nat
<1>1. ASSUME NEW c \in Nat PROVE OneUp(c) \in Channels
  BY SizeAssumption DEF OneUp, Channels
<1>2. NextDeadChannel \in Channels
  BY <1>1 DEF NextDeadChannel, Ascending, Channels
<1>3. deadchannelCounter' \in Nat
  BY <1>2 DEF Heartbeat, Ascending, Channels
<1> QED BY <1>2, <1>3 DEF Revived, Ascending

LEMMA AscendingStep ==
  ASSUME Ascending, [Next]_vars
  PROVE  /\ Ascending'
         /\ pc = "usbToRadio" /\ pc' = "fill" => channel \notin served
<1> USE DEF listVars, batchVars, radioVars
<1>1. CASE RadioComTxService
  BY <1>1 DEF Ascending, RadioComTxService
<1>2. CASE PacketIsAcked
  BY <1>2 DEF Ascending, PacketIsAcked
<1>3. CASE ResetIsReceived
  BY <1>3 DEF Ascending, ResetIsReceived
<1>4. CASE HeartbeatTimePasses
  BY <1>4 DEF Ascending, HeartbeatTimePasses
<1>5. CASE CopyBatch
  BY <1>5, HeartbeatRevivesAChannel DEF Ascending, CopyBatch
<1>6. CASE NothingToCopy
  BY <1>6, HeartbeatRevivesAChannel DEF Ascending, NothingToCopy
<1>7. CASE BeginSending
  <2>1. pc = "usbToRadio" /\ sendingState = 1
    BY <1>7 DEF BeginSending, Heartbeat
  <2>2. \A c \in served : c < channel
    BY <2>1 DEF Ascending
  <2>3. channel \notin served
    BY <2>2 DEF Ascending, Channels
  <2>4. \A c \in served' : c <= channelCounter
    BY <1>7, <2>1, <2>2 DEF BeginSending, Ascending, Channels
  <2> QED BY <1>7, <2>1, <2>3, <2>4, HeartbeatRevivesAChannel DEF Ascending, BeginSending
<1>8. CASE SendByte
  BY <1>8 DEF Ascending, SendByte
<1>9. CASE EndSending
  <2>1. sendingState = 1 /\ channelStates # {} /\ ~rollover
    BY <1>9 DEF EndSending, Ascending
  <2>2. LiveAfter \subseteq Channels /\ channelStates \subseteq Channels
    BY DEF LiveAfter, Ascending
  <2>3. CASE LiveAfter # {}
    <3>1. channelCounter' \in Channels /\ channelCounter' > channelCounter /\ ~rollover'
      BY <1>9, <2>1, <2>2, <2>3, LowestIsLeast DEF EndSending, FindNextChannel, LiveAfter
    <3>2. \A c \in served : c < channelCounter'
      BY <2>1, <3>1 DEF Ascending, Channels
    <3> QED BY <1>9, <3>1, <3>2 DEF EndSending, FindNextChannel, Ascending
  <2>4. CASE LiveAfter = {}
    <3>1. channelCounter' \in Channels /\ rollover'
      BY <1>9, <2>1, <2>2, <2>4, LowestIsLeast DEF EndSending, FindNextChannel
    <3> QED BY <1>9, <3>1 DEF EndSending, FindNextChannel, Ascending
  <2> QED BY <2>3, <2>4
<1>10. CASE ChangeChannel
  <2>1. sendingState = 2 /\ pc' = "txService"
    BY <1>10 DEF ChangeChannel, Heartbeat
  <2>2. /\ channelStates' \subseteq Channels /\ lastChannelIndex \in channelStates'
        /\ deadchannelCounter' \in Nat
    BY <1>10, HeartbeatRevivesAChannel DEF ChangeChannel
  <2>3. channel' = channelCounter /\ ~rollover' /\ rollover' \in BOOLEAN
    BY <1>10, Zenon DEF ChangeChannel
  <2>4. UNCHANGED <<channelCounter, served>> /\ sendingState' = IF rollover THEN 0 ELSE 1
    BY <1>10 DEF ChangeChannel
  <2>5. Ascending'
    <3>1. CASE rollover
      BY <2>1, <2>2, <2>3, <2>4, <3>1 DEF Ascending
    <3>2. CASE ~rollover
      <4>1. \A c \in served : c < channelCounter
        BY <2>1, <3>2 DEF Ascending
      <4>2. \A c \in served : c <= channelCounter
        BY <4>1 DEF Ascending, Channels
      <4> QED BY <2>1, <2>2, <2>3, <2>4, <3>2, <4>1, <4>2 DEF Ascending
    <3> QED BY <3>1, <3>2
  <2> QED BY <2>1, <2>5
<1>11. CASE WaitForQueue
  <2>1. lastChannelIndex # channelCounter - 1
    BY SizeAssumption DEF Ascending, Channels
  <2>2. lastChannelIndex \in channelStates'
    BY <1>11, <2>1, HeartbeatRevivesAChannel DEF WaitForQueue
  <2>3. channelStates' \subseteq Channels
    BY <1>11, HeartbeatRevivesAChannel DEF WaitForQueue
  <2>4. pc = "usbToRadio" /\ pc' = "txService" /\ sendingState = 2
    BY <1>11 DEF WaitForQueue, Heartbeat
  <2>5. UNCHANGED <<channelCounter, rollover, channel, sendingState, served>>
    BY <1>11 DEF WaitForQueue
  <2>6. deadchannelCounter' \in Nat
    BY <1>11, HeartbeatRevivesAChannel DEF WaitForQueue
  <2>7. sendingState = 2 /\ ~rollover => \A c \in served : c < channelCounter
    BY DEF Ascending
  <2>8. Ascending'
    BY <2>2, <2>3, <2>4, <2>5, <2>6, <2>7 DEF Ascending
  <2> QED BY <2>4, <2>8
<1>12. CASE UNCHANGED vars
  BY <1>12 DEF Ascending, vars
<1> QED BY <1>1, <1>2, <1>3, <1>4, <1>5, <1>6, <1>7, <1>8, <1>9, <1>10, <1>11, <1>12
        DEF Next, UsbToRadioService

\* A batch goes out at most once on each channel, whichever channels die and
\* are revived while it goes round (usbToRadioService, findNextChannel).
THEOREM BatchGoesOncePerChannel == Spec => OncePerChannel
<1>1. Ascending /\ [Next]_vars
      => Ascending' /\ [pc = "usbToRadio" /\ pc' = "fill" => channel \notin served]_vars
  BY AscendingStep
<1> QED BY AscendingInit, <1>1, PTL DEF Spec, OncePerChannel
-----------------------------------------------------------------------------
(***************************************************************************)
(* i2c: the invariant says of every step of a call what the slave has of   *)
(* the byte and what the wires are, until a wait has timed out.            *)
(***************************************************************************)

SclIsFree == "SCL" \notin master /\ "SCL" \notin holds

\* The slave takes the byte that the program has sent last, and has n bits of it.
Taking(n) ==
  /\ slave.mode \in {"address", "receive"}
  /\ "SDA" \notin holds
  /\ Len(slave.bits) = n
  /\ \A i \in 1..n : slave.bits[i] = I2cBus!bitsOf(call.byte)[i]
  /\ transfer.sent = Append(slave.got, call.byte)

\* It takes bit n when SCL rises.
TakingBit(n) == IF SclIsFree THEN Taking(n) ELSE Taking(n - 1)

\* The slave has the byte, and says so or not.
Answers ==
  /\ slave.got = transfer.sent
  /\ \/ slave.mode = "ack" /\ slave.bits = <<>> /\ "SDA" \in holds
     \/ slave.mode = "idle" /\ "SDA" \notin holds

\* The slave shows bit n of a byte, and has those behind it.
Sending(byte, n) ==
  /\ slave.mode = "send"
  /\ "SDA" \in holds <=> I2cBus!bitsOf(byte)[n] = 0
  /\ Len(slave.bits) = BITS - n
  /\ \A i \in 1 .. BITS - n : slave.bits[i] = I2cBus!bitsOf(byte)[n + i]

\* The program has read n bits of a byte.
HasRead(byte, n) == Len(read) = n /\ \A i \in 1..n : read[i] = I2cBus!bitsOf(byte)[i]

\* Between two bytes, program and slave know the same of the transfer.
Agrees ==
  /\ transfer.mode = "none" => slave.mode = "idle"
  /\ transfer.mode # "none" => slave.got = transfer.sent
  /\ transfer.mode = "address" => slave.mode = "address" /\ slave.bits = <<>> /\ transfer.sent = <<>>
  /\ transfer.mode = "write" =>
       slave.mode = "receive" /\ slave.bits = <<>> /\ transfer.sent # <<>>
  /\ transfer.mode \in {"address", "write", "stopped"} =>
       slave.sent = <<>> /\ transfer.received = <<>>
  /\ transfer.mode \in {"stopped", "nacked"} => slave.mode = "idle"
  /\ transfer.mode = "nacked" => slave.sent = transfer.received
  /\ transfer.mode = "read" =>
       /\ transfer.sent # <<>>
       /\ \E byte \in BusBytes : slave.sent = Append(transfer.received, byte) /\ Sending(byte, 1)
  /\ transfer.mode # "read" => "SDA" \notin holds

\* A transfer reads when its first byte, the address, says so.
ModeIsAsAddressed == transfer.mode = IF I2cBus!IsRead(transfer.sent[1]) THEN "read" ELSE "write"
ModeOK == transfer.mode = "write" => ~I2cBus!IsRead(transfer.sent[1])

Resting ==
  /\ Agrees /\ ModeOK
  /\ busStarted <=> transfer.mode \in {"address", "write", "read", "nacked"}
  /\ busStarted => "SCL" \in master
  /\ ~busStarted => master = {} /\ holds = {}

\* The clock in the steps of a bit: low, let go and waited for.
Clocked == (call.at <= 2 <=> "SCL" \in master) /\ (call.at > 3 => "SCL" \notin holds)

\* In i2cStart, the step it would be in if the START were a repeated one.
StartAt == IF busStarted THEN call.at ELSE call.at + 1
Fresh == slave = [mode |-> "address", bits |-> <<>>, got |-> <<>>, sent |-> <<>>]
Starting ==
  /\ transfer = [mode |-> "address", sent |-> <<>>, received |-> <<>>]
  /\ "SDA" \notin holds
  /\ call.at >= 1 /\ StartAt <= 6
  /\ StartAt <= 4 => slave.mode \in {"idle", "receive"}
  /\ StartAt <= 2 /\ busStarted => "SCL" \in master
  /\ StartAt = 2 /\ ~busStarted => master = {} /\ holds = {}
  /\ StartAt \in 2..4 => "SDA" \notin master
  /\ StartAt \in 3..5 => "SCL" \notin master
  /\ StartAt \in 4..5 => "SCL" \notin holds
  /\ StartAt = 5 => "SDA" \in master
  /\ StartAt = 6 => "SCL" \in master
  /\ StartAt >= 5 => Fresh

Stopping ==
  /\ transfer.mode \in {"none", "stopped"}
  /\ transfer.mode = "stopped" => slave.mode = "idle" /\ Agrees
  /\ "SDA" \notin holds
  /\ busStarted
  /\ call.at \in 1..5 /\ Clocked
  /\ slave.mode \in {"idle", "receive", "address"}
  /\ call.at \in 2..4 => "SDA" \in master
  /\ call.at = 5 => "SDA" \notin master /\ slave.mode = "idle"

Writing ==
  /\ call.byte \in BusBytes
  /\ busStarted
  /\ transfer.sent # <<>> /\ ModeIsAsAddressed
  /\ transfer.received = <<>>
  /\ call.bit <= BITS \/ call.at <= 5 \/ read = <<1>> => slave.sent = <<>>
  /\ \/ /\ call.bit \in 1..BITS
        /\ call.at \in 1..4 /\ Clocked
        /\ read = <<>>
        /\ TakingBit(call.bit)
        /\ call.at >= 2 => ("SDA" \in master <=> I2cBus!bitsOf(call.byte)[call.bit] = 0)
     \/ /\ call.bit = BITS + 1
        /\ call.at \in 1..5 /\ Clocked
        /\ Answers
        /\ read = IF call.at = 5 THEN <<IF "SDA" \in holds THEN 0 ELSE 1>> ELSE <<>>
        /\ call.at >= 2 => "SDA" \notin master
     \/ /\ call.bit = BITS + 1
        /\ call.at = 6
        /\ "SCL" \in master /\ "SDA" \notin master
        /\ \/ read = <<0>> /\ Agrees
           \/ /\ read = <<1>>
              /\ slave.mode = "idle" /\ "SDA" \notin holds /\ slave.got = transfer.sent

Reading ==
  /\ call.byte \in {0, 1}
  /\ busStarted
  /\ transfer.mode = "read" /\ transfer.sent # <<>> /\ slave.got = transfer.sent
  /\ call.byte = 0 => Len(transfer.received) < MaxBytes - 1
  /\ \E byte \in BusBytes :
       \/ /\ call.bit \in 1..BITS
          /\ call.at \in 1..5 /\ Clocked
          /\ slave.sent = Append(transfer.received, byte)
          /\ Sending(byte, call.bit)
          /\ HasRead(byte, IF call.at = 5 THEN call.bit ELSE call.bit - 1)
          /\ call.at >= 2 => "SDA" \notin master
       \/ /\ call.bit = BITS + 1
          /\ call.at \in 1..4 /\ Clocked
          /\ slave.sent = Append(transfer.received, byte)
          /\ HasRead(byte, BITS)
          /\ "SDA" \notin holds
          /\ slave.mode = IF SclIsFree /\ call.byte = 1 THEN "idle" ELSE "acked"
          /\ call.at >= 2 => ("SDA" \in master <=> call.byte = 0)
       \/ /\ call.bit = BITS + 1
          /\ call.at = 5
          /\ HasRead(byte, BITS)
          /\ "SCL" \in master
          /\ call.byte = 1 =>
               slave.mode = "idle" /\ "SDA" \notin holds /\ slave.sent = Append(transfer.received, byte)
          /\ call.byte = 0 => \E next \in BusBytes :
               slave.sent = Append(Append(transfer.received, byte), next) /\ Sending(next, 1)

CallType == [name : {"none", "start", "stop", "write", "read"}, byte : BusBytes \cup {0, 1},
             bit : Nat, at : Nat]
SlaveType == [mode : {"idle", "address", "receive", "ack", "send", "acked"},
              bits : Seq({0, 1}), got : Seq(BusBytes), sent : Seq(BusBytes)]
TransferType == [mode : {"none", "address", "write", "read", "stopped", "nacked"},
                 sent : Seq(BusBytes), received : Seq(BusBytes)]
I2cTyped ==
  call \in CallType /\ slave \in SlaveType /\ transfer \in TransferType /\ read \in Seq({0, 1})

\* Until a wait has timed out, the call is where program and slave know it.
InTime ==
  /\ I2cTyped
  /\ ~internalTimeoutOccurred
  /\ \/ call = I2cBus!NoCall /\ Resting
     \/ call.name = "start" /\ call.bit = 1 /\ Starting
     \/ call.name = "stop" /\ call.bit = 1 /\ Stopping
     \/ call.name = "write" /\ Writing
     \/ call.name = "read" /\ Reading

WiresTyped ==
  /\ master \subseteq {"SCL", "SDA"} /\ holds \subseteq {"SCL", "SDA"}
  /\ busStarted \in BOOLEAN /\ busTimeoutOccurred \in BOOLEAN /\ internalTimeoutOccurred \in BOOLEAN

I2cInv == WiresTyped /\ (busTimeoutOccurred \/ InTime)

\* What NoFalseStart says of a step in time.
NoFalseStep ==
  /\ slave'.mode = "address" /\ slave'.got = <<>> /\ slave'.bits = <<>> /\ slave' # slave
       => call.name = "start"
  /\ slave'.mode = "idle" /\ slave.mode # "idle" => call.name # "start"

InStep == I2cBus!MasterPin \/ I2cBus!Sample \/ I2cBus!SclIsHigh \/ I2cBus!Returns

-----------------------------------------------------------------------------
\* What a change of the wires does to the slave, by the state of SCL.

LEMMA SclStaysLow ==
  ASSUME "SCL" \in master, NEW m, "SCL" \in m, I2cBus!Wires(m, holds)
  PROVE  master' = m /\ slave' = slave /\ holds' = holds
  BY DEF I2cBus!Wires, I2cBus!High

LEMMA SclStaysFree ==
  ASSUME master = {}, holds = {}, I2cBus!Wires(master \ {"SCL"}, holds)
  PROVE  master' = master /\ slave' = slave /\ holds' = holds
  BY DEF I2cBus!Wires, I2cBus!High

LEMMA MasterLetsSclGo ==
  ASSUME "SCL" \in master, I2cBus!Wires(master \ {"SCL"}, holds)
  PROVE  /\ master' = master \ {"SCL"} /\ holds' = holds
         /\ "SCL" \in holds => slave' = slave
         /\ "SCL" \notin holds =>
              slave' = I2cBus!TakesBit(IF "SDA" \in master \cup holds THEN 0 ELSE 1)
  BY DEF I2cBus!Wires, I2cBus!High, I2cBus!SdaOf

LEMMA SlaveLetsGo ==
  ASSUME I2cBus!SlaveLetsSclGo
  PROVE  /\ master' = master /\ holds' = holds \ {"SCL"} /\ "SCL" \in holds
         /\ "SCL" \in master => slave' = slave
         /\ "SCL" \notin master =>
              slave' = I2cBus!TakesBit(IF "SDA" \in master \cup holds THEN 0 ELSE 1)
         /\ UNCHANGED <<busStarted, busTimeoutOccurred, internalTimeoutOccurred, call, read, transfer>>
  BY DEF I2cBus!SlaveLetsSclGo, I2cBus!Wires, I2cBus!High, I2cBus!SdaOf, I2cBus!flagVars

LEMMA StartIsSeen ==
  ASSUME SclIsFree, "SDA" \notin master, "SDA" \notin holds,
         I2cBus!Wires(master \cup {"SDA"}, holds)
  PROVE  master' = master \cup {"SDA"} /\ holds' = holds /\ Fresh'
  BY DEF I2cBus!Wires, I2cBus!High, SclIsFree, Fresh

LEMMA StopIsSeen ==
  ASSUME SclIsFree, "SDA" \in master, "SDA" \notin holds,
         I2cBus!Wires(master \ {"SDA"}, holds)
  PROVE  master' = master \ {"SDA"} /\ holds' = holds /\ slave' = I2cBus!Idle
  BY DEF I2cBus!Wires, I2cBus!High, SclIsFree

LEMMA SclFalls ==
  ASSUME SclIsFree, I2cBus!Wires(master \cup {"SCL"}, holds)
  PROVE  /\ master' = master \cup {"SCL"}
         /\ holds' \subseteq {"SCL", "SDA"}
         /\ \E next \in I2cBus!SetsBit :
              slave' = next.state /\ ("SDA" \in holds' <=> next.sda = 0)
<1>1. /\ master' = master \cup {"SCL"}
      /\ \E next \in I2cBus!SetsBit, stretch \in {{}, {"SCL"}} :
           slave' = next.state /\ holds' = stretch \cup (IF next.sda = 0 THEN {"SDA"} ELSE {})
  BY DEF I2cBus!Wires, I2cBus!High, SclIsFree
<1> QED BY <1>1

-----------------------------------------------------------------------------
\* The steps of the calls.

LEMMA PutIs == I2cBus!Put(1) = "sda high" /\ I2cBus!Put(0) = "sda low"
  BY DEF I2cBus!Put

LEMMA StartStepsAreThese ==
  ASSUME call.name = "start"
  PROVE  /\ busStarted =>
              /\ Len(I2cBus!Steps) = 6
              /\ I2cBus!Steps[1] = "sda high" /\ I2cBus!Steps[2] = "let scl go"
              /\ I2cBus!Steps[3] = "await scl" /\ I2cBus!Steps[4] = "sda low"
              /\ I2cBus!Steps[5] = "scl low" /\ I2cBus!Steps[6] = "started"
         /\ ~busStarted =>
              /\ Len(I2cBus!Steps) = 5
              /\ I2cBus!Steps[1] = "let scl go" /\ I2cBus!Steps[2] = "await scl"
              /\ I2cBus!Steps[3] = "sda low" /\ I2cBus!Steps[4] = "scl low"
              /\ I2cBus!Steps[5] = "started"
<1>1. I2cBus!Steps = I2cBus!i2cStartSteps(busStarted)
  BY DEF I2cBus!Steps
<1>2. CASE busStarted
  <2>1. I2cBus!Steps =
          <<"sda high", "let scl go", "await scl", "sda low", "scl low", "started">>
    BY <1>1, <1>2, PutIs DEF I2cBus!i2cStartSteps
  <2> QED BY <1>2, <2>1
<1>3. CASE ~busStarted
  <2>1. I2cBus!Steps = <<"let scl go", "await scl", "sda low", "scl low", "started">>
    BY <1>1, <1>3, PutIs DEF I2cBus!i2cStartSteps
  <2> QED BY <1>3, <2>1
<1> QED BY <1>2, <1>3

LEMMA StartStepsAre ==
  ASSUME call.name = "start", busStarted \in BOOLEAN, call.at \in Nat, call.at >= 1
  PROVE  /\ StartAt = 1 => I2cBus!Steps[call.at] = "sda high" /\ call.at # Len(I2cBus!Steps)
         /\ StartAt = 2 => I2cBus!Steps[call.at] = "let scl go" /\ call.at # Len(I2cBus!Steps)
         /\ StartAt = 3 => I2cBus!Steps[call.at] = "await scl" /\ call.at # Len(I2cBus!Steps)
         /\ StartAt = 4 => I2cBus!Steps[call.at] = "sda low" /\ call.at # Len(I2cBus!Steps)
         /\ StartAt = 5 => I2cBus!Steps[call.at] = "scl low" /\ call.at # Len(I2cBus!Steps)
         /\ StartAt = 6 => I2cBus!Steps[call.at] = "started" /\ call.at = Len(I2cBus!Steps)
<1>1. CASE busStarted
  <2>1. StartAt = call.at
    BY <1>1 DEF StartAt
  <2> QED BY <1>1, <2>1, StartStepsAreThese
<1>2. CASE ~busStarted
  <2>1. StartAt = call.at + 1
    BY <1>2 DEF StartAt
  <2>2. /\ StartAt # 1
        /\ StartAt = 2 => call.at = 1
        /\ StartAt = 3 => call.at = 2
        /\ StartAt = 4 => call.at = 3
        /\ StartAt = 5 => call.at = 4
        /\ StartAt = 6 => call.at = 5
    BY <2>1
  <2> QED BY <1>2, <2>2, StartStepsAreThese
<1> QED BY <1>1, <1>2

LEMMA StopStepsAre ==
  ASSUME call.name = "stop"
  PROVE  /\ Len(I2cBus!Steps) = 5
         /\ I2cBus!Steps[1] = "sda low" /\ I2cBus!Steps[2] = "let scl go"
         /\ I2cBus!Steps[3] = "await scl" /\ I2cBus!Steps[4] = "sda high"
         /\ I2cBus!Steps[5] = "stopped"
<1>1. I2cBus!Steps = I2cBus!i2cStopSteps
  BY DEF I2cBus!Steps
<1>2. I2cBus!i2cStopSteps = <<"sda low", "let scl go", "await scl", "sda high", "stopped">>
  BY PutIs DEF I2cBus!i2cStopSteps
<1> QED BY <1>1, <1>2

LEMMA BitStepsAre ==
  /\ Len(I2cBus!i2cReadBit) = 5 /\ I2cBus!i2cReadBit[1] = "sda high"
  /\ I2cBus!i2cReadBit[2] = "let scl go" /\ I2cBus!i2cReadBit[3] = "await scl"
  /\ I2cBus!i2cReadBit[4] = "sample" /\ I2cBus!i2cReadBit[5] = "scl low"
  /\ \A b : /\ Len(I2cBus!i2cWriteBit(b)) = 4 /\ I2cBus!i2cWriteBit(b)[1] = I2cBus!Put(b)
            /\ I2cBus!i2cWriteBit(b)[2] = "let scl go" /\ I2cBus!i2cWriteBit(b)[3] = "await scl"
            /\ I2cBus!i2cWriteBit(b)[4] = "scl low"
<1>1. /\ Len(I2cBus!i2cReadBit) = 5 /\ I2cBus!i2cReadBit[1] = "sda high"
      /\ I2cBus!i2cReadBit[2] = "let scl go" /\ I2cBus!i2cReadBit[3] = "await scl"
      /\ I2cBus!i2cReadBit[4] = "sample" /\ I2cBus!i2cReadBit[5] = "scl low"
  BY DEF I2cBus!i2cReadBit, I2cBus!Put
<1>2. ASSUME NEW b
      PROVE  /\ Len(I2cBus!i2cWriteBit(b)) = 4 /\ I2cBus!i2cWriteBit(b)[1] = I2cBus!Put(b)
             /\ I2cBus!i2cWriteBit(b)[2] = "let scl go" /\ I2cBus!i2cWriteBit(b)[3] = "await scl"
             /\ I2cBus!i2cWriteBit(b)[4] = "scl low"
  BY DEF I2cBus!i2cWriteBit
<1> QED BY <1>1, <1>2

\* The answer to a byte is a bit with one step more.
LEMMA AnswerStepsAre ==
  /\ LET s == Append(I2cBus!i2cReadBit, "acked")
     IN  /\ Len(s) = 6 /\ s[1] = "sda high" /\ s[2] = "let scl go"
         /\ s[3] = "await scl" /\ s[4] = "sample" /\ s[5] = "scl low" /\ s[6] = "acked"
  /\ \A b : LET s == Append(I2cBus!i2cWriteBit(b), "received")
            IN  /\ Len(s) = 5 /\ s[1] = I2cBus!Put(b) /\ s[2] = "let scl go"
                /\ s[3] = "await scl" /\ s[4] = "scl low" /\ s[5] = "received"
<1> DEFINE Ops == {"sda high", "sda low", "let scl go", "await scl", "sample", "scl low", "acked",
                   "received"}
<1>1. /\ "let scl go" \in Ops /\ "await scl" \in Ops /\ "sample" \in Ops /\ "scl low" \in Ops
      /\ "acked" \in Ops /\ "received" \in Ops /\ \A b : I2cBus!Put(b) \in Ops
  BY DEF I2cBus!Put
<1> HIDE DEF Ops
<1>2. \A a, b, c, d \in Ops : <<a, b, c, d>> \in Seq(Ops)
  OBVIOUS
<1>3. \A a, b, c, d, e \in Ops : <<a, b, c, d, e>> \in Seq(Ops)
  OBVIOUS
<1>4. I2cBus!i2cReadBit \in Seq(Ops)
  BY <1>1, <1>3 DEF I2cBus!i2cReadBit
<1>5. ASSUME NEW b
      PROVE  I2cBus!i2cWriteBit(b) \in Seq(Ops)
  BY <1>1, <1>2 DEF I2cBus!i2cWriteBit
<1>6. ASSUME NEW s \in Seq(Ops), NEW op \in Ops
      PROVE  /\ Len(Append(s, op)) = Len(s) + 1 /\ Append(s, op)[Len(s) + 1] = op
             /\ \A i \in 1..Len(s) : Append(s, op)[i] = s[i]
  BY AppendProperties
<1>7. ASSUME NEW s \in Seq(Ops), NEW op \in Ops, Len(s) = 4
      PROVE  /\ Len(Append(s, op)) = 5 /\ Append(s, op)[1] = s[1] /\ Append(s, op)[2] = s[2]
             /\ Append(s, op)[3] = s[3] /\ Append(s, op)[4] = s[4] /\ Append(s, op)[5] = op
  <2>1. /\ Len(Append(s, op)) = Len(s) + 1 /\ Append(s, op)[Len(s) + 1] = op
        /\ \A i \in 1..Len(s) : Append(s, op)[i] = s[i]
    BY <1>6
  <2>2. Len(s) + 1 = 5 /\ {1, 2, 3, 4} \subseteq 1..Len(s)
    BY <1>7
  <2> QED BY <2>1, <2>2
<1>8. ASSUME NEW s \in Seq(Ops), NEW op \in Ops, Len(s) = 5
      PROVE  /\ Len(Append(s, op)) = 6 /\ Append(s, op)[1] = s[1] /\ Append(s, op)[2] = s[2]
             /\ Append(s, op)[3] = s[3] /\ Append(s, op)[4] = s[4] /\ Append(s, op)[5] = s[5]
             /\ Append(s, op)[6] = op
  <2>1. /\ Len(Append(s, op)) = Len(s) + 1 /\ Append(s, op)[Len(s) + 1] = op
        /\ \A i \in 1..Len(s) : Append(s, op)[i] = s[i]
    BY <1>6
  <2>2. Len(s) + 1 = 6 /\ {1, 2, 3, 4, 5} \subseteq 1..Len(s)
    BY <1>8
  <2> QED BY <2>1, <2>2
<1>9. LET s == Append(I2cBus!i2cReadBit, "acked")
      IN  /\ Len(s) = 6 /\ s[1] = "sda high" /\ s[2] = "let scl go"
          /\ s[3] = "await scl" /\ s[4] = "sample" /\ s[5] = "scl low" /\ s[6] = "acked"
  <2>1. Len(I2cBus!i2cReadBit) = 5
    BY BitStepsAre
  <2> QED BY <1>1, <1>4, <1>8, <2>1, BitStepsAre, Zenon
<1>10. ASSUME NEW b
      PROVE  LET s == Append(I2cBus!i2cWriteBit(b), "received")
             IN  /\ Len(s) = 5 /\ s[1] = I2cBus!Put(b) /\ s[2] = "let scl go"
                 /\ s[3] = "await scl" /\ s[4] = "scl low" /\ s[5] = "received"
  <2> DEFINE w == I2cBus!i2cWriteBit(b)
  <2>1. /\ Len(w) = 4 /\ w[1] = I2cBus!Put(b) /\ w[2] = "let scl go" /\ w[3] = "await scl"
        /\ w[4] = "scl low" /\ w \in Seq(Ops)
    BY <1>5, <1>10, BitStepsAre
  <2> HIDE DEF w
  <2>2. LET s == Append(w, "received")
        IN  /\ Len(s) = 5 /\ s[1] = I2cBus!Put(b) /\ s[2] = "let scl go"
            /\ s[3] = "await scl" /\ s[4] = "scl low" /\ s[5] = "received"
    BY <1>1, <1>7, <2>1
  <2> QED BY <2>2 DEF w
<1> QED BY <1>9, <1>10

LEMMA WriteStepsAre ==
  ASSUME call.name = "write", I2cAssumption
  PROVE  /\ call.bit \in 1..BITS =>
              I2cBus!Steps = I2cBus!i2cWriteBit(I2cBus!bitsOf(call.byte)[call.bit])
         /\ call.bit = BITS + 1 => I2cBus!Steps = Append(I2cBus!i2cReadBit, "acked")
  BY DEF I2cBus!Steps, I2cAssumption

LEMMA ReadStepsAre ==
  ASSUME call.name = "read", I2cAssumption
  PROVE  /\ call.bit \in 1..BITS => I2cBus!Steps = I2cBus!i2cReadBit
         /\ call.bit = BITS + 1 =>
              I2cBus!Steps = Append(I2cBus!i2cWriteBit(call.byte), "received")
  BY DEF I2cBus!Steps, I2cAssumption

\* What the program does at a step of a call, while no wait has timed out.
LEMMA StepIs ==
  ASSUME call # I2cBus!NoCall, ~internalTimeoutOccurred, InStep
  PROVE
  /\ UNCHANGED <<busTimeoutOccurred, internalTimeoutOccurred>>
  /\ I2cBus!Steps[call.at] = "sda high" =>
       /\ I2cBus!Wires(master \ {"SDA"}, holds)
       /\ I2cBus!Goes /\ UNCHANGED <<busStarted, read, transfer>>
  /\ I2cBus!Steps[call.at] = "sda low" =>
       /\ I2cBus!Wires(master \cup {"SDA"}, holds)
       /\ I2cBus!Goes /\ UNCHANGED <<busStarted, read, transfer>>
  /\ I2cBus!Steps[call.at] = "let scl go" =>
       /\ I2cBus!Wires(master \ {"SCL"}, holds)
       /\ I2cBus!Goes /\ UNCHANGED <<busStarted, read, transfer>>
  /\ I2cBus!Steps[call.at] = "scl low" =>
       /\ I2cBus!Wires(master \cup {"SCL"}, holds)
       /\ I2cBus!Goes /\ UNCHANGED <<busStarted, read, transfer>>
  /\ I2cBus!Steps[call.at] = "await scl" =>
       /\ "SCL" \notin holds
       /\ I2cBus!Goes /\ UNCHANGED <<master, holds, slave, busStarted, read, transfer>>
  /\ I2cBus!Steps[call.at] = "sample" =>
       /\ read' = Append(read, IF "SDA" \in master \cup holds THEN 0 ELSE 1)
       /\ I2cBus!Goes /\ UNCHANGED <<master, holds, slave, busStarted, transfer>>
  /\ I2cBus!Steps[call.at] = "started" =>
       /\ busStarted' = TRUE
       /\ I2cBus!Goes /\ UNCHANGED <<master, holds, slave, read, transfer>>
  /\ I2cBus!Steps[call.at] = "stopped" =>
       /\ busStarted' = FALSE
       /\ I2cBus!Goes /\ UNCHANGED <<master, holds, slave, read, transfer>>
  /\ I2cBus!Steps[call.at] = "acked" =>
       /\ transfer' = IF read[1] = 1 THEN [transfer EXCEPT !.mode = "stopped"] ELSE transfer
       /\ IF read[1] = 1 THEN call' = I2cBus!At("stop", 0) ELSE I2cBus!Goes
       /\ UNCHANGED <<master, holds, slave, read, busStarted>>
  /\ I2cBus!Steps[call.at] = "received" =>
       /\ transfer' = [transfer EXCEPT !.received = Append(@, I2cBus!byteOf(read)),
                                       !.mode = IF call.byte = 1 THEN "nacked" ELSE @]
       /\ I2cBus!Goes /\ UNCHANGED <<master, holds, slave, read, busStarted>>
<1> DEFINE op == I2cBus!Steps[call.at]
<1>1. \A o : I2cBus!Does(o) <=> op = o
  BY DEF I2cBus!Does
<1> HIDE DEF op
<1>2. CASE I2cBus!MasterPin
  BY <1>1, <1>2 DEF I2cBus!MasterPin, I2cBus!flagVars, op
<1>3. CASE I2cBus!Sample
  BY <1>1, <1>3 DEF I2cBus!Sample, I2cBus!flagVars, I2cBus!SdaOf, I2cBus!High, op
<1>4. CASE I2cBus!SclIsHigh
  BY <1>1, <1>4 DEF I2cBus!SclIsHigh, I2cBus!flagVars, op
<1>5. CASE I2cBus!Returns
  BY <1>1, <1>5 DEF I2cBus!Returns, op
<1> QED BY <1>2, <1>3, <1>4, <1>5 DEF InStep

-----------------------------------------------------------------------------
\* What the slave does when SCL rises and when it falls.

LEMMA BytesBits ==
  ASSUME I2cAssumption, NEW byte \in BusBytes
  PROVE  /\ I2cBus!bitsOf(byte) \in Seq({0, 1}) /\ Len(I2cBus!bitsOf(byte)) = BITS
         /\ \A i \in 1..BITS : I2cBus!bitsOf(byte)[i] \in {0, 1}
         /\ I2cBus!byteOf(I2cBus!bitsOf(byte)) = byte
<1>1. /\ I2cBus!bitsOf(byte) \in [1..BITS -> {0, 1}] /\ BITS \in Nat
      /\ I2cBus!byteOf(I2cBus!bitsOf(byte)) = byte
  BY DEF I2cAssumption, I2cBus!BytesAreBits
<1> QED BY <1>1

\* Bits that are those of a byte make the byte.
LEMMA BitsMakeByte ==
  ASSUME I2cAssumption, NEW byte \in BusBytes, NEW bits \in Seq({0, 1}), Len(bits) = BITS,
         \A i \in 1..BITS : bits[i] = I2cBus!bitsOf(byte)[i]
  PROVE  I2cBus!byteOf(bits) = byte
<1>1. bits = I2cBus!bitsOf(byte)
  BY BytesBits, SeqEqual
<1> QED BY <1>1, BytesBits

LEMMA SclRises ==
  ASSUME slave \in SlaveType, NEW sda \in {0, 1}
  PROVE  /\ I2cBus!TakesBit(sda) \in SlaveType
         /\ slave.mode \in {"address", "receive"} =>
              I2cBus!TakesBit(sda) = [slave EXCEPT !.bits = Append(slave.bits, sda)]
         /\ slave.mode = "acked" /\ sda = 1 => I2cBus!TakesBit(sda) = I2cBus!Idle
         /\ slave.mode = "acked" /\ sda = 0 => I2cBus!TakesBit(sda) = slave
         /\ slave.mode \in {"idle", "ack", "send"} => I2cBus!TakesBit(sda) = slave
         /\ I2cBus!TakesBit(sda).bits = <<>> =>
              I2cBus!TakesBit(sda) = slave \/ I2cBus!TakesBit(sda).mode # "address"
<1>1. Append(slave.bits, sda) \in Seq({0, 1}) \ {<<>>} /\ <<>> \in Seq({0, 1})
  BY AppendProperties DEF SlaveType
<1>2. CASE slave.mode \in {"address", "receive"}
  <2>1. I2cBus!TakesBit(sda) = [slave EXCEPT !.bits = Append(slave.bits, sda)]
    BY <1>2 DEF I2cBus!TakesBit, SlaveType
  <2>2. I2cBus!TakesBit(sda) \in SlaveType
    BY <1>1, <2>1 DEF SlaveType
  <2>3. I2cBus!TakesBit(sda).bits # <<>>
    BY <1>1, <2>1 DEF SlaveType
  <2> QED BY <1>2, <2>1, <2>2, <2>3
<1>3. CASE slave.mode = "acked"
  <2>1. I2cBus!Idle \in SlaveType /\ I2cBus!Idle.mode = "idle"
    BY <1>1 DEF I2cBus!Idle, SlaveType
  <2> QED BY <1>3, <2>1 DEF I2cBus!TakesBit
<1>4. CASE slave.mode \in {"idle", "ack", "send"}
  BY <1>4 DEF I2cBus!TakesBit
<1> QED BY <1>2, <1>3, <1>4 DEF SlaveType

LEMMA SlaveStays ==
  ASSUME slave \in SlaveType, NEW next \in I2cBus!SetsBit,
         \/ slave.mode = "idle"
         \/ slave.mode \in {"address", "receive"} /\ Len(slave.bits) # BITS
  PROVE  next = [state |-> slave, sda |-> 1]
  BY DEF I2cBus!SetsBit, I2cBus!NextBit, SlaveType

LEMMA SlaveHasByte ==
  ASSUME slave \in SlaveType, NEW next \in I2cBus!SetsBit,
         slave.mode \in {"address", "receive"} /\ Len(slave.bits) = BITS
  PROVE  LET got == Append(slave.got, I2cBus!byteOf(slave.bits))
         IN  \/ next = [state |-> [slave EXCEPT !.mode = "ack", !.bits = <<>>, !.got = got], sda |-> 0]
             \/ next = [state |-> [slave EXCEPT !.mode = "idle", !.bits = <<>>, !.got = got], sda |-> 1]
<1>1. next \in I2cBus!AfterByte
  BY DEF I2cBus!SetsBit
<1> QED BY <1>1 DEF I2cBus!AfterByte, I2cBus!NextBit, I2cBus!Idle, SlaveType

LEMMA SlaveReceives ==
  ASSUME slave \in SlaveType, NEW next \in I2cBus!SetsBit,
         slave.mode = "ack", ~I2cBus!IsRead(slave.got[1])
  PROVE  next = [state |-> [slave EXCEPT !.mode = "receive"], sda |-> 1]
  BY DEF I2cBus!SetsBit, I2cBus!NextBit, SlaveType

LEMMA SlaveShowsBit ==
  ASSUME slave \in SlaveType, NEW next \in I2cBus!SetsBit, slave.mode = "send"
  PROVE  /\ slave.bits = <<>> => next = [state |-> [slave EXCEPT !.mode = "acked"], sda |-> 1]
         /\ slave.bits # <<>> =>
              next = [state |-> [slave EXCEPT !.bits = Tail(slave.bits)], sda |-> slave.bits[1]]
  BY DEF I2cBus!SetsBit, I2cBus!NextBit, SlaveType

LEMMA NextByteIs ==
  ASSUME slave \in SlaveType, NEW next \in I2cBus!SetsBit, Len(slave.sent) # MaxBytes,
         \/ slave.mode = "ack" /\ I2cBus!IsRead(slave.got[1])
         \/ slave.mode = "acked"
  PROVE  \E byte \in BusBytes :
           next = [state |-> [slave EXCEPT !.mode = "send", !.bits = Tail(I2cBus!bitsOf(byte)),
                                           !.sent = Append(slave.sent, byte)],
                   sda |-> I2cBus!bitsOf(byte)[1]]
<1>1. next \in I2cBus!Sends(slave)
  BY DEF I2cBus!SetsBit
<1> QED BY <1>1 DEF I2cBus!Sends, I2cBus!NextBit

-----------------------------------------------------------------------------
\* The calls go on: each step leads to the place of the next.

LEMMA GoesIs ==
  ASSUME call \in CallType, I2cBus!Goes
  PROVE  /\ call.at # Len(I2cBus!Steps) => call' = [call EXCEPT !.at = call.at + 1]
         /\ call.at = Len(I2cBus!Steps) =>
              IF call.name \in {"write", "read"} /\ call.bit <= BITS
              THEN call' = [call EXCEPT !.bit = call.bit + 1, !.at = 1]
              ELSE call' = I2cBus!NoCall
  BY DEF I2cBus!Goes, I2cBus!IsLast, I2cBus!HasBits, CallType

\* The call is at its next step, and what has changed has kept its type.
LEMMA GoesOn ==
  ASSUME I2cTyped, ~internalTimeoutOccurred, UNCHANGED internalTimeoutOccurred,
         call' = [call EXCEPT !.at = call.at + 1],
         slave' \in SlaveType, transfer' \in TransferType, read' \in Seq({0, 1}),
         \/ call.name = "start" /\ call.bit = 1 /\ Starting'
         \/ call.name = "stop" /\ call.bit = 1 /\ Stopping'
         \/ call.name = "write" /\ Writing'
         \/ call.name = "read" /\ Reading'
  PROVE  InTime'
<1>1. /\ call' \in CallType /\ call'.name = call.name /\ call'.bit = call.bit
      /\ call'.at = call.at + 1
  BY DEF I2cTyped, CallType
<1> QED BY <1>1 DEF InTime, I2cTyped

LEMMA StartGoesOn ==
  ASSUME I2cAssumption, WiresTyped, InTime, call.name = "start", call.bit = 1, Starting, InStep
  PROVE  InTime' /\ WiresTyped' /\ NoFalseStep
<1>1. /\ I2cTyped /\ ~internalTimeoutOccurred /\ call # I2cBus!NoCall
      /\ call.at \in Nat /\ call.at >= 1 /\ StartAt \in 1..6 /\ busStarted \in BOOLEAN
  BY DEF InTime, Starting, StartAt, I2cTyped, CallType, I2cBus!NoCall, WiresTyped
<1>2. StartAt = IF busStarted THEN call.at ELSE call.at + 1
  BY DEF StartAt
<1>3. ASSUME call.at # Len(I2cBus!Steps), I2cBus!Goes, UNCHANGED busStarted
      PROVE  call' = [call EXCEPT !.at = call.at + 1] /\ StartAt' = StartAt + 1 /\ call'.at >= 1
  <2>1. call' = [call EXCEPT !.at = call.at + 1]
    BY <1>1, <1>3, GoesIs DEF I2cTyped
  <2>2. call'.at = call.at + 1
    BY <1>1, <2>1 DEF I2cTyped, CallType
  <2> QED BY <1>1, <1>3, <2>1, <2>2 DEF StartAt
<1>4. CASE StartAt = 1
  <2>a. busStarted
    BY <1>1, <1>2, <1>4
  <2>b. "SCL" \in master /\ "SDA" \notin holds
    BY <1>4, <2>a DEF Starting
  <2>1. /\ busStarted /\ "SCL" \in master /\ I2cBus!Steps[call.at] = "sda high"
        /\ call.at # Len(I2cBus!Steps)
    BY <1>1, <1>4, <2>a, <2>b, StartStepsAre
  <2>2. /\ I2cBus!Wires(master \ {"SDA"}, holds) /\ I2cBus!Goes
        /\ UNCHANGED <<busStarted, read, transfer, internalTimeoutOccurred, busTimeoutOccurred>>
    BY <1>1, <2>1, StepIs
  <2>3. master' = master \ {"SDA"} /\ slave' = slave /\ holds' = holds
    BY <2>1, <2>2, SclStaysLow
  <2>4. call' = [call EXCEPT !.at = call.at + 1] /\ StartAt' = 2 /\ call'.at >= 1
    <3>1. busStarted' = busStarted /\ I2cBus!Goes /\ call.at # Len(I2cBus!Steps)
      BY <2>1, <2>2
    <3>2. call' = [call EXCEPT !.at = call.at + 1] /\ StartAt' = StartAt + 1 /\ call'.at >= 1
      BY <1>3, <3>1
    <3> QED BY <1>4, <3>2
  <2>5. Starting'
    <3>1. /\ transfer = [mode |-> "address", sent |-> <<>>, received |-> <<>>]
          /\ "SDA" \notin holds /\ slave.mode \in {"idle", "receive"}
      BY <1>4 DEF Starting
    <3>2. "SCL" \in master' /\ "SDA" \notin master' /\ busStarted'
      BY <2>1, <2>2, <2>3
    <3>3. UNCHANGED <<transfer, holds, slave>>
      BY <2>2, <2>3
    <3> QED BY <2>4, <3>1, <3>2, <3>3 DEF Starting
  <2>6. InTime'
    BY <1>1, <2>2, <2>3, <2>4, <2>5, GoesOn DEF I2cTyped
  <2> QED BY <2>2, <2>3, <2>6 DEF WiresTyped, NoFalseStep
<1>5. CASE StartAt = 2
  <2>1. I2cBus!Steps[call.at] = "let scl go" /\ call.at # Len(I2cBus!Steps)
    BY <1>1, <1>5, StartStepsAre
  <2>2. /\ I2cBus!Wires(master \ {"SCL"}, holds) /\ I2cBus!Goes
        /\ UNCHANGED <<busStarted, read, transfer, internalTimeoutOccurred, busTimeoutOccurred>>
    BY <1>1, <2>1, StepIs
  <2>3. call' = [call EXCEPT !.at = call.at + 1] /\ StartAt' = 3 /\ call'.at >= 1
    <3>1. busStarted' = busStarted /\ I2cBus!Goes /\ call.at # Len(I2cBus!Steps)
      BY <2>1, <2>2
    <3>2. call' = [call EXCEPT !.at = call.at + 1] /\ StartAt' = StartAt + 1 /\ call'.at >= 1
      BY <1>3, <3>1
    <3> QED BY <1>5, <3>2
  <2>4. slave.mode \in {"idle", "receive"} /\ "SDA" \notin master /\ "SDA" \notin holds
    BY <1>5 DEF Starting
  <2>5. /\ "SCL" \notin master' /\ "SDA" \notin master' /\ holds' = holds
        /\ slave' = slave \/ slave' = I2cBus!TakesBit(1)
    <3>1. CASE busStarted
      <4>1. "SCL" \in master
        BY <1>5, <3>1 DEF Starting
      <4> QED BY <2>2, <2>4, <4>1, MasterLetsSclGo
    <3>2. CASE ~busStarted
      <4>1. master = {} /\ holds = {}
        BY <1>5, <3>2 DEF Starting
      <4> QED BY <2>2, <2>4, <4>1, SclStaysFree
    <3> QED BY <3>1, <3>2
  <2>6. slave' \in SlaveType /\ slave'.mode = slave.mode
    BY <1>1, <2>4, <2>5, SclRises DEF I2cTyped, SlaveType
  <2>7. Starting'
    BY <1>5, <2>2, <2>3, <2>4, <2>5, <2>6 DEF Starting
  <2>8. InTime'
    BY <1>1, <2>2, <2>3, <2>6, <2>7, GoesOn DEF I2cTyped
  <2>9. master' \subseteq {"SCL", "SDA"}
    BY <2>2 DEF I2cBus!Wires, WiresTyped
  <2> QED BY <2>2, <2>4, <2>5, <2>6, <2>8, <2>9 DEF WiresTyped, NoFalseStep
<1>6. CASE StartAt = 3
  <2>1. I2cBus!Steps[call.at] = "await scl" /\ call.at # Len(I2cBus!Steps)
    BY <1>1, <1>6, StartStepsAre
  <2>2. /\ "SCL" \notin holds /\ I2cBus!Goes
        /\ UNCHANGED <<master, holds, slave, busStarted, read, transfer, internalTimeoutOccurred,
                       busTimeoutOccurred>>
    BY <1>1, <2>1, StepIs
  <2>3. call' = [call EXCEPT !.at = call.at + 1] /\ StartAt' = 4 /\ call'.at >= 1
    <3>1. busStarted' = busStarted /\ I2cBus!Goes /\ call.at # Len(I2cBus!Steps)
      BY <2>1, <2>2
    <3>2. call' = [call EXCEPT !.at = call.at + 1] /\ StartAt' = StartAt + 1 /\ call'.at >= 1
      BY <1>3, <3>1
    <3> QED BY <1>6, <3>2
  <2>4. Starting'
    BY <1>6, <2>2, <2>3 DEF Starting
  <2>5. InTime'
    BY <1>1, <2>2, <2>3, <2>4, GoesOn DEF I2cTyped
  <2> QED BY <2>2, <2>5 DEF WiresTyped, NoFalseStep
<1>7. CASE StartAt = 4
  <2>1. I2cBus!Steps[call.at] = "sda low" /\ call.at # Len(I2cBus!Steps)
    BY <1>1, <1>7, StartStepsAre
  <2>2. /\ I2cBus!Wires(master \cup {"SDA"}, holds) /\ I2cBus!Goes
        /\ UNCHANGED <<busStarted, read, transfer, internalTimeoutOccurred, busTimeoutOccurred>>
    BY <1>1, <2>1, StepIs
  <2>3. call' = [call EXCEPT !.at = call.at + 1] /\ StartAt' = 5 /\ call'.at >= 1
    <3>1. busStarted' = busStarted /\ I2cBus!Goes /\ call.at # Len(I2cBus!Steps)
      BY <2>1, <2>2
    <3>2. call' = [call EXCEPT !.at = call.at + 1] /\ StartAt' = StartAt + 1 /\ call'.at >= 1
      BY <1>3, <3>1
    <3> QED BY <1>7, <3>2
  <2>4. SclIsFree /\ "SDA" \notin master /\ "SDA" \notin holds
    BY <1>7 DEF Starting, SclIsFree
  <2>5. master' = master \cup {"SDA"} /\ holds' = holds /\ Fresh'
    BY <2>2, <2>4, StartIsSeen
  <2>6. slave' \in SlaveType
    BY <2>5 DEF Fresh, SlaveType
  <2>7. Starting'
    BY <1>7, <2>2, <2>3, <2>4, <2>5 DEF Starting, SclIsFree
  <2>8. InTime'
    BY <1>1, <2>2, <2>3, <2>6, <2>7, GoesOn DEF I2cTyped
  <2>9. slave'.mode = "address"
    BY <2>5 DEF Fresh
  <2> QED BY <2>2, <2>5, <2>8, <2>9 DEF WiresTyped, NoFalseStep
<1>8. CASE StartAt = 5
  <2>1. I2cBus!Steps[call.at] = "scl low" /\ call.at # Len(I2cBus!Steps)
    BY <1>1, <1>8, StartStepsAre
  <2>2. /\ I2cBus!Wires(master \cup {"SCL"}, holds) /\ I2cBus!Goes
        /\ UNCHANGED <<busStarted, read, transfer, internalTimeoutOccurred, busTimeoutOccurred>>
    BY <1>1, <2>1, StepIs
  <2>3. call' = [call EXCEPT !.at = call.at + 1] /\ StartAt' = 6 /\ call'.at >= 1
    <3>1. busStarted' = busStarted /\ I2cBus!Goes /\ call.at # Len(I2cBus!Steps)
      BY <2>1, <2>2
    <3>2. call' = [call EXCEPT !.at = call.at + 1] /\ StartAt' = StartAt + 1 /\ call'.at >= 1
      BY <1>3, <3>1
    <3> QED BY <1>8, <3>2
  <2>4. SclIsFree /\ Fresh
    BY <1>8 DEF Starting, SclIsFree
  <2>5. PICK next \in I2cBus!SetsBit :
          /\ master' = master \cup {"SCL"} /\ holds' \subseteq {"SCL", "SDA"}
          /\ slave' = next.state /\ ("SDA" \in holds' <=> next.sda = 0)
    BY <2>2, <2>4, SclFalls
  <2>6. slave.mode = "address" /\ Len(slave.bits) # BITS /\ slave \in SlaveType
    BY <1>1, <2>4 DEF Fresh, I2cAssumption, I2cTyped
  <2>7. next = [state |-> slave, sda |-> 1]
    BY <2>6, SlaveStays
  <2>8. slave' = slave /\ "SDA" \notin holds'
    BY <2>5, <2>7
  <2>9. Starting'
    BY <1>8, <2>2, <2>3, <2>4, <2>5, <2>8 DEF Starting, Fresh
  <2>10. InTime'
    BY <1>1, <2>2, <2>3, <2>8, <2>9, GoesOn DEF I2cTyped
  <2> QED BY <2>2, <2>5, <2>8, <2>10 DEF WiresTyped, NoFalseStep
<1>9. CASE StartAt = 6
  <2>1. I2cBus!Steps[call.at] = "started" /\ call.at = Len(I2cBus!Steps)
    BY <1>1, <1>9, StartStepsAre
  <2>2. /\ busStarted' = TRUE /\ I2cBus!Goes
        /\ UNCHANGED <<master, holds, slave, read, transfer, internalTimeoutOccurred,
                       busTimeoutOccurred>>
    BY <1>1, <2>1, StepIs
  <2>3. call' = I2cBus!NoCall
    BY <1>1, <2>1, <2>2, GoesIs DEF I2cTyped
  <2>4. Resting'
    BY <1>9, <2>2 DEF Resting, Agrees, ModeOK, Starting, Fresh
  <2>5. InTime'
    BY <1>1, <2>2, <2>3, <2>4 DEF InTime, I2cTyped, CallType, I2cBus!NoCall
  <2> QED BY <2>2, <2>5 DEF WiresTyped, NoFalseStep
<1> QED BY <1>1, <1>4, <1>5, <1>6, <1>7, <1>8, <1>9

LEMMA StopGoesOn ==
  ASSUME I2cAssumption, WiresTyped, InTime, call.name = "stop", call.bit = 1, Stopping, InStep
  PROVE  InTime' /\ WiresTyped' /\ NoFalseStep
<1>1. /\ I2cTyped /\ ~internalTimeoutOccurred /\ call # I2cBus!NoCall /\ call.at \in 1..5
      /\ slave \in SlaveType /\ transfer \in TransferType /\ read \in Seq({0, 1})
  BY DEF InTime, Stopping, I2cTyped, I2cBus!NoCall
<1>2. /\ transfer.mode \in {"none", "stopped"} /\ "SDA" \notin holds /\ busStarted
      /\ transfer.mode = "stopped" => slave.mode = "idle" /\ Agrees
      /\ slave.mode \in {"idle", "receive", "address"}
  BY DEF Stopping
<1>3. ASSUME call.at # 5, I2cBus!Goes
      PROVE  call' = [call EXCEPT !.at = call.at + 1] /\ call'.at = call.at + 1
  <2>1. call' = [call EXCEPT !.at = call.at + 1]
    BY <1>1, <1>3, GoesIs, StopStepsAre DEF I2cTyped
  <2> QED BY <1>1, <2>1 DEF I2cTyped, CallType
<1>4. CASE call.at = 1
  <2>1. "SCL" \in master
    BY <1>4 DEF Stopping, Clocked
  <2>2. /\ I2cBus!Wires(master \cup {"SDA"}, holds) /\ I2cBus!Goes
        /\ UNCHANGED <<busStarted, read, transfer, internalTimeoutOccurred, busTimeoutOccurred>>
    BY <1>1, <1>4, StepIs, StopStepsAre
  <2>3. master' = master \cup {"SDA"} /\ slave' = slave /\ holds' = holds
    BY <2>1, <2>2, SclStaysLow
  <2>4. call' = [call EXCEPT !.at = call.at + 1] /\ call'.at = 2
    BY <1>3, <1>4, <2>2
  <2>5. Agrees => Agrees'
    BY <2>2, <2>3 DEF Agrees, Sending
  <2>6. Stopping'
    BY <1>2, <2>1, <2>2, <2>3, <2>4, <2>5 DEF Stopping, Clocked
  <2>7. InTime'
    BY <1>1, <2>2, <2>3, <2>4, <2>6, GoesOn
  <2> QED BY <2>2, <2>3, <2>7 DEF WiresTyped, NoFalseStep
<1>5. CASE call.at = 2
  <2>1. "SCL" \in master /\ "SDA" \in master
    BY <1>5 DEF Stopping, Clocked
  <2>2. /\ I2cBus!Wires(master \ {"SCL"}, holds) /\ I2cBus!Goes
        /\ UNCHANGED <<busStarted, read, transfer, internalTimeoutOccurred, busTimeoutOccurred>>
    BY <1>1, <1>5, StepIs, StopStepsAre
  <2>3. /\ master' = master \ {"SCL"} /\ holds' = holds
        /\ slave' = slave \/ slave' = I2cBus!TakesBit(0)
    BY <2>1, <2>2, MasterLetsSclGo
  <2>4. call' = [call EXCEPT !.at = call.at + 1] /\ call'.at = 3
    BY <1>3, <1>5, <2>2
  <2>5. /\ slave' \in SlaveType /\ slave'.mode = slave.mode
        /\ slave.mode = "idle" => slave' = slave
        /\ slave'.bits = <<>> => slave' = slave \/ slave'.mode # "address"
    BY <1>1, <1>2, <2>3, SclRises DEF SlaveType
  <2>6. slave.mode = "idle" /\ Agrees => Agrees'
    BY <2>2, <2>3, <2>5 DEF Agrees, Sending
  <2>7. Stopping'
    BY <1>2, <2>1, <2>2, <2>3, <2>4, <2>5, <2>6 DEF Stopping, Clocked
  <2>8. InTime'
    BY <1>1, <2>2, <2>4, <2>5, <2>7, GoesOn
  <2> QED BY <1>2, <2>2, <2>3, <2>5, <2>8 DEF WiresTyped, NoFalseStep
<1>6. CASE call.at = 3
  <2>1. "SCL" \notin master /\ "SDA" \in master
    BY <1>6 DEF Stopping, Clocked
  <2>2. /\ "SCL" \notin holds /\ I2cBus!Goes
        /\ UNCHANGED <<master, holds, slave, busStarted, read, transfer, internalTimeoutOccurred,
                       busTimeoutOccurred>>
    BY <1>1, <1>6, StepIs, StopStepsAre
  <2>3. call' = [call EXCEPT !.at = call.at + 1] /\ call'.at = 4
    BY <1>3, <1>6, <2>2
  <2>4. Agrees => Agrees'
    BY <2>2 DEF Agrees, Sending
  <2>5. Stopping'
    BY <1>2, <2>1, <2>2, <2>3, <2>4 DEF Stopping, Clocked
  <2>6. InTime'
    BY <1>1, <2>2, <2>3, <2>5, GoesOn
  <2> QED BY <2>2, <2>6 DEF WiresTyped, NoFalseStep
<1>7. CASE call.at = 4
  <2>1. SclIsFree /\ "SDA" \in master
    BY <1>7 DEF Stopping, Clocked, SclIsFree
  <2>2. /\ I2cBus!Wires(master \ {"SDA"}, holds) /\ I2cBus!Goes
        /\ UNCHANGED <<busStarted, read, transfer, internalTimeoutOccurred, busTimeoutOccurred>>
    BY <1>1, <1>7, StepIs, StopStepsAre
  <2>3. master' = master \ {"SDA"} /\ holds' = holds /\ slave' = I2cBus!Idle
    BY <1>2, <2>1, <2>2, StopIsSeen
  <2>4. call' = [call EXCEPT !.at = call.at + 1] /\ call'.at = 5
    BY <1>3, <1>7, <2>2
  <2>5. /\ slave' \in SlaveType /\ slave'.mode = "idle"
        /\ slave'.got = slave.got /\ slave'.sent = slave.sent
    <3>1. slave' = [slave EXCEPT !.mode = "idle", !.bits = <<>>] /\ <<>> \in Seq({0, 1})
      BY <2>3 DEF I2cBus!Idle
    <3> QED BY <1>1, <3>1 DEF SlaveType
  <2>6. transfer.mode = "stopped" => Agrees'
    BY <1>2, <2>2, <2>3, <2>5 DEF Agrees
  <2>7. Stopping'
    BY <1>2, <2>1, <2>2, <2>3, <2>4, <2>5, <2>6 DEF Stopping, Clocked, SclIsFree
  <2>8. InTime'
    BY <1>1, <2>2, <2>4, <2>5, <2>7, GoesOn
  <2> QED BY <2>2, <2>3, <2>5, <2>8 DEF WiresTyped, NoFalseStep
<1>8. CASE call.at = 5
  <2>1. master = {} /\ holds = {} /\ slave.mode = "idle"
    BY <1>2, <1>8 DEF Stopping, Clocked, WiresTyped
  <2>2. /\ busStarted' = FALSE /\ I2cBus!Goes
        /\ UNCHANGED <<master, holds, slave, read, transfer, internalTimeoutOccurred,
                       busTimeoutOccurred>>
    BY <1>1, <1>8, StepIs, StopStepsAre
  <2>3. call' = I2cBus!NoCall
    BY <1>1, <1>8, <2>2, GoesIs, StopStepsAre DEF I2cTyped
  <2>4. Agrees'
    BY <1>2, <2>1, <2>2 DEF Agrees
  <2>5. Resting'
    BY <1>2, <2>1, <2>2, <2>4 DEF Resting, ModeOK
  <2>6. InTime'
    BY <1>1, <2>2, <2>3, <2>5 DEF InTime, I2cTyped, CallType, I2cBus!NoCall
  <2> QED BY <2>2, <2>6 DEF WiresTyped, NoFalseStep
<1> QED BY <1>1, <1>4, <1>5, <1>6, <1>7, <1>8

\* What holds of a call of i2cWriteByte at each of its steps.
WritingKnown ==
  /\ call.byte \in BusBytes
  /\ busStarted
  /\ transfer.sent # <<>> /\ ModeIsAsAddressed
  /\ transfer.received = <<>>

\* The slave takes the next bit of the byte.
LEMMA BitIsTaken ==
  ASSUME slave \in SlaveType, NEW n \in Nat \ {0}, Taking(n - 1),
         NEW b \in {0, 1}, b = I2cBus!bitsOf(call.byte)[n], slave' = I2cBus!TakesBit(b),
         call'.byte = call.byte, transfer' = transfer, "SDA" \notin holds'
  PROVE  Taking(n)'
<1>1. slave' = [slave EXCEPT !.bits = Append(slave.bits, b)]
  BY SclRises DEF Taking
<1>2. /\ slave.bits \in Seq({0, 1}) /\ Len(slave.bits) = n - 1
      /\ \A i \in 1 .. n - 1 : slave.bits[i] = I2cBus!bitsOf(call.byte)[i]
  BY DEF Taking, SlaveType
<1>3. /\ slave'.bits = Append(slave.bits, b) /\ slave'.got = slave.got
      /\ slave'.mode = slave.mode
  BY <1>1 DEF SlaveType
<1>4. /\ Len(slave'.bits) = n /\ slave'.bits[n] = b
      /\ \A i \in 1 .. n - 1 : slave'.bits[i] = slave.bits[i]
  BY <1>2, <1>3, AppendProperties
<1>5. \A i \in 1 .. n : slave'.bits[i] = I2cBus!bitsOf(call.byte)[i]
  BY <1>2, <1>4
<1> QED BY <1>3, <1>4, <1>5 DEF Taking

LEMMA WriteBitGoesOn ==
  ASSUME I2cAssumption, WiresTyped, InTime, call.name = "write", NEW n \in 1..BITS, call.bit = n,
         Writing, InStep
  PROVE  InTime' /\ WiresTyped' /\ NoFalseStep
<1>1. /\ I2cTyped /\ ~internalTimeoutOccurred /\ call # I2cBus!NoCall /\ BITS \in Nat \ {0}
      /\ slave \in SlaveType /\ transfer \in TransferType /\ call \in CallType
  BY DEF InTime, I2cTyped, I2cBus!NoCall, I2cAssumption
<1>2. /\ WritingKnown /\ slave.sent = <<>> /\ read = <<>> /\ call.at \in 1..4 /\ Clocked
      /\ TakingBit(n)
      /\ call.at >= 2 => ("SDA" \in master <=> I2cBus!bitsOf(call.byte)[n] = 0)
  BY <1>1 DEF Writing, WritingKnown
<1>3. PICK b \in {0, 1} : b = I2cBus!bitsOf(call.byte)[n]
  BY <1>2, BytesBits DEF WritingKnown
<1>4. call.at >= 2 => ("SDA" \in master <=> b = 0)
  BY <1>2, <1>3
<1>5. /\ "SDA" \notin holds /\ slave.mode \in {"address", "receive"}
      /\ transfer.sent = Append(slave.got, call.byte)
  BY <1>2 DEF TakingBit, Taking
<1>6. /\ Len(I2cBus!Steps) = 4 /\ I2cBus!Steps[1] = I2cBus!Put(b)
      /\ I2cBus!Steps[2] = "let scl go" /\ I2cBus!Steps[3] = "await scl"
      /\ I2cBus!Steps[4] = "scl low"
  BY <1>3, WriteStepsAre, BitStepsAre
<1>7. ASSUME call.at # 4, I2cBus!Goes
      PROVE  /\ call' = [call EXCEPT !.at = call.at + 1]
             /\ call'.at = call.at + 1 /\ call'.bit = n /\ call'.byte = call.byte
  <2>1. call' = [call EXCEPT !.at = call.at + 1]
    BY <1>1, <1>6, <1>7, GoesIs
  <2> QED BY <1>1, <2>1 DEF CallType
\* The bit goes on, when the slave has what it should.
<1>8. ASSUME call' = [call EXCEPT !.at = call.at + 1], call'.at = call.at + 1, call'.bit = n,
             call'.byte = call.byte, call.at \in 1..3,
             UNCHANGED <<busStarted, read, transfer, internalTimeoutOccurred>>,
             Clocked', TakingBit(n)',
             "SDA" \in master' <=> b = 0,
             slave' \in SlaveType, slave'.sent = slave.sent
      PROVE  InTime'
  <2>1. WritingKnown'
    BY <1>2, <1>8 DEF WritingKnown, ModeIsAsAddressed
  <2>2. b = I2cBus!bitsOf(call'.byte)[call'.bit]
    BY <1>3, <1>8
  <2>3. /\ call'.bit \in 1..BITS /\ call'.at \in 1..4 /\ read' = <<>>
        /\ TakingBit(call.bit)'
    <3>1. TakingBit(n)' => TakingBit(call.bit)'
      BY <1>8 DEF TakingBit, Taking
    <3> QED BY <1>2, <1>8, <3>1
  <2>4. Writing'
    BY <1>1, <1>2, <1>8, <2>1, <2>2, <2>3 DEF Writing, WritingKnown
  <2> QED BY <1>1, <1>8, <2>4, GoesOn DEF I2cTyped
<1>9. CASE call.at = 1
  <2>1. "SCL" \in master
    BY <1>2, <1>9 DEF Clocked
  <2>2. /\ I2cBus!Goes
        /\ UNCHANGED <<busStarted, read, transfer, internalTimeoutOccurred, busTimeoutOccurred>>
        /\ IF b = 1 THEN I2cBus!Wires(master \ {"SDA"}, holds)
           ELSE I2cBus!Wires(master \cup {"SDA"}, holds)
    BY <1>1, <1>3, <1>6, <1>9, StepIs, PutIs
  <2>3. /\ slave' = slave /\ holds' = holds /\ "SCL" \in master'
        /\ master' = IF b = 1 THEN master \ {"SDA"} ELSE master \cup {"SDA"}
    BY <1>3, <2>1, <2>2, SclStaysLow
  <2>4. /\ call' = [call EXCEPT !.at = call.at + 1]
        /\ call'.at = 2 /\ call'.bit = n /\ call'.byte = call.byte
    BY <1>7, <1>9, <2>2
  <2>5. Clocked'
    BY <2>3, <2>4 DEF Clocked
  <2>6. TakingBit(n)'
    BY <1>2, <2>1, <2>2, <2>3, <2>4 DEF TakingBit, Taking, SclIsFree
  <2>7. InTime'
    BY <1>1, <1>3, <1>8, <1>9, <2>2, <2>3, <2>4, <2>5, <2>6
  <2> QED BY <2>2, <2>3, <2>7 DEF WiresTyped, NoFalseStep
<1>10. CASE call.at = 2
  <2>1. "SCL" \in master /\ ("SDA" \in master <=> b = 0)
    BY <1>2, <1>4, <1>10 DEF Clocked
  <2>2. /\ I2cBus!Wires(master \ {"SCL"}, holds) /\ I2cBus!Goes
        /\ UNCHANGED <<busStarted, read, transfer, internalTimeoutOccurred, busTimeoutOccurred>>
    BY <1>1, <1>6, <1>10, StepIs
  <2>3. /\ master' = master \ {"SCL"} /\ holds' = holds
        /\ "SCL" \in holds => slave' = slave
        /\ "SCL" \notin holds => slave' = I2cBus!TakesBit(b)
    BY <1>3, <1>5, <2>1, <2>2, MasterLetsSclGo
  <2>4. /\ call' = [call EXCEPT !.at = call.at + 1]
        /\ call'.at = 3 /\ call'.bit = n /\ call'.byte = call.byte
    BY <1>7, <1>10, <2>2
  <2>5. Clocked'
    BY <2>3, <2>4 DEF Clocked
  <2>6. /\ slave' \in SlaveType /\ slave'.sent = slave.sent /\ slave'.mode = slave.mode
        /\ slave'.bits = <<>> => slave' = slave \/ slave'.mode # "address"
    BY <1>1, <1>3, <1>5, <2>3, SclRises DEF SlaveType
  <2>7. TakingBit(n)'
    <3>1. Taking(n - 1)
      BY <1>2, <2>1 DEF TakingBit, SclIsFree
    <3>2. CASE "SCL" \in holds
      BY <2>2, <2>3, <2>4, <3>1, <3>2 DEF TakingBit, Taking, SclIsFree
    <3>3. CASE "SCL" \notin holds
      <4>1. Taking(n)'
        BY <1>1, <1>2, <1>3, <1>5, <2>2, <2>3, <2>4, <3>1, <3>3, BitIsTaken DEF WritingKnown
      <4>2. SclIsFree'
        BY <2>3, <3>3 DEF SclIsFree
      <4> QED BY <4>1, <4>2 DEF TakingBit
    <3> QED BY <3>2, <3>3
  <2>8. InTime'
    BY <1>1, <1>3, <1>8, <1>10, <2>1, <2>2, <2>3, <2>4, <2>5, <2>6, <2>7
  <2> QED BY <1>5, <2>2, <2>3, <2>6, <2>8 DEF WiresTyped, NoFalseStep
<1>11. CASE call.at = 3
  <2>1. "SCL" \notin master /\ ("SDA" \in master <=> b = 0)
    BY <1>2, <1>4, <1>11 DEF Clocked
  <2>2. /\ "SCL" \notin holds /\ I2cBus!Goes
        /\ UNCHANGED <<master, holds, slave, busStarted, read, transfer, internalTimeoutOccurred,
                       busTimeoutOccurred>>
    BY <1>1, <1>6, <1>11, StepIs
  <2>3. /\ call' = [call EXCEPT !.at = call.at + 1]
        /\ call'.at = 4 /\ call'.bit = n /\ call'.byte = call.byte
    BY <1>7, <1>11, <2>2
  <2>4. Clocked'
    BY <2>1, <2>2, <2>3 DEF Clocked
  <2>5. TakingBit(n)'
    BY <1>2, <2>2, <2>3 DEF TakingBit, Taking, SclIsFree
  <2>6. InTime'
    BY <1>1, <1>3, <1>8, <1>11, <2>1, <2>2, <2>3, <2>4, <2>5
  <2> QED BY <2>2, <2>6 DEF WiresTyped, NoFalseStep
<1>12. CASE call.at = 4
  <2>1. SclIsFree /\ Taking(n)
    BY <1>2, <1>12 DEF Clocked, TakingBit, SclIsFree
  <2>2. /\ I2cBus!Wires(master \cup {"SCL"}, holds) /\ I2cBus!Goes
        /\ UNCHANGED <<busStarted, read, transfer, internalTimeoutOccurred, busTimeoutOccurred>>
    BY <1>1, <1>6, <1>12, StepIs
  <2>3. PICK next \in I2cBus!SetsBit :
          /\ master' = master \cup {"SCL"} /\ holds' \subseteq {"SCL", "SDA"}
          /\ slave' = next.state /\ ("SDA" \in holds' <=> next.sda = 0)
    BY <2>1, <2>2, SclFalls
  <2>4. call' = [call EXCEPT !.bit = n + 1, !.at = 1]
    <3>1. call.bit <= BITS
      BY <1>1
    <3>2. call.at = Len(I2cBus!Steps) /\ call.name \in {"write", "read"}
      BY <1>6, <1>12
    <3>3. call' = [call EXCEPT !.bit = call.bit + 1, !.at = 1]
      BY <1>1, <2>2, <3>1, <3>2, GoesIs
    <3> QED BY <3>3
  <2>5. /\ call' \in CallType /\ call'.name = "write" /\ call'.byte = call.byte
        /\ call'.bit = n + 1 /\ call'.at = 1
    <3>1. n + 1 \in Nat
      BY <1>1
    <3> QED BY <1>1, <2>4, <3>1 DEF CallType
  <2>6. Clocked' /\ ~SclIsFree'
    BY <2>3, <2>5 DEF Clocked, SclIsFree
  <2>7. WritingKnown'
    BY <1>2, <2>2, <2>5 DEF WritingKnown, ModeIsAsAddressed
  <2>8. Len(slave.bits) = n /\ \A i \in 1..n : slave.bits[i] = I2cBus!bitsOf(call.byte)[i]
    BY <2>1 DEF Taking
  <2>9. Writing' /\ slave' \in SlaveType /\ (slave' = slave \/ slave'.mode # "address")
    <3>1. CASE n # BITS
      <4>1. next = [state |-> slave, sda |-> 1]
        BY <1>1, <1>5, <2>8, <3>1, SlaveStays
      <4>2. slave' = slave /\ "SDA" \notin holds'
        BY <2>3, <4>1
      <4>3. Taking(n)'
        BY <2>1, <2>2, <2>5, <4>2 DEF Taking
      <4>4. call'.bit - 1 = n
        BY <2>5
      <4>5. TakingBit(call.bit)'
        BY <2>6, <4>3, <4>4 DEF TakingBit, Taking
      <4>6. /\ call'.bit \in 1..BITS /\ call'.at \in 1..4 /\ ~(call'.at >= 2)
            /\ read' = <<>> /\ slave'.sent = <<>>
        BY <1>1, <1>2, <1>3, <2>2, <2>5, <3>1, <4>2
      <4>7. Writing'
        BY <2>6, <2>7, <4>5, <4>6 DEF Writing, WritingKnown
      <4> QED BY <1>1, <4>2, <4>7
    <3>2. CASE n = BITS
      <4>1. /\ slave.bits \in Seq({0, 1}) /\ call.byte \in BusBytes /\ slave.got \in Seq(BusBytes)
            /\ slave.sent \in Seq(BusBytes)
        BY <1>1, <1>2 DEF SlaveType, WritingKnown
      <4>2. I2cBus!byteOf(slave.bits) = call.byte
        BY <2>8, <3>2, <4>1, BitsMakeByte
      <4>3. LET got == Append(slave.got, call.byte)
            IN  \/ next = [state |-> [slave EXCEPT !.mode = "ack", !.bits = <<>>, !.got = got], sda |-> 0]
                \/ next = [state |-> [slave EXCEPT !.mode = "idle", !.bits = <<>>, !.got = got], sda |-> 1]
        BY <1>1, <1>5, <2>8, <3>2, <4>2, SlaveHasByte
      <4>4. Append(slave.got, call.byte) \in Seq(BusBytes) /\ <<>> \in Seq({0, 1})
        BY <4>1, AppendProperties
      <4>5. /\ slave' \in SlaveType /\ slave'.got = Append(slave.got, call.byte)
            /\ slave'.sent = slave.sent
            /\ \/ slave'.mode = "ack" /\ slave'.bits = <<>> /\ "SDA" \in holds'
               \/ slave'.mode = "idle" /\ "SDA" \notin holds'
        <5> DEFINE got == Append(slave.got, call.byte)
        <5>1. CASE next = [state |-> [slave EXCEPT !.mode = "ack", !.bits = <<>>, !.got = got], sda |-> 0]
          <6>1. slave' = [slave EXCEPT !.mode = "ack", !.bits = <<>>, !.got = got] /\ "SDA" \in holds'
            BY <2>3, <5>1
          <6> QED BY <1>1, <4>4, <6>1 DEF SlaveType
        <5>2. CASE next = [state |-> [slave EXCEPT !.mode = "idle", !.bits = <<>>, !.got = got], sda |-> 1]
          <6>1. slave' = [slave EXCEPT !.mode = "idle", !.bits = <<>>, !.got = got] /\ "SDA" \notin holds'
            BY <2>3, <5>2
          <6> QED BY <1>1, <4>4, <6>1 DEF SlaveType
        <5> QED BY <4>3, <5>1, <5>2
      <4>6. Answers'
        BY <1>5, <2>2, <4>5 DEF Answers
      <4>7. /\ call'.bit = BITS + 1 /\ call'.at \in 1..5 /\ ~(call'.at >= 2) /\ call'.at # 5
            /\ read' = <<>> /\ slave'.sent = <<>>
        BY <1>2, <2>2, <2>5, <3>2, <4>5
      <4>8. Writing'
        BY <2>6, <2>7, <4>6, <4>7 DEF Writing, WritingKnown
      <4> QED BY <4>5, <4>8
    <3> QED BY <3>1, <3>2
  <2>10. InTime'
    BY <1>1, <2>2, <2>5, <2>9 DEF InTime, I2cTyped
  <2> QED BY <1>5, <2>2, <2>3, <2>9, <2>10 DEF WiresTyped, NoFalseStep
<1> QED BY <1>2, <1>9, <1>10, <1>11, <1>12

\* The slave goes on to a byte of its own.
LEMMA NextByteIsShown ==
  ASSUME I2cAssumption, slave \in SlaveType, NEW next \in I2cBus!SetsBit,
         Len(slave.sent) # MaxBytes,
         \/ slave.mode = "ack" /\ I2cBus!IsRead(slave.got[1])
         \/ slave.mode = "acked",
         slave' = next.state, "SDA" \in holds' <=> next.sda = 0
  PROVE  /\ slave' \in SlaveType /\ slave'.mode = "send" /\ slave'.got = slave.got
         /\ \E byte \in BusBytes : slave'.sent = Append(slave.sent, byte) /\ Sending(byte, 1)'
<1>1. PICK byte \in BusBytes :
        next = [state |-> [slave EXCEPT !.mode = "send", !.bits = Tail(I2cBus!bitsOf(byte)),
                                        !.sent = Append(slave.sent, byte)],
                sda |-> I2cBus!bitsOf(byte)[1]]
  BY NextByteIs
<1> DEFINE all == I2cBus!bitsOf(byte)
<1>2. /\ all \in Seq({0, 1}) /\ Len(all) = BITS /\ BITS \in Nat \ {0}
      /\ slave.sent \in Seq(BusBytes)
  BY BytesBits DEF I2cAssumption, SlaveType
<1>3. /\ slave' = [slave EXCEPT !.mode = "send", !.bits = Tail(all),
                                !.sent = Append(slave.sent, byte)]
      /\ "SDA" \in holds' <=> all[1] = 0
  BY <1>1
<1> HIDE DEF all
<1>4. /\ Tail(all) \in Seq({0, 1}) /\ Len(Tail(all)) = BITS - 1
      /\ \A i \in 1 .. BITS - 1 : Tail(all)[i] = all[1 + i]
  <2>1. all # <<>>
    BY <1>2
  <2> QED BY <1>2, <2>1, HeadTailProperties
<1>5. Append(slave.sent, byte) \in Seq(BusBytes)
  BY <1>2, AppendProperties
<1>6. /\ slave' \in SlaveType /\ slave'.mode = "send" /\ slave'.bits = Tail(all)
      /\ slave'.got = slave.got /\ slave'.sent = Append(slave.sent, byte)
  BY <1>3, <1>4, <1>5 DEF SlaveType
<1>7. Sending(byte, 1)'
  BY <1>3, <1>4, <1>6 DEF Sending, all
<1> QED BY <1>6, <1>7

LEMMA WriteAnswerGoesOn ==
  ASSUME I2cAssumption, WiresTyped, InTime, call.name = "write", call.bit = BITS + 1, Writing, InStep
  PROVE  InTime' /\ WiresTyped' /\ NoFalseStep
<1>1. /\ I2cTyped /\ ~internalTimeoutOccurred /\ call # I2cBus!NoCall /\ BITS \in Nat \ {0}
      /\ slave \in SlaveType /\ transfer \in TransferType /\ call \in CallType
      /\ read \in Seq({0, 1}) /\ MaxBytes \in Nat \ {0}
  BY DEF InTime, I2cTyped, I2cBus!NoCall, I2cAssumption
<1>2. WritingKnown /\ call.at \in 1..6
  BY DEF Writing, WritingKnown
<1>3. /\ Len(I2cBus!Steps) = 6 /\ I2cBus!Steps[1] = "sda high" /\ I2cBus!Steps[2] = "let scl go"
      /\ I2cBus!Steps[3] = "await scl" /\ I2cBus!Steps[4] = "sample"
      /\ I2cBus!Steps[5] = "scl low" /\ I2cBus!Steps[6] = "acked"
  BY WriteStepsAre, AnswerStepsAre
<1>4. call.at # 6 =>
        /\ slave.sent = <<>> /\ Clocked /\ Answers
        /\ read = IF call.at = 5 THEN <<IF "SDA" \in holds THEN 0 ELSE 1>> ELSE <<>>
        /\ call.at >= 2 => "SDA" \notin master
  BY <1>1, <1>2 DEF Writing
<1>5. ASSUME call.at # 6, I2cBus!Goes
      PROVE  /\ call' = [call EXCEPT !.at = call.at + 1]
             /\ call'.at = call.at + 1 /\ call'.bit = BITS + 1 /\ call'.byte = call.byte
  <2>1. call' = [call EXCEPT !.at = call.at + 1]
    BY <1>1, <1>3, <1>5, GoesIs
  <2> QED BY <1>1, <2>1 DEF CallType
\* The answer goes on, as long as it is the same.
<1>6. ASSUME call' = [call EXCEPT !.at = call.at + 1], call'.at = call.at + 1,
             call'.bit = BITS + 1, call'.byte = call.byte, call.at \in 1..4,
             UNCHANGED <<busStarted, transfer, internalTimeoutOccurred, slave, holds>>,
             Clocked', "SDA" \notin master',
             read' = IF call'.at = 5 THEN <<IF "SDA" \in holds THEN 0 ELSE 1>> ELSE <<>>
      PROVE  InTime'
  <2>1. WritingKnown'
    BY <1>2, <1>6 DEF WritingKnown, ModeIsAsAddressed
  <2>2. Answers'
    BY <1>4, <1>6 DEF Answers
  <2>3. /\ call'.at \in 1..5 /\ slave'.sent = <<>>
        /\ read' = IF call'.at = 5 THEN <<IF "SDA" \in holds' THEN 0 ELSE 1>> ELSE <<>>
    BY <1>4, <1>6
  <2>4. Writing'
    BY <1>6, <2>1, <2>2, <2>3 DEF Writing, WritingKnown
  <2>5. read' \in Seq({0, 1})
    <3>1. <<0>> \in Seq({0, 1}) /\ <<1>> \in Seq({0, 1}) /\ <<>> \in Seq({0, 1})
      OBVIOUS
    <3> QED BY <1>6, <3>1
  <2> QED BY <1>1, <1>6, <2>4, <2>5, GoesOn DEF I2cTyped
<1>7. CASE call.at = 1
  <2>1. "SCL" \in master
    BY <1>4, <1>7 DEF Clocked
  <2>2. /\ I2cBus!Wires(master \ {"SDA"}, holds) /\ I2cBus!Goes
        /\ UNCHANGED <<busStarted, read, transfer, internalTimeoutOccurred, busTimeoutOccurred>>
    BY <1>1, <1>3, <1>7, StepIs
  <2>3. slave' = slave /\ holds' = holds /\ master' = master \ {"SDA"}
    BY <2>1, <2>2, SclStaysLow
  <2>4. /\ call' = [call EXCEPT !.at = call.at + 1]
        /\ call'.at = 2 /\ call'.bit = BITS + 1 /\ call'.byte = call.byte
    BY <1>5, <1>7, <2>2
  <2>5. Clocked' /\ "SDA" \notin master'
    BY <2>1, <2>3, <2>4 DEF Clocked
  <2>6. InTime'
    BY <1>4, <1>6, <1>7, <2>2, <2>3, <2>4, <2>5
  <2> QED BY <2>2, <2>3, <2>6 DEF WiresTyped, NoFalseStep
<1>8. CASE call.at = 2
  <2>1. "SCL" \in master /\ slave.mode \in {"ack", "idle"} /\ "SDA" \notin master
    BY <1>4, <1>8 DEF Clocked, Answers
  <2>2. /\ I2cBus!Wires(master \ {"SCL"}, holds) /\ I2cBus!Goes
        /\ UNCHANGED <<busStarted, read, transfer, internalTimeoutOccurred, busTimeoutOccurred>>
    BY <1>1, <1>3, <1>8, StepIs
  <2>3. /\ master' = master \ {"SCL"} /\ holds' = holds
        /\ slave' \in {slave, I2cBus!TakesBit(0), I2cBus!TakesBit(1)}
    BY <2>1, <2>2, MasterLetsSclGo
  <2>4. slave' = slave
    BY <1>1, <2>1, <2>3, SclRises
  <2>5. /\ call' = [call EXCEPT !.at = call.at + 1]
        /\ call'.at = 3 /\ call'.bit = BITS + 1 /\ call'.byte = call.byte
    BY <1>5, <1>8, <2>2
  <2>6. Clocked' /\ "SDA" \notin master'
    BY <2>1, <2>3, <2>5 DEF Clocked
  <2>7. InTime'
    BY <1>4, <1>6, <1>8, <2>2, <2>3, <2>4, <2>5, <2>6
  <2> QED BY <2>2, <2>3, <2>4, <2>7 DEF WiresTyped, NoFalseStep
<1>9. CASE call.at = 3
  <2>1. "SCL" \notin master /\ "SDA" \notin master
    BY <1>4, <1>9 DEF Clocked
  <2>2. /\ "SCL" \notin holds /\ I2cBus!Goes
        /\ UNCHANGED <<master, holds, slave, busStarted, read, transfer, internalTimeoutOccurred,
                       busTimeoutOccurred>>
    BY <1>1, <1>3, <1>9, StepIs
  <2>3. /\ call' = [call EXCEPT !.at = call.at + 1]
        /\ call'.at = 4 /\ call'.bit = BITS + 1 /\ call'.byte = call.byte
    BY <1>5, <1>9, <2>2
  <2>4. Clocked'
    BY <2>1, <2>2, <2>3 DEF Clocked
  <2>5. InTime'
    BY <1>4, <1>6, <1>9, <2>1, <2>2, <2>3, <2>4
  <2> QED BY <2>2, <2>5 DEF WiresTyped, NoFalseStep
<1>10. CASE call.at = 4
  <2>1. "SCL" \notin master /\ "SCL" \notin holds /\ "SDA" \notin master /\ read = <<>>
    BY <1>4, <1>10 DEF Clocked
  <2>2. /\ read' = Append(read, IF "SDA" \in master \cup holds THEN 0 ELSE 1)
        /\ I2cBus!Goes
        /\ UNCHANGED <<master, holds, slave, busStarted, transfer, internalTimeoutOccurred,
                       busTimeoutOccurred>>
    BY <1>1, <1>3, <1>10, StepIs
  <2>3. /\ call' = [call EXCEPT !.at = call.at + 1]
        /\ call'.at = 5 /\ call'.bit = BITS + 1 /\ call'.byte = call.byte
    BY <1>5, <1>10, <2>2
  <2>4. Clocked'
    BY <2>1, <2>2, <2>3 DEF Clocked
  <2>5. read' = <<IF "SDA" \in holds THEN 0 ELSE 1>>
    BY <2>1, <2>2
  <2>6. InTime'
    BY <1>6, <1>10, <2>1, <2>2, <2>3, <2>4, <2>5
  <2> QED BY <2>2, <2>6 DEF WiresTyped, NoFalseStep
<1>11. CASE call.at = 5
  <2>1. /\ SclIsFree /\ "SDA" \notin master /\ Answers /\ slave.sent = <<>>
        /\ read = <<IF "SDA" \in holds THEN 0 ELSE 1>>
    BY <1>4, <1>11 DEF Clocked, SclIsFree
  <2>2. /\ I2cBus!Wires(master \cup {"SCL"}, holds) /\ I2cBus!Goes
        /\ UNCHANGED <<busStarted, read, transfer, internalTimeoutOccurred, busTimeoutOccurred>>
    BY <1>1, <1>3, <1>11, StepIs
  <2>3. PICK next \in I2cBus!SetsBit :
          /\ master' = master \cup {"SCL"} /\ holds' \subseteq {"SCL", "SDA"}
          /\ slave' = next.state /\ ("SDA" \in holds' <=> next.sda = 0)
    BY <2>1, <2>2, SclFalls
  <2>4. /\ call' = [call EXCEPT !.at = call.at + 1]
        /\ call'.at = 6 /\ call'.bit = BITS + 1 /\ call'.byte = call.byte
    BY <1>5, <1>11, <2>2
  <2>5. WritingKnown' /\ "SCL" \in master' /\ "SDA" \notin master'
    BY <1>2, <2>1, <2>2, <2>3, <2>4 DEF WritingKnown, ModeIsAsAddressed
  <2>6. slave.got = transfer.sent
    BY <2>1 DEF Answers
  <2>7. /\ slave' \in SlaveType
        /\ \/ read' = <<0>> /\ Agrees'
           \/ /\ read' = <<1>> /\ slave'.mode = "idle" /\ "SDA" \notin holds'
              /\ slave'.got = transfer'.sent /\ slave'.sent = <<>>
        /\ slave' = slave \/ slave'.mode # "address"
    <3>1. CASE slave.mode = "idle"
      <4>1. "SDA" \notin holds /\ read' = <<1>>
        BY <2>1, <2>2, <3>1 DEF Answers
      <4>2. next = [state |-> slave, sda |-> 1]
        BY <1>1, <3>1, SlaveStays
      <4>3. slave' = slave /\ "SDA" \notin holds'
        BY <2>3, <4>2
      <4> QED BY <1>1, <2>1, <2>2, <2>6, <3>1, <4>1, <4>3
    <3>2. CASE slave.mode = "ack" /\ ~I2cBus!IsRead(slave.got[1])
      <4>1. "SDA" \in holds /\ read' = <<0>> /\ slave.bits = <<>>
        BY <2>1, <2>2, <3>2 DEF Answers
      <4>2. slave' = [slave EXCEPT !.mode = "receive"] /\ "SDA" \notin holds'
        BY <1>1, <2>3, <3>2, SlaveReceives
      <4>3. /\ slave' \in SlaveType /\ slave'.mode = "receive" /\ slave'.bits = <<>>
            /\ slave'.got = slave.got /\ slave'.sent = <<>>
        BY <1>1, <2>1, <4>1, <4>2 DEF SlaveType
      <4>4. transfer.mode = "write" /\ transfer.sent # <<>> /\ transfer.received = <<>>
        BY <1>2, <2>6, <3>2 DEF WritingKnown, ModeIsAsAddressed
      <4>5. Agrees'
        BY <2>2, <2>6, <4>2, <4>3, <4>4 DEF Agrees
      <4> QED BY <4>1, <4>3, <4>5
    <3>3. CASE slave.mode = "ack" /\ I2cBus!IsRead(slave.got[1])
      <4>1. "SDA" \in holds /\ read' = <<0>>
        BY <2>1, <2>2, <3>3 DEF Answers
      <4>2. Len(slave.sent) # MaxBytes
        BY <1>1, <2>1
      <4>3. /\ slave' \in SlaveType /\ slave'.mode = "send" /\ slave'.got = slave.got
            /\ \E byte \in BusBytes : slave'.sent = Append(slave.sent, byte) /\ Sending(byte, 1)'
        BY <1>1, <2>3, <3>3, <4>2, NextByteIsShown
      <4>4. transfer.mode = "read" /\ transfer.sent # <<>> /\ transfer.received = <<>>
        BY <1>2, <2>6, <3>3 DEF WritingKnown, ModeIsAsAddressed
      <4>5. \E byte \in BusBytes : slave'.sent = Append(transfer'.received, byte) /\ Sending(byte, 1)'
        BY <2>1, <2>2, <4>3, <4>4
      <4>6. Agrees'
        BY <2>2, <2>6, <4>3, <4>4, <4>5 DEF Agrees
      <4> QED BY <4>1, <4>3, <4>6
    <3> QED BY <2>1, <3>1, <3>2, <3>3 DEF Answers
  <2>8. Writing'
    BY <2>4, <2>5, <2>7 DEF Writing, WritingKnown
  <2>9. InTime'
    BY <1>1, <2>2, <2>4, <2>7, <2>8, GoesOn
  <2> QED BY <2>2, <2>3, <2>7, <2>9 DEF WiresTyped, NoFalseStep
<1>12. CASE call.at = 6
  <2>1. /\ "SCL" \in master /\ "SDA" \notin master
        /\ \/ read = <<0>> /\ Agrees
           \/ /\ read = <<1>> /\ slave.sent = <<>>
              /\ slave.mode = "idle" /\ "SDA" \notin holds /\ slave.got = transfer.sent
    BY <1>1, <1>12 DEF Writing
  <2>2. /\ transfer' = IF read[1] = 1 THEN [transfer EXCEPT !.mode = "stopped"] ELSE transfer
        /\ IF read[1] = 1 THEN call' = I2cBus!At("stop", 0) ELSE I2cBus!Goes
        /\ UNCHANGED <<master, holds, slave, read, busStarted, internalTimeoutOccurred,
                       busTimeoutOccurred>>
    BY <1>1, <1>3, <1>12, StepIs
  <2>3. CASE read = <<0>> /\ Agrees
    <3>1. transfer' = transfer /\ I2cBus!Goes
      BY <2>2, <2>3
    <3>2. call' = I2cBus!NoCall
      <4>1. ~(call.bit <= BITS)
        BY <1>1
      <4>2. call.at = Len(I2cBus!Steps)
        BY <1>3, <1>12
      <4> QED BY <1>1, <3>1, <4>1, <4>2, GoesIs
    <3>3. /\ transfer.mode \in {"read", "write"} /\ busStarted
          /\ transfer.mode = "write" => ~I2cBus!IsRead(transfer.sent[1])
      BY <1>2 DEF WritingKnown, ModeIsAsAddressed
    <3>4. Agrees'
      BY <2>2, <2>3, <3>1 DEF Agrees, Sending
    <3>5. Resting'
      BY <2>1, <2>2, <3>1, <3>3, <3>4 DEF Resting, ModeOK
    <3>6. InTime'
      BY <1>1, <2>2, <3>1, <3>2, <3>5 DEF InTime, I2cTyped, CallType, I2cBus!NoCall
    <3> QED BY <2>2, <3>6 DEF WiresTyped, NoFalseStep
  <2>4. CASE /\ read = <<1>> /\ slave.sent = <<>>
             /\ slave.mode = "idle" /\ "SDA" \notin holds /\ slave.got = transfer.sent
    <3>1. transfer' = [transfer EXCEPT !.mode = "stopped"] /\ call' = I2cBus!At("stop", 0)
      BY <2>2, <2>4
    <3>2. /\ transfer' \in TransferType /\ transfer'.mode = "stopped"
          /\ transfer'.sent = transfer.sent /\ transfer'.received = <<>>
      BY <1>1, <1>2, <3>1 DEF TransferType, WritingKnown
    <3>3. call' \in CallType /\ call'.name = "stop" /\ call'.bit = 1 /\ call'.at = 1
      BY <3>1 DEF I2cBus!At, CallType
    <3>4. Agrees'
      BY <2>2, <2>4, <3>2 DEF Agrees
    <3>5. Stopping'
      BY <1>2, <2>1, <2>2, <2>4, <3>2, <3>3, <3>4 DEF Stopping, Clocked, WritingKnown
    <3>6. InTime'
      BY <1>1, <2>2, <3>2, <3>3, <3>5 DEF InTime, I2cTyped
    <3> QED BY <2>2, <3>6 DEF WiresTyped, NoFalseStep
  <2> QED BY <2>1, <2>3, <2>4
<1> QED BY <1>2, <1>7, <1>8, <1>9, <1>10, <1>11, <1>12

\* What holds of a call of i2cReadByte at each of its steps.
ReadingKnown ==
  /\ call.byte \in {0, 1}
  /\ busStarted
  /\ transfer.mode = "read" /\ transfer.sent # <<>> /\ slave.got = transfer.sent
  /\ call.byte = 0 => Len(transfer.received) < MaxBytes - 1

LEMMA ReadBitGoesOn ==
  ASSUME I2cAssumption, WiresTyped, InTime, call.name = "read", NEW n \in 1..BITS, call.bit = n,
         Reading, InStep
  PROVE  InTime' /\ WiresTyped' /\ NoFalseStep
<1>1. /\ I2cTyped /\ ~internalTimeoutOccurred /\ call # I2cBus!NoCall /\ BITS \in Nat \ {0}
      /\ slave \in SlaveType /\ transfer \in TransferType /\ call \in CallType
      /\ read \in Seq({0, 1})
  BY DEF InTime, I2cTyped, I2cBus!NoCall, I2cAssumption
<1>2. ReadingKnown
  BY DEF Reading, ReadingKnown
<1>3. PICK byte \in BusBytes :
        /\ call.at \in 1..5 /\ Clocked
        /\ slave.sent = Append(transfer.received, byte)
        /\ Sending(byte, n)
        /\ HasRead(byte, IF call.at = 5 THEN n ELSE n - 1)
        /\ call.at >= 2 => "SDA" \notin master
  <2>1. PICK byte \in BusBytes :
          /\ call.at \in 1..5 /\ Clocked
          /\ slave.sent = Append(transfer.received, byte)
          /\ Sending(byte, call.bit)
          /\ HasRead(byte, IF call.at = 5 THEN call.bit ELSE call.bit - 1)
          /\ call.at >= 2 => "SDA" \notin master
    BY <1>1 DEF Reading
  <2> QED BY <2>1
<1>4. /\ Len(I2cBus!Steps) = 5 /\ I2cBus!Steps[1] = "sda high"
      /\ I2cBus!Steps[2] = "let scl go" /\ I2cBus!Steps[3] = "await scl"
      /\ I2cBus!Steps[4] = "sample" /\ I2cBus!Steps[5] = "scl low"
  BY ReadStepsAre, BitStepsAre
<1>5. slave.mode = "send"
  BY <1>3 DEF Sending
<1>6. ASSUME call.at # 5, I2cBus!Goes
      PROVE  /\ call' = [call EXCEPT !.at = call.at + 1]
             /\ call'.at = call.at + 1 /\ call'.bit = n /\ call'.byte = call.byte
  <2>1. call' = [call EXCEPT !.at = call.at + 1]
    BY <1>1, <1>4, <1>6, GoesIs
  <2> QED BY <1>1, <2>1 DEF CallType
\* The bit goes on, as long as the slave shows it.
<1>7. ASSUME call' = [call EXCEPT !.at = call.at + 1], call'.at = call.at + 1, call'.bit = n,
             call'.byte = call.byte, call.at \in 1..4,
             UNCHANGED <<busStarted, transfer, internalTimeoutOccurred, slave, holds>>,
             Clocked', "SDA" \notin master',
             read' \in Seq({0, 1}), IF call.at = 4 THEN HasRead(byte, n)' ELSE HasRead(byte, n - 1)'
      PROVE  InTime'
  <2>1. ReadingKnown'
    BY <1>2, <1>7 DEF ReadingKnown
  <2>2. Sending(byte, call.bit)'
    BY <1>3, <1>7 DEF Sending
  <2>3. HasRead(byte, IF call.at = 5 THEN call.bit ELSE call.bit - 1)'
    BY <1>7 DEF HasRead
  <2>4. call'.bit \in 1..BITS /\ call'.at \in 1..5 /\ slave'.sent = Append(transfer'.received, byte)
    BY <1>3, <1>7
  <2>5. Reading'
    BY <1>7, <2>1, <2>2, <2>3, <2>4 DEF Reading, ReadingKnown
  <2> QED BY <1>1, <1>7, <2>5, GoesOn DEF I2cTyped
<1>8. CASE call.at = 1
  <2>1. "SCL" \in master
    BY <1>3, <1>8 DEF Clocked
  <2>2. /\ I2cBus!Wires(master \ {"SDA"}, holds) /\ I2cBus!Goes
        /\ UNCHANGED <<busStarted, read, transfer, internalTimeoutOccurred, busTimeoutOccurred>>
    BY <1>1, <1>4, <1>8, StepIs
  <2>3. slave' = slave /\ holds' = holds /\ master' = master \ {"SDA"}
    BY <2>1, <2>2, SclStaysLow
  <2>4. /\ call' = [call EXCEPT !.at = call.at + 1]
        /\ call'.at = 2 /\ call'.bit = n /\ call'.byte = call.byte
    BY <1>6, <1>8, <2>2
  <2>5. Clocked' /\ "SDA" \notin master' /\ HasRead(byte, n - 1)'
    BY <1>3, <1>8, <2>1, <2>2, <2>3, <2>4 DEF Clocked, HasRead
  <2>6. InTime'
    BY <1>1, <1>7, <1>8, <2>2, <2>3, <2>4, <2>5
  <2> QED BY <2>2, <2>3, <2>6 DEF WiresTyped, NoFalseStep
<1>9. CASE call.at = 2
  <2>1. "SCL" \in master /\ "SDA" \notin master
    BY <1>3, <1>9 DEF Clocked
  <2>2. /\ I2cBus!Wires(master \ {"SCL"}, holds) /\ I2cBus!Goes
        /\ UNCHANGED <<busStarted, read, transfer, internalTimeoutOccurred, busTimeoutOccurred>>
    BY <1>1, <1>4, <1>9, StepIs
  <2>3. /\ master' = master \ {"SCL"} /\ holds' = holds
        /\ slave' \in {slave, I2cBus!TakesBit(0), I2cBus!TakesBit(1)}
    BY <2>1, <2>2, MasterLetsSclGo
  <2>4. slave' = slave
    BY <1>1, <1>5, <2>3, SclRises
  <2>5. /\ call' = [call EXCEPT !.at = call.at + 1]
        /\ call'.at = 3 /\ call'.bit = n /\ call'.byte = call.byte
    BY <1>6, <1>9, <2>2
  <2>6. Clocked' /\ "SDA" \notin master' /\ HasRead(byte, n - 1)'
    BY <1>3, <1>9, <2>1, <2>2, <2>3, <2>5 DEF Clocked, HasRead
  <2>7. InTime'
    BY <1>1, <1>7, <1>9, <2>2, <2>3, <2>4, <2>5, <2>6
  <2> QED BY <2>2, <2>3, <2>4, <2>7 DEF WiresTyped, NoFalseStep
<1>10. CASE call.at = 3
  <2>1. "SCL" \notin master /\ "SDA" \notin master
    BY <1>3, <1>10 DEF Clocked
  <2>2. /\ "SCL" \notin holds /\ I2cBus!Goes
        /\ UNCHANGED <<master, holds, slave, busStarted, read, transfer, internalTimeoutOccurred,
                       busTimeoutOccurred>>
    BY <1>1, <1>4, <1>10, StepIs
  <2>3. /\ call' = [call EXCEPT !.at = call.at + 1]
        /\ call'.at = 4 /\ call'.bit = n /\ call'.byte = call.byte
    BY <1>6, <1>10, <2>2
  <2>4. Clocked' /\ "SDA" \notin master' /\ HasRead(byte, n - 1)'
    BY <1>3, <1>10, <2>1, <2>2, <2>3 DEF Clocked, HasRead
  <2>5. InTime'
    BY <1>1, <1>7, <1>10, <2>2, <2>3, <2>4
  <2> QED BY <2>2, <2>5 DEF WiresTyped, NoFalseStep
<1>11. CASE call.at = 4
  <2>1. "SCL" \notin master /\ "SCL" \notin holds /\ "SDA" \notin master
    BY <1>3, <1>11 DEF Clocked
  <2>2. /\ read' = Append(read, IF "SDA" \in master \cup holds THEN 0 ELSE 1)
        /\ I2cBus!Goes
        /\ UNCHANGED <<master, holds, slave, busStarted, transfer, internalTimeoutOccurred,
                       busTimeoutOccurred>>
    BY <1>1, <1>4, <1>11, StepIs
  <2>3. /\ call' = [call EXCEPT !.at = call.at + 1]
        /\ call'.at = 5 /\ call'.bit = n /\ call'.byte = call.byte
    BY <1>6, <1>11, <2>2
  <2>4. Clocked' /\ "SDA" \notin master'
    BY <2>1, <2>2, <2>3 DEF Clocked
  <2>5. PICK b \in {0, 1} : b = I2cBus!bitsOf(byte)[n] /\ read' = Append(read, b)
    <3>1. PICK b \in {0, 1} : b = I2cBus!bitsOf(byte)[n]
      BY BytesBits
    <3>2. "SDA" \in holds <=> b = 0
      BY <1>3, <3>1 DEF Sending
    <3> QED BY <2>1, <2>2, <3>1, <3>2
  <2>6. Len(read) = n - 1 /\ \A i \in 1 .. n - 1 : read[i] = I2cBus!bitsOf(byte)[i]
    BY <1>3, <1>11 DEF HasRead
  <2>7. /\ read' \in Seq({0, 1}) /\ Len(read') = n /\ read'[n] = b
        /\ \A i \in 1 .. n - 1 : read'[i] = read[i]
    BY <1>1, <2>5, <2>6, AppendProperties
  <2>8. HasRead(byte, n)'
    <3>1. \A i \in 1..n : read'[i] = I2cBus!bitsOf(byte)[i]
      BY <2>5, <2>6, <2>7
    <3> QED BY <2>7, <3>1 DEF HasRead
  <2>9. InTime'
    BY <1>7, <1>11, <2>2, <2>3, <2>4, <2>7, <2>8
  <2> QED BY <2>2, <2>9 DEF WiresTyped, NoFalseStep
<1>12. CASE call.at = 5
  <2>1. /\ SclIsFree /\ HasRead(byte, n) /\ Sending(byte, n)
        /\ slave.sent = Append(transfer.received, byte)
    BY <1>3, <1>12 DEF Clocked, SclIsFree
  <2>2. /\ I2cBus!Wires(master \cup {"SCL"}, holds) /\ I2cBus!Goes
        /\ UNCHANGED <<busStarted, read, transfer, internalTimeoutOccurred, busTimeoutOccurred>>
    BY <1>1, <1>4, <1>12, StepIs
  <2>3. PICK next \in I2cBus!SetsBit :
          /\ master' = master \cup {"SCL"} /\ holds' \subseteq {"SCL", "SDA"}
          /\ slave' = next.state /\ ("SDA" \in holds' <=> next.sda = 0)
    BY <2>1, <2>2, SclFalls
  <2>4. call' = [call EXCEPT !.bit = n + 1, !.at = 1]
    <3>1. call.bit <= BITS
      BY <1>1
    <3>2. call.at = Len(I2cBus!Steps) /\ call.name \in {"write", "read"}
      BY <1>4, <1>12
    <3>3. call' = [call EXCEPT !.bit = call.bit + 1, !.at = 1]
      BY <1>1, <2>2, <3>1, <3>2, GoesIs
    <3> QED BY <3>3
  <2>5. /\ call' \in CallType /\ call'.name = "read" /\ call'.byte = call.byte
        /\ call'.bit = n + 1 /\ call'.at = 1
    <3>1. n + 1 \in Nat
      BY <1>1
    <3> QED BY <1>1, <2>4, <3>1 DEF CallType
  <2>6. Clocked' /\ ~SclIsFree'
    BY <2>3, <2>5 DEF Clocked, SclIsFree
  <2>7. /\ slave.bits \in Seq({0, 1}) /\ Len(slave.bits) = BITS - n
        /\ \A i \in 1 .. BITS - n : slave.bits[i] = I2cBus!bitsOf(byte)[n + i]
    BY <1>1, <2>1 DEF Sending, SlaveType
  <2>8. Reading' /\ slave' \in SlaveType /\ slave'.mode \in {"send", "acked"}
    <3>1. CASE n # BITS
      <4>1. /\ slave.bits # <<>> /\ slave.bits[1] = I2cBus!bitsOf(byte)[n + 1]
            /\ Tail(slave.bits) \in Seq({0, 1}) /\ Len(Tail(slave.bits)) = BITS - (n + 1)
            /\ \A i \in 1 .. BITS - (n + 1) : Tail(slave.bits)[i] = slave.bits[i + 1]
        <5>1. slave.bits # <<>> /\ BITS - n \in Nat \ {0}
          BY <1>1, <2>7, <3>1
        <5> QED BY <1>1, <2>7, <5>1, HeadTailProperties
      <4>2. next = [state |-> [slave EXCEPT !.bits = Tail(slave.bits)], sda |-> slave.bits[1]]
        BY <1>1, <1>5, <4>1, SlaveShowsBit
      <4>3. slave' = [slave EXCEPT !.bits = Tail(slave.bits)] /\ ("SDA" \in holds' <=> slave.bits[1] = 0)
        BY <2>3, <4>2
      <4>4. /\ slave' \in SlaveType /\ slave'.mode = "send" /\ slave'.bits = Tail(slave.bits)
            /\ slave'.got = slave.got /\ slave'.sent = slave.sent
        BY <1>1, <1>5, <4>1, <4>3 DEF SlaveType
      <4>5. \A i \in 1 .. BITS - (n + 1) : slave'.bits[i] = I2cBus!bitsOf(byte)[(n + 1) + i]
        <5>1. ASSUME NEW i \in 1 .. BITS - (n + 1)
              PROVE  slave'.bits[i] = I2cBus!bitsOf(byte)[(n + 1) + i]
          <6>1. i + 1 \in 1 .. BITS - n /\ n + (i + 1) = (n + 1) + i
            BY <1>1
          <6> QED BY <2>7, <4>1, <4>4, <6>1
        <5> QED BY <5>1
      <4>6. Sending(byte, n + 1)'
        BY <4>1, <4>3, <4>4, <4>5 DEF Sending
      <4>7. Sending(byte, call.bit)'
        BY <2>5, <4>6 DEF Sending
      <4>8. HasRead(byte, IF call.at = 5 THEN call.bit ELSE call.bit - 1)'
        <5>1. (IF call'.at = 5 THEN call'.bit ELSE call'.bit - 1) = n
          BY <2>5
        <5> QED BY <2>1, <2>2, <5>1 DEF HasRead
      <4>9. ReadingKnown'
        BY <1>2, <2>2, <2>5, <4>4 DEF ReadingKnown
      <4>10. /\ call'.bit \in 1..BITS /\ call'.at \in 1..5 /\ ~(call'.at >= 2)
             /\ slave'.sent = Append(transfer'.received, byte)
        BY <1>1, <2>1, <2>2, <2>5, <3>1, <4>4
      <4>11. Reading'
        BY <2>6, <4>7, <4>8, <4>9, <4>10 DEF Reading, ReadingKnown
      <4> QED BY <4>4, <4>11
    <3>2. CASE n = BITS
      <4>1. slave.bits = <<>>
        BY <1>1, <2>7, <3>2
      <4>2. next = [state |-> [slave EXCEPT !.mode = "acked"], sda |-> 1]
        BY <1>1, <1>5, <4>1, SlaveShowsBit
      <4>3. slave' = [slave EXCEPT !.mode = "acked"] /\ "SDA" \notin holds'
        BY <2>3, <4>2
      <4>4. /\ slave' \in SlaveType /\ slave'.mode = "acked"
            /\ slave'.got = slave.got /\ slave'.sent = slave.sent
        BY <1>1, <4>3 DEF SlaveType
      <4>5. HasRead(byte, BITS)'
        BY <2>1, <2>2, <3>2 DEF HasRead
      <4>6. ReadingKnown'
        BY <1>2, <2>2, <2>5, <4>4 DEF ReadingKnown
      <4>7. /\ call'.bit = BITS + 1 /\ call'.at \in 1..4 /\ ~(call'.at >= 2)
            /\ slave'.sent = Append(transfer'.received, byte)
            /\ slave'.mode = IF SclIsFree' /\ call'.byte = 1 THEN "idle" ELSE "acked"
        BY <1>1, <2>1, <2>2, <2>5, <2>6, <3>2, <4>4
      <4>8. Reading'
        BY <2>6, <4>3, <4>5, <4>6, <4>7 DEF Reading, ReadingKnown
      <4> QED BY <4>4, <4>8
    <3> QED BY <3>1, <3>2
  <2>9. InTime'
    BY <1>1, <2>2, <2>5, <2>8 DEF InTime, I2cTyped
  <2> QED BY <1>5, <2>2, <2>3, <2>8, <2>9 DEF WiresTyped, NoFalseStep
<1> QED BY <1>3, <1>8, <1>9, <1>10, <1>11, <1>12

LEMMA ReadAnswerGoesOn ==
  ASSUME I2cAssumption, WiresTyped, InTime, call.name = "read", call.bit = BITS + 1, Reading, InStep
  PROVE  InTime' /\ WiresTyped' /\ NoFalseStep
<1>1. /\ I2cTyped /\ ~internalTimeoutOccurred /\ call # I2cBus!NoCall /\ BITS \in Nat \ {0}
      /\ slave \in SlaveType /\ transfer \in TransferType /\ call \in CallType
      /\ read \in Seq({0, 1}) /\ MaxBytes \in Nat \ {0}
  BY DEF InTime, I2cTyped, I2cBus!NoCall, I2cAssumption
<1>2. ReadingKnown /\ call.at \in 1..5
  BY <1>1 DEF Reading, ReadingKnown
<1>3. /\ Len(I2cBus!Steps) = 5 /\ I2cBus!Steps[1] = I2cBus!Put(call.byte)
      /\ I2cBus!Steps[2] = "let scl go" /\ I2cBus!Steps[3] = "await scl"
      /\ I2cBus!Steps[4] = "scl low" /\ I2cBus!Steps[5] = "received"
  BY ReadStepsAre, AnswerStepsAre
<1>4. PICK byte \in BusBytes :
        /\ HasRead(byte, BITS)
        /\ call.at # 5 =>
             /\ Clocked /\ slave.sent = Append(transfer.received, byte) /\ "SDA" \notin holds
             /\ slave.mode = IF SclIsFree /\ call.byte = 1 THEN "idle" ELSE "acked"
             /\ call.at >= 2 => ("SDA" \in master <=> call.byte = 0)
        /\ call.at = 5 =>
             /\ "SCL" \in master
             /\ call.byte = 1 =>
                  slave.mode = "idle" /\ "SDA" \notin holds
                    /\ slave.sent = Append(transfer.received, byte)
             /\ call.byte = 0 => \E next \in BusBytes :
                  slave.sent = Append(Append(transfer.received, byte), next) /\ Sending(next, 1)
  BY <1>1 DEF Reading
<1>5. ASSUME call.at # 5, I2cBus!Goes
      PROVE  /\ call' = [call EXCEPT !.at = call.at + 1]
             /\ call'.at = call.at + 1 /\ call'.bit = BITS + 1 /\ call'.byte = call.byte
  <2>1. call' = [call EXCEPT !.at = call.at + 1]
    BY <1>1, <1>3, <1>5, GoesIs
  <2> QED BY <1>1, <2>1 DEF CallType
\* The answer goes on, as long as the slave has the program's.
<1>6. ASSUME call' = [call EXCEPT !.at = call.at + 1], call'.at = call.at + 1,
             call'.bit = BITS + 1, call'.byte = call.byte, call.at \in 1..3,
             UNCHANGED <<busStarted, read, transfer, internalTimeoutOccurred, holds>>,
             Clocked', "SDA" \in master' <=> call.byte = 0,
             slave' \in SlaveType, slave'.sent = slave.sent, slave'.got = slave.got,
             slave'.mode = IF SclIsFree' /\ call.byte = 1 THEN "idle" ELSE "acked"
      PROVE  InTime'
  <2>1. ReadingKnown'
    BY <1>2, <1>6 DEF ReadingKnown
  <2>2. HasRead(byte, BITS)'
    BY <1>4, <1>6 DEF HasRead
  <2>3. call'.at \in 1..4 /\ slave'.sent = Append(transfer'.received, byte) /\ "SDA" \notin holds'
    BY <1>4, <1>6
  <2>4. Reading'
    BY <1>6, <2>1, <2>2, <2>3 DEF Reading, ReadingKnown
  <2> QED BY <1>1, <1>6, <2>4, GoesOn DEF I2cTyped
<1>7. CASE call.at = 1
  <2>1. "SCL" \in master /\ slave.mode = "acked"
    BY <1>4, <1>7 DEF Clocked, SclIsFree
  <2>2. /\ I2cBus!Goes
        /\ UNCHANGED <<busStarted, read, transfer, internalTimeoutOccurred, busTimeoutOccurred>>
        /\ IF call.byte = 1 THEN I2cBus!Wires(master \ {"SDA"}, holds)
           ELSE I2cBus!Wires(master \cup {"SDA"}, holds)
    BY <1>1, <1>2, <1>3, <1>7, StepIs, PutIs DEF ReadingKnown
  <2>3. /\ slave' = slave /\ holds' = holds /\ "SCL" \in master'
        /\ master' = IF call.byte = 1 THEN master \ {"SDA"} ELSE master \cup {"SDA"}
    BY <2>1, <2>2, SclStaysLow
  <2>4. /\ call' = [call EXCEPT !.at = call.at + 1]
        /\ call'.at = 2 /\ call'.bit = BITS + 1 /\ call'.byte = call.byte
    BY <1>5, <1>7, <2>2
  <2>5. Clocked' /\ ~SclIsFree'
    BY <2>3, <2>4 DEF Clocked, SclIsFree
  <2>6. "SDA" \in master' <=> call.byte = 0
    BY <1>2, <2>3 DEF ReadingKnown
  <2>7. InTime'
    BY <1>1, <1>6, <1>7, <2>1, <2>2, <2>3, <2>4, <2>5, <2>6
  <2> QED BY <2>2, <2>3, <2>7 DEF WiresTyped, NoFalseStep
<1>8. CASE call.at = 2
  <2>1. "SCL" \in master /\ slave.mode = "acked" /\ ("SDA" \in master <=> call.byte = 0)
    BY <1>4, <1>8 DEF Clocked, SclIsFree
  <2>2. /\ I2cBus!Wires(master \ {"SCL"}, holds) /\ I2cBus!Goes
        /\ UNCHANGED <<busStarted, read, transfer, internalTimeoutOccurred, busTimeoutOccurred>>
    BY <1>1, <1>3, <1>8, StepIs
  <2>3. /\ master' = master \ {"SCL"} /\ holds' = holds
        /\ "SCL" \in holds => slave' = slave
        /\ "SCL" \notin holds => slave' = I2cBus!TakesBit(IF call.byte = 0 THEN 0 ELSE 1)
    BY <1>4, <1>8, <2>1, <2>2, MasterLetsSclGo
  <2>4. /\ call' = [call EXCEPT !.at = call.at + 1]
        /\ call'.at = 3 /\ call'.bit = BITS + 1 /\ call'.byte = call.byte
    BY <1>5, <1>8, <2>2
  <2>5. Clocked' /\ ("SCL" \notin holds <=> SclIsFree')
    BY <2>3, <2>4 DEF Clocked, SclIsFree
  <2>6. "SDA" \in master' <=> call.byte = 0
    BY <2>1, <2>3
  <2>7. /\ slave' \in SlaveType /\ slave'.sent = slave.sent /\ slave'.got = slave.got
        /\ slave'.mode = IF SclIsFree' /\ call.byte = 1 THEN "idle" ELSE "acked"
    <3>1. CASE "SCL" \in holds
      BY <1>1, <2>1, <2>3, <2>5, <3>1
    <3>2. CASE "SCL" \notin holds /\ call.byte = 0
      <4>1. slave' = slave
        BY <1>1, <2>1, <2>3, <3>2, SclRises
      <4> QED BY <1>1, <2>1, <3>2, <4>1
    <3>3. CASE "SCL" \notin holds /\ call.byte = 1
      <4>1. slave' = I2cBus!Idle /\ slave' \in SlaveType
        BY <1>1, <2>1, <2>3, <3>3, SclRises
      <4>2. slave'.mode = "idle" /\ slave'.sent = slave.sent /\ slave'.got = slave.got
        BY <1>1, <4>1 DEF I2cBus!Idle, SlaveType
      <4> QED BY <2>5, <3>3, <4>1, <4>2
    <3> QED BY <1>2, <3>1, <3>2, <3>3 DEF ReadingKnown
  <2>8. InTime'
    BY <1>6, <1>8, <2>2, <2>3, <2>4, <2>5, <2>6, <2>7
  <2>9. slave'.mode # "address" /\ call.name # "start"
    BY <2>7
  <2> QED BY <2>2, <2>3, <2>8, <2>9 DEF WiresTyped, NoFalseStep
<1>9. CASE call.at = 3
  <2>1. "SCL" \notin master /\ ("SDA" \in master <=> call.byte = 0)
    BY <1>4, <1>9 DEF Clocked
  <2>2. /\ "SCL" \notin holds /\ I2cBus!Goes
        /\ UNCHANGED <<master, holds, slave, busStarted, read, transfer, internalTimeoutOccurred,
                       busTimeoutOccurred>>
    BY <1>1, <1>3, <1>9, StepIs
  <2>3. /\ call' = [call EXCEPT !.at = call.at + 1]
        /\ call'.at = 4 /\ call'.bit = BITS + 1 /\ call'.byte = call.byte
    BY <1>5, <1>9, <2>2
  <2>4. Clocked' /\ SclIsFree'
    BY <2>1, <2>2, <2>3 DEF Clocked, SclIsFree
  <2>5. slave.mode = IF call.byte = 1 THEN "idle" ELSE "acked"
    BY <1>4, <1>9, <2>1, <2>2 DEF SclIsFree
  <2>6. InTime'
    BY <1>1, <1>6, <1>9, <2>1, <2>2, <2>3, <2>4, <2>5
  <2> QED BY <2>2, <2>6 DEF WiresTyped, NoFalseStep
<1>10. CASE call.at = 4
  <2>1. /\ SclIsFree /\ slave.sent = Append(transfer.received, byte) /\ "SDA" \notin holds
        /\ slave.mode = IF call.byte = 1 THEN "idle" ELSE "acked"
    BY <1>4, <1>10 DEF Clocked, SclIsFree
  <2>2. /\ I2cBus!Wires(master \cup {"SCL"}, holds) /\ I2cBus!Goes
        /\ UNCHANGED <<busStarted, read, transfer, internalTimeoutOccurred, busTimeoutOccurred>>
    BY <1>1, <1>3, <1>10, StepIs
  <2>3. PICK next \in I2cBus!SetsBit :
          /\ master' = master \cup {"SCL"} /\ holds' \subseteq {"SCL", "SDA"}
          /\ slave' = next.state /\ ("SDA" \in holds' <=> next.sda = 0)
    BY <2>1, <2>2, SclFalls
  <2>4. /\ call' = [call EXCEPT !.at = call.at + 1]
        /\ call'.at = 5 /\ call'.bit = BITS + 1 /\ call'.byte = call.byte
    BY <1>5, <1>10, <2>2
  <2>5. HasRead(byte, BITS)'
    BY <1>4, <2>2 DEF HasRead
  <2>6. Reading' /\ slave' \in SlaveType /\ slave'.mode # "address"
    <3>1. CASE call.byte = 1
      <4>1. next = [state |-> slave, sda |-> 1]
        BY <1>1, <2>1, <3>1, SlaveStays
      <4>2. slave' = slave /\ "SDA" \notin holds'
        BY <2>3, <4>1
      <4>3. ReadingKnown'
        BY <1>2, <2>2, <2>4, <4>2 DEF ReadingKnown
      <4>4. /\ "SCL" \in master' /\ slave'.mode = "idle" /\ call'.byte = 1
            /\ slave'.sent = Append(transfer'.received, byte)
        BY <2>1, <2>2, <2>3, <2>4, <3>1, <4>2
      <4>5. Reading'
        BY <2>4, <2>5, <4>2, <4>3, <4>4 DEF Reading, ReadingKnown
      <4> QED BY <1>1, <4>2, <4>4, <4>5
    <3>2. CASE call.byte = 0
      <4>1. Len(slave.sent) # MaxBytes
        <5>1. transfer.received \in Seq(BusBytes) /\ Len(transfer.received) < MaxBytes - 1
          BY <1>1, <1>2, <3>2 DEF ReadingKnown, TransferType
        <5>2. Len(Append(transfer.received, byte)) = Len(transfer.received) + 1
          BY <5>1, AppendProperties
        <5> QED BY <1>1, <2>1, <5>1, <5>2
      <4>2. slave.mode = "acked"
        BY <2>1, <3>2
      <4>3. /\ slave' \in SlaveType /\ slave'.mode = "send" /\ slave'.got = slave.got
            /\ \E more \in BusBytes : slave'.sent = Append(slave.sent, more) /\ Sending(more, 1)'
        BY <1>1, <2>3, <4>1, <4>2, NextByteIsShown
      <4>4. ReadingKnown'
        BY <1>2, <2>2, <2>4, <4>3 DEF ReadingKnown
      <4>5. /\ "SCL" \in master' /\ call'.byte = 0
            /\ \E more \in BusBytes :
                 slave'.sent = Append(Append(transfer'.received, byte), more) /\ Sending(more, 1)'
        BY <2>1, <2>2, <2>3, <2>4, <3>2, <4>3
      <4>6. Reading'
        <5>1. /\ call'.bit = BITS + 1 /\ call'.at = 5 /\ HasRead(byte, BITS)'
              /\ "SCL" \in master' /\ ~(call'.byte = 1)
          BY <2>4, <2>5, <4>5
        <5> QED BY <4>4, <4>5, <5>1, Zenon DEF Reading, ReadingKnown
      <4> QED BY <4>3, <4>6
    <3> QED BY <1>2, <3>1, <3>2 DEF ReadingKnown
  <2>7. InTime'
    BY <1>1, <2>2, <2>4, <2>6, GoesOn
  <2> QED BY <2>2, <2>3, <2>6, <2>7 DEF WiresTyped, NoFalseStep
<1>11. CASE call.at = 5
  <2>1. I2cBus!byteOf(read) = byte
    BY <1>1, <1>4, BitsMakeByte DEF HasRead
  <2>2. /\ transfer' = [transfer EXCEPT !.received = Append(@, I2cBus!byteOf(read)),
                                        !.mode = IF call.byte = 1 THEN "nacked" ELSE @]
        /\ I2cBus!Goes
        /\ UNCHANGED <<master, holds, slave, read, busStarted, internalTimeoutOccurred,
                       busTimeoutOccurred>>
    BY <1>1, <1>3, <1>11, StepIs
  <2>3. call' = I2cBus!NoCall
    <3>1. ~(call.bit <= BITS)
      BY <1>1
    <3>2. call.at = Len(I2cBus!Steps)
      BY <1>3, <1>11
    <3> QED BY <1>1, <2>2, <3>1, <3>2, GoesIs
  <2>4. Append(transfer.received, byte) \in Seq(BusBytes)
    BY <1>1, AppendProperties DEF TransferType
  <2>5. /\ transfer' \in TransferType /\ transfer'.sent = transfer.sent
        /\ transfer'.received = Append(transfer.received, byte)
        /\ transfer'.mode = IF call.byte = 1 THEN "nacked" ELSE "read"
    <3>1. transfer' = [transfer EXCEPT !.received = Append(transfer.received, byte),
                                       !.mode = IF call.byte = 1 THEN "nacked" ELSE transfer.mode]
      BY <2>1, <2>2
    <3>2. transfer.mode = "read"
      BY <1>2 DEF ReadingKnown
    <3> QED BY <1>1, <2>4, <3>1, <3>2 DEF TransferType
  <2>6. Agrees'
    <3>1. CASE call.byte = 1
      <4>1. slave.mode = "idle" /\ "SDA" \notin holds /\ slave.sent = Append(transfer.received, byte)
        BY <1>4, <1>11, <3>1
      <4> QED BY <1>2, <2>2, <2>5, <3>1, <4>1 DEF Agrees, ReadingKnown
    <3>2. CASE call.byte = 0
      <4>1. PICK next \in BusBytes :
              slave.sent = Append(Append(transfer.received, byte), next) /\ Sending(next, 1)
        BY <1>4, <1>11, <3>2
      <4>2. Sending(next, 1)'
        BY <2>2, <4>1 DEF Sending
      <4>3. \E more \in BusBytes :
              slave'.sent = Append(transfer'.received, more) /\ Sending(more, 1)'
        BY <2>2, <2>5, <4>1, <4>2
      <4>4. transfer'.mode = "read" /\ transfer'.sent # <<>> /\ slave'.got = transfer'.sent
        BY <1>2, <2>2, <2>5, <3>2 DEF ReadingKnown
      <4> QED BY <4>3, <4>4 DEF Agrees
    <3> QED BY <1>2, <3>1, <3>2 DEF ReadingKnown
  <2>7. busStarted' /\ "SCL" \in master' /\ transfer'.mode \in {"read", "nacked"}
    BY <1>2, <1>4, <1>11, <2>2, <2>5 DEF ReadingKnown
  <2>8. Resting'
    BY <2>6, <2>7 DEF Resting, ModeOK
  <2>9. InTime'
    BY <1>1, <2>2, <2>3, <2>5, <2>8 DEF InTime, I2cTyped, CallType, I2cBus!NoCall
  <2> QED BY <2>2, <2>9 DEF WiresTyped, NoFalseStep
<1> QED BY <1>2, <1>7, <1>8, <1>9, <1>10, <1>11

\* A call begins where the last one has ended.
LEMMA StartBegins ==
  ASSUME WiresTyped, InTime, ~busTimeoutOccurred, I2cBus!i2cStart
  PROVE  InTime'
<1>1. /\ I2cTyped /\ ~internalTimeoutOccurred /\ call = I2cBus!NoCall
      /\ transfer.mode \in {"none", "write", "nacked", "stopped"}
      /\ call' = I2cBus!At("start", 0) /\ read' = <<>>
      /\ UNCHANGED <<master, holds, slave, busStarted, internalTimeoutOccurred>>
      /\ transfer' = [mode |-> "address", sent |-> <<>>, received |-> <<>>]
  BY DEF InTime, I2cBus!i2cStart, I2cBus!Ends, I2cBus!Calls, I2cBus!NoTransfer
<1>2. Resting
  BY <1>1 DEF InTime, I2cBus!NoCall
<1>3. /\ call'.name = "start" /\ call'.bit = 1 /\ call'.at = 1 /\ call' \in CallType
  BY <1>1 DEF I2cBus!At, CallType
<1>4. transfer' \in TransferType /\ read' \in Seq({0, 1})
  BY <1>1 DEF TransferType
<1>5. /\ "SDA" \notin holds /\ slave.mode \in {"idle", "receive"}
  BY <1>1, <1>2 DEF Resting, Agrees
<1>6. /\ busStarted => "SCL" \in master
      /\ ~busStarted => master = {} /\ holds = {}
  BY <1>2 DEF Resting
<1>7. Starting'
  <2>1. CASE busStarted
    <3>1. StartAt' = 1
      BY <1>1, <1>3, <2>1 DEF StartAt
    <3> QED BY <1>1, <1>3, <1>5, <1>6, <2>1, <3>1 DEF Starting
  <2>2. CASE ~busStarted
    <3>1. StartAt' = 2
      BY <1>1, <1>3, <2>2 DEF StartAt
    <3> QED BY <1>1, <1>3, <1>5, <1>6, <2>2, <3>1 DEF Starting
  <2> QED BY <2>1, <2>2
<1> QED BY <1>1, <1>3, <1>4, <1>7 DEF InTime, I2cTyped

LEMMA StopBegins ==
  ASSUME WiresTyped, InTime, ~busTimeoutOccurred, I2cBus!i2cStop
  PROVE  InTime'
<1>1. /\ I2cTyped /\ ~internalTimeoutOccurred /\ call = I2cBus!NoCall
      /\ transfer.mode \in {"address", "write", "nacked"}
      /\ call' = I2cBus!At("stop", 0) /\ read' = <<>>
      /\ UNCHANGED <<master, holds, slave, busStarted, internalTimeoutOccurred>>
      /\ transfer' = [mode |-> "none", sent |-> <<>>, received |-> <<>>]
  BY DEF InTime, I2cBus!i2cStop, I2cBus!Ends, I2cBus!Calls, I2cBus!NoTransfer
<1>2. Resting
  BY <1>1 DEF InTime, I2cBus!NoCall
<1>3. /\ call'.name = "stop" /\ call'.bit = 1 /\ call'.at = 1 /\ call' \in CallType
  BY <1>1 DEF I2cBus!At, CallType
<1>4. transfer' \in TransferType /\ read' \in Seq({0, 1})
  BY <1>1 DEF TransferType
<1>5. /\ "SDA" \notin holds /\ slave.mode \in {"idle", "receive", "address"}
      /\ busStarted /\ "SCL" \in master
  BY <1>1, <1>2 DEF Resting, Agrees
<1>6. Stopping'
  BY <1>1, <1>3, <1>5 DEF Stopping, Clocked
<1> QED BY <1>1, <1>3, <1>4, <1>6 DEF InTime, I2cTyped

LEMMA WriteBegins ==
  ASSUME I2cAssumption, WiresTyped, InTime, NEW byte \in BusBytes, I2cBus!i2cWriteByte(byte)
  PROVE  InTime'
<1>1. /\ I2cTyped /\ call = I2cBus!NoCall /\ transfer.mode \in {"address", "write"}
      /\ call' = I2cBus!At("write", byte) /\ read' = <<>> /\ internalTimeoutOccurred' = FALSE
      /\ UNCHANGED <<master, holds, slave, busStarted>>
      /\ transfer' = [transfer EXCEPT !.sent = Append(@, byte),
           !.mode = IF @ = "address" /\ I2cBus!IsRead(byte) THEN "read" ELSE "write"]
  BY DEF InTime, I2cBus!i2cWriteByte, I2cBus!Calls
<1>2. Resting
  BY <1>1 DEF InTime, I2cBus!NoCall
<1>3. /\ call'.name = "write" /\ call'.bit = 1 /\ call'.at = 1 /\ call'.byte = byte
      /\ call' \in CallType
  BY <1>1 DEF I2cBus!At, CallType
<1>4. /\ transfer \in TransferType /\ slave \in SlaveType /\ transfer.sent \in Seq(BusBytes)
      /\ BITS \in Nat \ {0}
  BY <1>1 DEF I2cTyped, TransferType, I2cAssumption
<1>5. /\ Append(transfer.sent, byte) \in Seq(BusBytes) \ {<<>>}
      /\ transfer.sent = <<>> => Append(transfer.sent, byte)[1] = byte
      /\ transfer.sent # <<>> => Append(transfer.sent, byte)[1] = transfer.sent[1]
  <2>1. Append(transfer.sent, byte) \in Seq(BusBytes) \ {<<>>}
    BY <1>4, AppendProperties
  <2>2. transfer.sent = <<>> => Append(transfer.sent, byte)[1] = byte
    BY <1>4, AppendProperties
  <2>3. transfer.sent # <<>> => Append(transfer.sent, byte)[1] = transfer.sent[1]
    BY <1>4, AppendProperties
  <2> QED BY <2>1, <2>2, <2>3
<1>6. /\ transfer' \in TransferType /\ transfer'.sent = Append(transfer.sent, byte)
      /\ transfer'.received = transfer.received
      /\ transfer'.mode = IF transfer.mode = "address" /\ I2cBus!IsRead(byte)
                          THEN "read" ELSE "write"
  BY <1>1, <1>4, <1>5 DEF TransferType
<1>7. /\ slave.got = transfer.sent /\ slave.mode \in {"address", "receive"} /\ slave.bits = <<>>
      /\ slave.sent = <<>> /\ transfer.received = <<>> /\ "SDA" \notin holds
      /\ busStarted /\ "SCL" \in master
      /\ transfer.mode = "address" => transfer.sent = <<>>
      /\ transfer.mode = "write" => transfer.sent # <<>> /\ ~I2cBus!IsRead(transfer.sent[1])
  BY <1>1, <1>2 DEF Resting, Agrees, ModeOK
<1>8. ModeIsAsAddressed'
  BY <1>1, <1>5, <1>6, <1>7 DEF ModeIsAsAddressed
<1>9. TakingBit(call.bit)'
  <2>1. Taking(0)'
    BY <1>1, <1>3, <1>6, <1>7 DEF Taking
  <2>2. ~SclIsFree' /\ call'.bit - 1 = 0
    BY <1>1, <1>3, <1>7 DEF SclIsFree
  <2> QED BY <2>1, <2>2 DEF TakingBit, Taking
<1>10. /\ call'.byte \in BusBytes /\ busStarted' /\ transfer'.sent # <<>> /\ transfer'.received = <<>>
       /\ slave'.sent = <<>> /\ call'.bit \in 1..BITS /\ call'.at \in 1..4 /\ ~(call'.at >= 2)
       /\ read' = <<>>
  BY <1>1, <1>3, <1>4, <1>5, <1>6, <1>7
<1>11. Clocked'
  BY <1>1, <1>3, <1>7 DEF Clocked
<1>12. Writing'
  BY <1>8, <1>9, <1>10, <1>11 DEF Writing
<1>13. read' \in Seq({0, 1})
  BY <1>1
<1> QED BY <1>1, <1>3, <1>4, <1>6, <1>12, <1>13 DEF InTime, I2cTyped

LEMMA ReadBegins ==
  ASSUME I2cAssumption, WiresTyped, InTime, NEW nack \in {0, 1}, I2cBus!i2cReadByte(nack)
  PROVE  InTime'
<1>1. /\ I2cTyped /\ call = I2cBus!NoCall /\ transfer.mode = "read"
      /\ nack = 0 => Len(transfer.received) < MaxBytes - 1
      /\ call' = I2cBus!At("read", nack) /\ read' = <<>> /\ internalTimeoutOccurred' = FALSE
      /\ UNCHANGED <<master, holds, slave, busStarted, transfer>>
  BY DEF InTime, I2cBus!i2cReadByte, I2cBus!Calls
<1>2. Resting
  BY <1>1 DEF InTime, I2cBus!NoCall
<1>3. /\ call'.name = "read" /\ call'.bit = 1 /\ call'.at = 1 /\ call'.byte = nack
      /\ call' \in CallType
  BY <1>1 DEF I2cBus!At, CallType
<1>4. /\ transfer.sent # <<>> /\ slave.got = transfer.sent /\ busStarted /\ "SCL" \in master
  BY <1>1, <1>2 DEF Resting, Agrees
<1>5. PICK byte \in BusBytes : slave.sent = Append(transfer.received, byte) /\ Sending(byte, 1)
  BY <1>1, <1>2 DEF Resting, Agrees
<1>6. Sending(byte, call.bit)'
  BY <1>1, <1>3, <1>5 DEF Sending
<1>7. HasRead(byte, IF call.at = 5 THEN call.bit ELSE call.bit - 1)'
  BY <1>1, <1>3 DEF HasRead
<1>8. /\ call'.bit \in 1..BITS /\ call'.at \in 1..5 /\ ~(call'.at >= 2)
      /\ slave'.sent = Append(transfer'.received, byte)
  BY <1>1, <1>3, <1>5 DEF I2cAssumption
<1>9. ReadingKnown' /\ Clocked'
  BY <1>1, <1>3, <1>4 DEF ReadingKnown, Clocked
<1>10. Reading'
  BY <1>6, <1>7, <1>8, <1>9 DEF Reading, ReadingKnown
<1>11. read' \in Seq({0, 1})
  BY <1>1
<1> QED BY <1>1, <1>3, <1>10, <1>11 DEF InTime, I2cTyped

\* While the program holds SCL too, nothing is to be seen of it.
LEMMA LettingGoUnseen ==
  ASSUME WiresTyped, InTime, "SCL" \in master, holds' = holds \ {"SCL"},
         UNCHANGED <<master, slave, busStarted, internalTimeoutOccurred, call, read, transfer>>
  PROVE  InTime'
<1>1. /\ I2cTyped /\ ~internalTimeoutOccurred /\ I2cTyped' /\ ~internalTimeoutOccurred'
      /\ "SDA" \in holds' <=> "SDA" \in holds
      /\ "SCL" \notin holds'
      /\ ~SclIsFree /\ ~SclIsFree'
  BY DEF InTime, I2cTyped, SclIsFree
<1>2. \A byte, n : /\ Sending(byte, n)' <=> Sending(byte, n)
                   /\ HasRead(byte, n)' <=> HasRead(byte, n)
  BY <1>1 DEF Sending, HasRead
<1>3. Agrees => Agrees'
  BY <1>1, <1>2 DEF Agrees
<1>4. Clocked => Clocked'
  BY <1>1 DEF Clocked
<1>5. CASE call = I2cBus!NoCall /\ Resting
  <2>1. Resting'
    BY <1>3, <1>5 DEF Resting, ModeOK
  <2> QED BY <1>1, <1>5, <2>1 DEF InTime
<1>6. CASE call.name = "start" /\ call.bit = 1 /\ Starting
  <2>1. StartAt' = StartAt
    BY DEF StartAt
  <2>2. Starting'
    BY <1>1, <1>6, <2>1 DEF Starting, Fresh
  <2> QED BY <1>1, <1>6, <2>2 DEF InTime
<1>7. CASE call.name = "stop" /\ call.bit = 1 /\ Stopping
  <2>1. Stopping'
    BY <1>1, <1>3, <1>4, <1>7 DEF Stopping
  <2> QED BY <1>1, <1>7, <2>1 DEF InTime
<1>8. CASE call.name = "write" /\ Writing
  <2>1. TakingBit(call.bit) => TakingBit(call.bit)'
    BY <1>1 DEF TakingBit, Taking
  <2>2. Answers => Answers'
    BY <1>1 DEF Answers
  <2>3. ModeIsAsAddressed => ModeIsAsAddressed'
    BY DEF ModeIsAsAddressed
  <2>4. Writing'
    BY <1>1, <1>3, <1>4, <1>8, <2>1, <2>2, <2>3 DEF Writing
  <2> QED BY <1>1, <1>8, <2>4 DEF InTime
<1>9. CASE call.name = "read" /\ Reading
  <2>1. Reading'
    BY <1>1, <1>2, <1>4, <1>9 DEF Reading
  <2> QED BY <1>1, <1>9, <2>1 DEF InTime
<1> QED BY <1>5, <1>6, <1>7, <1>8, <1>9 DEF InTime

\* Else SCL rises, and every call is at its wait.
LEMMA LettingGoInStart ==
  ASSUME WiresTyped, InTime, "SCL" \notin master, "SCL" \in holds, I2cBus!SlaveLetsSclGo,
         call.name = "start", call.bit = 1, Starting
  PROVE  InTime' /\ NoFalseStep
<1>1. /\ I2cTyped /\ ~internalTimeoutOccurred /\ call.at \in Nat /\ busStarted \in BOOLEAN
      /\ slave \in SlaveType
  BY DEF InTime, I2cTyped, CallType, WiresTyped
<1>2. StartAt = 3
  <2>1. StartAt \in 1..6
    BY <1>1 DEF Starting, StartAt
  <2>2. StartAt \notin 4..5 /\ StartAt # 6 /\ ~(StartAt <= 2 /\ busStarted) /\ ~(StartAt = 2 /\ ~busStarted)
    BY DEF Starting
  <2>3. StartAt = 1 => busStarted
    BY <1>1 DEF Starting, StartAt
  <2> QED BY <1>1, <2>1, <2>2, <2>3
<1>3. /\ slave.mode \in {"idle", "receive"} /\ "SDA" \notin holds /\ "SDA" \notin master
      /\ transfer = [mode |-> "address", sent |-> <<>>, received |-> <<>>] /\ call.at >= 1
  BY <1>2 DEF Starting
<1>4. /\ master' = master /\ holds' = holds \ {"SCL"} /\ slave' = I2cBus!TakesBit(1)
      /\ UNCHANGED <<busStarted, internalTimeoutOccurred, call, read, transfer>>
  BY <1>3, SlaveLetsGo
<1>5. slave' \in SlaveType /\ slave'.mode = slave.mode
  BY <1>1, <1>3, <1>4, SclRises DEF SlaveType
<1>6. StartAt' = 3
  BY <1>2, <1>4 DEF StartAt
<1>7. Starting'
  BY <1>3, <1>4, <1>5, <1>6 DEF Starting
<1> QED BY <1>1, <1>3, <1>4, <1>5, <1>7 DEF InTime, I2cTyped, NoFalseStep

LEMMA LettingGoInStop ==
  ASSUME WiresTyped, InTime, "SCL" \notin master, "SCL" \in holds, I2cBus!SlaveLetsSclGo,
         call.name = "stop", call.bit = 1, Stopping
  PROVE  InTime' /\ NoFalseStep
<1>1. I2cTyped /\ ~internalTimeoutOccurred /\ slave \in SlaveType
  BY DEF InTime, I2cTyped
<1>2. /\ call.at = 3 /\ "SDA" \in master /\ "SDA" \notin holds /\ busStarted
      /\ transfer.mode \in {"none", "stopped"}
      /\ transfer.mode = "stopped" => slave.mode = "idle" /\ Agrees
      /\ slave.mode \in {"idle", "receive", "address"}
  BY DEF Stopping, Clocked
<1>3. /\ master' = master /\ holds' = holds \ {"SCL"} /\ slave' = I2cBus!TakesBit(0)
      /\ UNCHANGED <<busStarted, internalTimeoutOccurred, call, read, transfer>>
  BY <1>2, SlaveLetsGo
<1>4. /\ slave' \in SlaveType /\ slave'.mode = slave.mode
      /\ slave.mode = "idle" => slave' = slave
      /\ slave'.bits = <<>> => slave' = slave \/ slave'.mode # "address"
  BY <1>1, <1>2, <1>3, SclRises DEF SlaveType
<1>5. slave.mode = "idle" /\ Agrees => Agrees'
  BY <1>3, <1>4 DEF Agrees, Sending
<1>6. Stopping'
  BY <1>2, <1>3, <1>4, <1>5 DEF Stopping, Clocked
<1> QED BY <1>1, <1>3, <1>4, <1>6 DEF InTime, I2cTyped, NoFalseStep

LEMMA LettingGoInWrite ==
  ASSUME I2cAssumption, WiresTyped, InTime, "SCL" \notin master, "SCL" \in holds,
         I2cBus!SlaveLetsSclGo, call.name = "write", Writing
  PROVE  InTime' /\ NoFalseStep
<1>1. /\ I2cTyped /\ ~internalTimeoutOccurred /\ slave \in SlaveType /\ BITS \in Nat \ {0}
      /\ call \in CallType
  BY DEF InTime, I2cTyped, I2cAssumption
<1>2. /\ master' = master /\ holds' = holds \ {"SCL"}
      /\ slave' = I2cBus!TakesBit(IF "SDA" \in master \cup holds THEN 0 ELSE 1)
      /\ UNCHANGED <<busStarted, internalTimeoutOccurred, call, read, transfer>>
  BY SlaveLetsGo
<1>3. WritingKnown'
  BY <1>2 DEF Writing, WritingKnown, ModeIsAsAddressed
<1>4. call.at <= 5 /\ call.byte \in BusBytes /\ slave.sent = <<>>
  BY <1>1 DEF Writing
<1>5. CASE call.bit \in 1..BITS
  <2>1. PICK n \in 1..BITS : n = call.bit
    BY <1>5
  <2>2. PICK b \in {0, 1} : b = I2cBus!bitsOf(call.byte)[n]
    BY <1>4, BytesBits
  <2>3. /\ call.at = 3 /\ read = <<>> /\ TakingBit(n) /\ ("SDA" \in master <=> b = 0)
    BY <1>1, <1>5, <2>1, <2>2 DEF Writing, Clocked
  <2>4. Taking(n - 1)
    BY <2>3 DEF TakingBit, SclIsFree
  <2>5. "SDA" \notin holds /\ slave.mode \in {"address", "receive"}
    BY <2>4 DEF Taking
  <2>6. slave' = I2cBus!TakesBit(b)
    BY <1>2, <2>2, <2>3, <2>5
  <2>7. n \in Nat \ {0}
    BY <1>1
  <2>8. Taking(n)'
    BY <1>1, <1>2, <2>2, <2>4, <2>5, <2>6, <2>7, BitIsTaken
  <2>9. TakingBit(call.bit)' /\ Clocked'
    BY <1>2, <2>1, <2>3, <2>8 DEF TakingBit, Taking, SclIsFree, Clocked
  <2>10. /\ slave' \in SlaveType /\ slave'.sent = <<>>
         /\ slave'.bits = <<>> => slave' = slave
    BY <1>1, <1>4, <2>2, <2>5, <2>6, SclRises DEF SlaveType
  <2>11. Writing'
    BY <1>2, <1>3, <1>5, <2>1, <2>2, <2>3, <2>9, <2>10 DEF Writing, WritingKnown
  <2> QED BY <1>1, <1>2, <2>10, <2>11 DEF InTime, I2cTyped, NoFalseStep
<1>6. CASE call.bit = BITS + 1
  <2>1. call.at = 3 /\ read = <<>> /\ Answers /\ "SDA" \notin master
    BY <1>1, <1>4, <1>6 DEF Writing, Clocked
  <2>2. slave.mode \in {"ack", "idle"}
    BY <2>1 DEF Answers
  <2>3. slave' = slave
    BY <1>1, <1>2, <2>2, SclRises
  <2>4. Answers' /\ Clocked'
    BY <1>2, <2>1, <2>3 DEF Answers, Clocked
  <2>5. Writing'
    BY <1>2, <1>3, <1>4, <1>6, <2>1, <2>3, <2>4 DEF Writing, WritingKnown
  <2> QED BY <1>1, <1>2, <2>3, <2>5 DEF InTime, I2cTyped, NoFalseStep
<1> QED BY <1>5, <1>6 DEF Writing

LEMMA LettingGoInRead ==
  ASSUME I2cAssumption, WiresTyped, InTime, "SCL" \notin master, "SCL" \in holds,
         I2cBus!SlaveLetsSclGo, call.name = "read", Reading
  PROVE  InTime' /\ NoFalseStep
<1>1. /\ I2cTyped /\ ~internalTimeoutOccurred /\ slave \in SlaveType /\ BITS \in Nat \ {0}
  BY DEF InTime, I2cTyped, I2cAssumption
<1>2. /\ master' = master /\ holds' = holds \ {"SCL"}
      /\ slave' = I2cBus!TakesBit(IF "SDA" \in master \cup holds THEN 0 ELSE 1)
      /\ UNCHANGED <<busStarted, internalTimeoutOccurred, call, read, transfer>>
  BY SlaveLetsGo
<1>3. ReadingKnown
  BY DEF Reading, ReadingKnown
<1>4. \A byte, n : HasRead(byte, n)' <=> HasRead(byte, n)
  BY <1>2 DEF HasRead
<1>5. CASE call.bit \in 1..BITS
  <2>1. PICK byte \in BusBytes :
          /\ call.at \in 1..5 /\ Clocked
          /\ slave.sent = Append(transfer.received, byte)
          /\ Sending(byte, call.bit)
          /\ HasRead(byte, IF call.at = 5 THEN call.bit ELSE call.bit - 1)
          /\ call.at >= 2 => "SDA" \notin master
    BY <1>1, <1>5 DEF Reading
  <2>2. slave.mode = "send" /\ call.at = 3
    BY <2>1 DEF Sending, Clocked
  <2>3. slave' = slave
    BY <1>1, <1>2, <2>2, SclRises
  <2>4. /\ Sending(byte, call.bit)' /\ Clocked' /\ ReadingKnown'
        /\ HasRead(byte, IF call.at = 5 THEN call.bit ELSE call.bit - 1)'
    BY <1>2, <1>3, <1>4, <2>1, <2>2, <2>3 DEF Sending, Clocked, ReadingKnown, HasRead
  <2>5. Reading'
    BY <1>2, <1>5, <2>1, <2>2, <2>3, <2>4 DEF Reading, ReadingKnown
  <2> QED BY <1>1, <1>2, <2>3, <2>5 DEF InTime, I2cTyped, NoFalseStep
<1>6. CASE call.bit = BITS + 1
  <2>1. PICK byte \in BusBytes :
          /\ call.at \in 1..4 /\ Clocked
          /\ slave.sent = Append(transfer.received, byte)
          /\ HasRead(byte, BITS)
          /\ "SDA" \notin holds
          /\ slave.mode = IF SclIsFree /\ call.byte = 1 THEN "idle" ELSE "acked"
          /\ call.at >= 2 => ("SDA" \in master <=> call.byte = 0)
    BY <1>1, <1>6 DEF Reading
  <2>2. call.at = 3 /\ slave.mode = "acked" /\ ("SDA" \in master <=> call.byte = 0)
    BY <2>1 DEF Clocked, SclIsFree
  <2>3. slave' = I2cBus!TakesBit(IF call.byte = 0 THEN 0 ELSE 1)
    BY <1>2, <2>1, <2>2
  <2>4. /\ slave' \in SlaveType /\ slave'.sent = slave.sent /\ slave'.got = slave.got
        /\ slave'.mode = IF call.byte = 1 THEN "idle" ELSE "acked"
    <3>1. CASE call.byte = 0
      <4>1. slave' = slave
        BY <1>1, <2>2, <2>3, <3>1, SclRises
      <4> QED BY <1>1, <2>2, <3>1, <4>1
    <3>2. CASE call.byte = 1
      <4>1. slave' = I2cBus!Idle /\ slave' \in SlaveType
        BY <1>1, <2>2, <2>3, <3>2, SclRises
      <4>2. slave'.mode = "idle" /\ slave'.sent = slave.sent /\ slave'.got = slave.got
        BY <1>1, <4>1 DEF I2cBus!Idle, SlaveType
      <4> QED BY <3>2, <4>1, <4>2
    <3> QED BY <1>3, <3>1, <3>2 DEF ReadingKnown
  <2>5. SclIsFree' /\ Clocked' /\ ReadingKnown' /\ HasRead(byte, BITS)'
    BY <1>2, <1>3, <1>4, <2>1, <2>2, <2>4 DEF SclIsFree, Clocked, ReadingKnown
  <2>6. /\ call'.at \in 1..4 /\ call'.bit = BITS + 1 /\ "SDA" \notin holds'
        /\ slave'.sent = Append(transfer'.received, byte)
        /\ slave'.mode = IF SclIsFree' /\ call'.byte = 1 THEN "idle" ELSE "acked"
        /\ "SDA" \in master' <=> call'.byte = 0
    BY <1>2, <1>6, <2>1, <2>2, <2>4, <2>5
  <2>7. Reading'
    BY <2>5, <2>6 DEF Reading, ReadingKnown
  <2>8. slave'.mode # "address"
    BY <2>4
  <2> QED BY <1>1, <1>2, <2>4, <2>7, <2>8 DEF InTime, I2cTyped, NoFalseStep
<1> QED BY <1>5, <1>6 DEF Reading

LEMMA SlaveLetsGoInTime ==
  ASSUME I2cAssumption, WiresTyped, InTime, I2cBus!SlaveLetsSclGo
  PROVE  InTime' /\ NoFalseStep
<1>1. /\ holds' = holds \ {"SCL"} /\ "SCL" \in holds
      /\ "SCL" \in master => slave' = slave
      /\ UNCHANGED <<master, busStarted, internalTimeoutOccurred, call, read, transfer>>
  BY SlaveLetsGo
<1>2. CASE "SCL" \in master
  BY <1>1, <1>2, LettingGoUnseen DEF NoFalseStep
<1>3. CASE "SCL" \notin master
  <2>1. ~(call = I2cBus!NoCall /\ Resting)
    BY <1>1, <1>3 DEF Resting, WiresTyped
  <2> QED BY <1>1, <1>3, <2>1, LettingGoInStart, LettingGoInStop, LettingGoInWrite,
             LettingGoInRead DEF InTime
<1> QED BY <1>2, <1>3

-----------------------------------------------------------------------------
\* The invariant of the bus.

LEMMA I2cInvInit == I2cBus!Init => I2cInv
<1> SUFFICES ASSUME I2cBus!Init PROVE I2cInv
  OBVIOUS
<1>1. /\ master = {} /\ holds = {} /\ busStarted = FALSE /\ busTimeoutOccurred = FALSE
      /\ internalTimeoutOccurred = FALSE /\ call = I2cBus!NoCall /\ read = <<>>
      /\ slave = [mode |-> "idle", bits |-> <<>>, got |-> <<>>, sent |-> <<>>]
      /\ transfer = [mode |-> "none", sent |-> <<>>, received |-> <<>>]
  BY DEF I2cBus!Init, I2cBus!NoTransfer
<1>2. I2cTyped
  BY <1>1 DEF I2cTyped, CallType, SlaveType, TransferType, I2cBus!NoCall
<1>3. Resting
  BY <1>1 DEF Resting, Agrees, ModeOK
<1> QED BY <1>1, <1>2, <1>3 DEF I2cInv, InTime, WiresTyped

\* The wires stay wires, after a timeout too.
LEMMA WiresKeepType ==
  ASSUME WiresTyped, NEW m \in SUBSET {"SCL", "SDA"}, NEW h \in SUBSET {"SCL", "SDA"},
         I2cBus!Wires(m, h)
  PROVE  master' \subseteq {"SCL", "SDA"} /\ holds' \subseteq {"SCL", "SDA"}
<1>1. \/ holds' = h
      \/ \E next \in I2cBus!SetsBit, stretch \in {{}, {"SCL"}} :
           holds' = stretch \cup (IF next.sda = 0 THEN {"SDA"} ELSE {})
  BY DEF I2cBus!Wires
<1>2. master' = m
  BY DEF I2cBus!Wires
<1> QED BY <1>1, <1>2

LEMMA WiresTypedStep ==
  ASSUME WiresTyped, [I2cBus!Next]_(I2cBus!vars)
  PROVE  WiresTyped' /\ (busTimeoutOccurred => busTimeoutOccurred')
<1>1. CASE UNCHANGED I2cBus!vars
  BY <1>1 DEF WiresTyped, I2cBus!vars, I2cBus!flagVars
<1>2. CASE I2cBus!i2cStart
  BY <1>2 DEF WiresTyped, I2cBus!i2cStart, I2cBus!Calls
<1>3. CASE I2cBus!i2cStop
  BY <1>3 DEF WiresTyped, I2cBus!i2cStop, I2cBus!Calls
<1>4. ASSUME NEW byte \in BusBytes, I2cBus!i2cWriteByte(byte)
      PROVE  WiresTyped' /\ (busTimeoutOccurred => busTimeoutOccurred')
  BY <1>4 DEF WiresTyped, I2cBus!i2cWriteByte, I2cBus!Calls
<1>5. ASSUME NEW nack \in {0, 1}, I2cBus!i2cReadByte(nack)
      PROVE  WiresTyped' /\ (busTimeoutOccurred => busTimeoutOccurred')
  BY <1>5 DEF WiresTyped, I2cBus!i2cReadByte, I2cBus!Calls
<1>6. CASE I2cBus!MasterPin
  <2>1. \E m \in SUBSET {"SCL", "SDA"} : I2cBus!Wires(m, holds)
    <3>1. /\ master \ {"SDA"} \in SUBSET {"SCL", "SDA"} /\ master \cup {"SDA"} \in SUBSET {"SCL", "SDA"}
          /\ master \ {"SCL"} \in SUBSET {"SCL", "SDA"} /\ master \cup {"SCL"} \in SUBSET {"SCL", "SDA"}
      BY DEF WiresTyped
    <3> QED BY <1>6, <3>1 DEF I2cBus!MasterPin
  <2>2. master' \subseteq {"SCL", "SDA"} /\ holds' \subseteq {"SCL", "SDA"}
    BY <2>1, WiresKeepType DEF WiresTyped
  <2>3. UNCHANGED <<busStarted, busTimeoutOccurred, internalTimeoutOccurred>>
    BY <1>6 DEF I2cBus!MasterPin, I2cBus!flagVars
  <2> QED BY <2>2, <2>3 DEF WiresTyped
<1>7. CASE I2cBus!Sample
  BY <1>7 DEF WiresTyped, I2cBus!Sample, I2cBus!flagVars
<1>8. CASE I2cBus!SclIsHigh
  BY <1>8 DEF WiresTyped, I2cBus!SclIsHigh, I2cBus!flagVars
<1>9. CASE I2cBus!TimeIsUp
  BY <1>9 DEF WiresTyped, I2cBus!TimeIsUp
<1>10. CASE I2cBus!Returns
  BY <1>10 DEF WiresTyped, I2cBus!Returns
<1>11. CASE I2cBus!SlaveLetsSclGo
  BY <1>11, SlaveLetsGo DEF WiresTyped
<1> QED BY <1>1, <1>2, <1>3, <1>4, <1>5, <1>6, <1>7, <1>8, <1>9, <1>10, <1>11 DEF I2cBus!Next

\* A step of a call, whichever it is.
LEMMA CallGoesOn ==
  ASSUME I2cAssumption, WiresTyped, InTime, InStep
  PROVE  InTime' /\ NoFalseStep
<1>1. call # I2cBus!NoCall
  BY DEF InStep, I2cBus!MasterPin, I2cBus!Sample, I2cBus!SclIsHigh, I2cBus!Returns, I2cBus!Does
<1>2. CASE call.name = "start" /\ call.bit = 1 /\ Starting
  BY <1>2, StartGoesOn
<1>3. CASE call.name = "stop" /\ call.bit = 1 /\ Stopping
  BY <1>3, StopGoesOn
<1>4. CASE call.name = "write" /\ Writing
  <2>1. call.bit \in 1..BITS \/ call.bit = BITS + 1
    BY <1>4 DEF Writing
  <2> QED BY <1>4, <2>1, WriteBitGoesOn, WriteAnswerGoesOn
<1>5. CASE call.name = "read" /\ Reading
  <2>1. call.bit \in 1..BITS \/ call.bit = BITS + 1
    BY <1>5 DEF Reading
  <2> QED BY <1>5, <2>1, ReadBitGoesOn, ReadAnswerGoesOn
<1> QED BY <1>1, <1>2, <1>3, <1>4, <1>5 DEF InTime

LEMMA InTimeStep ==
  ASSUME I2cAssumption, WiresTyped, InTime, ~busTimeoutOccurred, I2cBus!Next
  PROVE  (busTimeoutOccurred' \/ InTime') /\ NoFalseStep
<1>1. CASE I2cBus!i2cStart
  <2>1. slave' = slave
    BY <1>1 DEF I2cBus!i2cStart, I2cBus!Calls
  <2> QED BY <1>1, <2>1, StartBegins DEF NoFalseStep
<1>2. CASE I2cBus!i2cStop
  <2>1. slave' = slave
    BY <1>2 DEF I2cBus!i2cStop, I2cBus!Calls
  <2> QED BY <1>2, <2>1, StopBegins DEF NoFalseStep
<1>3. ASSUME NEW byte \in BusBytes, I2cBus!i2cWriteByte(byte)
      PROVE  InTime' /\ NoFalseStep
  <2>1. slave' = slave
    BY <1>3 DEF I2cBus!i2cWriteByte, I2cBus!Calls
  <2> QED BY <1>3, <2>1, WriteBegins DEF NoFalseStep
<1>4. ASSUME NEW nack \in {0, 1}, I2cBus!i2cReadByte(nack)
      PROVE  InTime' /\ NoFalseStep
  <2>1. slave' = slave
    BY <1>4 DEF I2cBus!i2cReadByte, I2cBus!Calls
  <2> QED BY <1>4, <2>1, ReadBegins DEF NoFalseStep
<1>5. CASE InStep
  BY <1>5, CallGoesOn
<1>6. CASE I2cBus!TimeIsUp
  BY <1>6 DEF I2cBus!TimeIsUp, NoFalseStep
<1>7. CASE I2cBus!SlaveLetsSclGo
  BY <1>7, SlaveLetsGoInTime
<1> QED BY <1>1, <1>2, <1>3, <1>4, <1>5, <1>6, <1>7 DEF I2cBus!Next, InStep

LEMMA I2cInvStep == I2cInv /\ [I2cBus!Next]_(I2cBus!vars) => I2cInv'
<1> SUFFICES ASSUME I2cInv, [I2cBus!Next]_(I2cBus!vars) PROVE I2cInv'
  OBVIOUS
<1>1. WiresTyped' /\ (busTimeoutOccurred => busTimeoutOccurred')
  BY WiresTypedStep DEF I2cInv
<1>2. CASE UNCHANGED I2cBus!vars
  <2>1. UNCHANGED <<master, holds, busStarted, busTimeoutOccurred, internalTimeoutOccurred, call,
                    read, slave, transfer>>
    BY <1>2 DEF I2cBus!vars, I2cBus!flagVars
  <2>2. \A byte, n : /\ Sending(byte, n)' <=> Sending(byte, n)
                     /\ HasRead(byte, n)' <=> HasRead(byte, n)
    BY <2>1 DEF Sending, HasRead
  <2>3. /\ Agrees' <=> Agrees
        /\ Clocked' <=> Clocked
        /\ SclIsFree' <=> SclIsFree
    BY <2>1, <2>2 DEF Agrees, Clocked, SclIsFree
  <2>4. Resting => Resting'
    BY <2>1, <2>3 DEF Resting, ModeOK
  <2>5. Starting => Starting'
    BY <2>1 DEF Starting, StartAt, Fresh
  <2>6. Stopping => Stopping'
    BY <2>1, <2>3 DEF Stopping
  <2>7. Writing => Writing'
    BY <2>1, <2>3 DEF Writing, ModeIsAsAddressed, TakingBit, Taking, Answers
  <2>8. Reading => Reading'
    BY <2>1, <2>2, <2>3 DEF Reading
  <2> QED BY <2>1, <2>4, <2>5, <2>6, <2>7, <2>8 DEF I2cInv, WiresTyped, InTime, I2cTyped
<1>3. CASE I2cBus!Next
  BY <1>1, <1>3, InTimeStep, I2cAssumption DEF I2cInv
<1> QED BY <1>2, <1>3

LEMMA BytesHaveArrived == I2cInv => I2cBus!BytesArrive
<1> SUFFICES ASSUME I2cInv, call = I2cBus!NoCall, transfer.mode # "none", ~busTimeoutOccurred
             PROVE  /\ slave.got = transfer.sent
                    /\ slave.mode = "idle" <=> transfer.mode \in {"stopped", "nacked"}
                    /\ transfer.received = IF transfer.mode = "read" THEN I2cBus!Front(slave.sent)
                                           ELSE slave.sent
  BY DEF I2cBus!BytesArrive
<1>1. I2cTyped /\ Resting
  BY DEF I2cInv, InTime, I2cBus!NoCall
<1>2. /\ transfer.mode \in {"address", "write", "read", "stopped", "nacked"}
      /\ transfer.received \in Seq(BusBytes)
  BY <1>1 DEF I2cTyped, TransferType
<1>3. slave.got = transfer.sent
  BY <1>1 DEF Resting, Agrees
<1>4. slave.mode = "idle" <=> transfer.mode \in {"stopped", "nacked"}
  BY <1>1, <1>2 DEF Resting, Agrees, Sending
<1>5. CASE transfer.mode = "read"
  <2>1. PICK byte \in BusBytes : slave.sent = Append(transfer.received, byte)
    BY <1>1, <1>5 DEF Resting, Agrees
  <2> DEFINE r == transfer.received
             s == Append(r, byte)
  <2>2. r \in Seq(BusBytes) /\ s \in Seq(BusBytes) /\ Len(s) = Len(r) + 1
    BY <1>2, AppendProperties
  <2>3. \A i \in 1..Len(r) : s[i] = r[i]
    BY <1>2, AppendProperties
  <2> HIDE DEF r, s
  <2>4. SubSeq(s, 1, Len(r)) = r
    <3>1. /\ SubSeq(s, 1, Len(r)) \in Seq(BusBytes)
          /\ Len(SubSeq(s, 1, Len(r))) = Len(r)
          /\ \A i \in 1..Len(r) : SubSeq(s, 1, Len(r))[i] = s[i]
      BY <2>2
    <3> QED BY <2>2, <2>3, <3>1, SeqEqual
  <2>5. Len(s) - 1 = Len(r)
    BY <2>2
  <2>6. I2cBus!Front(s) = r
    BY <2>4, <2>5 DEF I2cBus!Front
  <2> QED BY <1>3, <1>4, <1>5, <2>1, <2>6 DEF r, s
<1>6. CASE transfer.mode # "read"
  BY <1>1, <1>2, <1>3, <1>4, <1>6 DEF Resting, Agrees
<1> QED BY <1>5, <1>6

LEMMA NoStartIsFalse ==
  ASSUME I2cInv, [I2cBus!Next]_(I2cBus!vars)
  PROVE  [/\ slave'.mode = "address" /\ slave'.got = <<>> /\ slave'.bits = <<>> /\ slave' # slave
               => call.name = "start" \/ busTimeoutOccurred
          /\ slave'.mode = "idle" /\ slave.mode # "idle" /\ call.name = "start"
               => busTimeoutOccurred]_(I2cBus!vars)
<1>1. CASE I2cBus!Next /\ ~busTimeoutOccurred
  <2>1. NoFalseStep
    BY <1>1, InTimeStep, I2cAssumption DEF I2cInv
  <2> QED BY <2>1 DEF NoFalseStep
<1>2. CASE busTimeoutOccurred
  BY <1>2
<1> QED BY <1>1, <1>2

\* Every byte crosses the two wires whole, and the slave sees no START or STOP
\* that the program does not make, until a wait for SCL has timed out (i2c.c).
THEOREM I2cTransfersStayWhole == AppsSpec => I2cTransfersAreWhole
<1>1. AppsInit => I2cInv
  BY I2cInvInit DEF AppsInit
<1>2. I2cInv /\ [AppsNext]_appsVars => I2cInv'
  BY I2cInvStep, StepsAreOfTheirProgram
<1>3. I2cInv /\ [AppsNext]_appsVars =>
        [/\ slave'.mode = "address" /\ slave'.got = <<>> /\ slave'.bits = <<>> /\ slave' # slave
              => call.name = "start" \/ busTimeoutOccurred
         /\ slave'.mode = "idle" /\ slave.mode # "idle" /\ call.name = "start"
              => busTimeoutOccurred]_(I2cBus!vars)
  BY NoStartIsFalse, StepsAreOfTheirProgram
<1> QED BY <1>1, <1>2, <1>3, BytesHaveArrived, PTL
        DEF AppsSpec, I2cTransfersAreWhole, I2cBus!NoFalseStart
=============================================================================

---------------------------- MODULE MultiChannel ----------------------------
(***************************************************************************)
(* apps/wireless_serial_multichannel: one Wixel repeats every batch of     *)
(* bytes from USB on a list of radio channels, gives up on a channel whose *)
(* Wixel does not answer, and tries dead channels again from time to time. *)
(* The main loop is modelled call by call, with the part of radio_com and  *)
(* radio_link it uses reduced to the numbers of packets and bytes they     *)
(* hold; between any two calls the radio interrupt may see an ACK.         *)
(***************************************************************************)
EXTENDS Integers

CONSTANTS
  lastChannelIndex,          \* 15 in the code
  MAX_CHANNEL_CHANGE_TRIES,  \* 254
  RADIO_LINK_PAYLOAD_SIZE,   \* 18
  TX_QUEUE_THRESHOLD,        \* 1
  TxCapacity,                \* packets radio_link queues: 15
  UINT8,                     \* number of values of a uint8: 256
  BatchSizes,                \* numbers of bytes found at once in the USB
                             \* buffer, up to MAX_TX_BYTES (18)
  MaxResets                  \* bound: Reset packets received from peers

ASSUME SizeAssumption ==
  /\ lastChannelIndex \in Nat \ {0} /\ lastChannelIndex < UINT8
  /\ MAX_CHANNEL_CHANGE_TRIES \in Nat /\ MAX_CHANNEL_CHANGE_TRIES + 1 < UINT8
  /\ RADIO_LINK_PAYLOAD_SIZE \in Nat \ {0} /\ TX_QUEUE_THRESHOLD \in Nat
  /\ TxCapacity \in Nat \ {0, 1} /\ UINT8 \in Nat
  /\ BatchSizes \subseteq Nat \ {0} /\ MaxResets \in Nat

Channels == 0 .. lastChannelIndex

VARIABLES
  pc,                 \* where the main loop is: "txService", "usbToRadio", "fill"
  sendingState,       \* 0 default, 1 push data, 2 change channel
  channelCounter,     \* channel to send on next
  deadchannelCounter,
  channelStates,      \* the set of live channels
  rollover, channelChangeTries,
  numTempBytes, byteCounter,
  heartbeatDue,       \* HEARTBEAT_TIME has passed since lastTime
  channel,            \* CHANNR, as an index into channelList
  txQueued,           \* radioLinkTxQueued
  txBytesLoaded,      \* radio_com's packet that is being filled
  resetReceived,      \* radioLinkResetPacketReceived
  resets,             \* Reset packets received so far
  served              \* channels the current batch has been sent on

radioVars == <<txQueued, txBytesLoaded, resetReceived, resets>>
listVars == <<channelCounter, deadchannelCounter, channelStates, rollover,
              channelChangeTries, channel>>
batchVars == <<sendingState, numTempBytes, byteCounter, served>>
vars == <<pc, heartbeatDue, radioVars, listVars, batchVars>>

\* lastTime is 0, and before the first Reset the radio has heard nobody.
Init == /\ pc = "txService" /\ sendingState = 0
        /\ channelCounter = 0 /\ deadchannelCounter = 255 % UINT8
        /\ channelStates = Channels
        /\ rollover = FALSE /\ channelChangeTries = 0
        /\ numTempBytes = 0 /\ byteCounter = 0
        /\ heartbeatDue = FALSE /\ channel = 0
        /\ txQueued = 0 /\ txBytesLoaded = 0
        /\ resetReceived = FALSE /\ resets = 0 /\ served = {}

------------------------------------------------------------------------------
(* radio_com and radio_link *)

\* radioComTxService.  There is always room for the signals: the queue holds
\* one batch and at most MaxResets packets of signals.
RadioComTxService ==
  /\ pc = "txService" /\ pc' = "usbToRadio"
  /\ LET data == IF txBytesLoaded # 0 THEN 1 ELSE 0
         flush == resetReceived \/ txQueued <= TX_QUEUE_THRESHOLD
     IN /\ txQueued' = txQueued + (IF flush THEN data ELSE 0)
                                + (IF resetReceived THEN 1 ELSE 0)
        /\ txBytesLoaded' = IF flush THEN 0 ELSE txBytesLoaded
  /\ resetReceived' = FALSE
  /\ UNCHANGED <<resets, heartbeatDue, listVars, batchVars>>

RadioComTxAvailable ==
  ((TxCapacity - txQueued) * RADIO_LINK_PAYLOAD_SIZE - txBytesLoaded) % UINT8

\* The Wixel on the channel acknowledges a packet, or nobody does.
PacketIsAcked == /\ txQueued > 0 /\ txQueued' = txQueued - 1
                 /\ UNCHANGED <<pc, txBytesLoaded, resetReceived, resets,
                                heartbeatDue, listVars, batchVars>>

ResetIsReceived == /\ resets < MaxResets /\ resets' = resets + 1
                   /\ resetReceived' = TRUE
                   /\ UNCHANGED <<pc, txQueued, txBytesLoaded, heartbeatDue,
                                  listVars, batchVars>>

HeartbeatTimePasses == /\ ~heartbeatDue /\ heartbeatDue' = TRUE
                       /\ UNCHANGED <<pc, radioVars, listVars, batchVars>>

------------------------------------------------------------------------------
(* usbToRadioService *)

OneUp(c) == LET up == (c + 1) % UINT8 IN IF up > lastChannelIndex THEN 0 ELSE up

\* Mutant: the heartbeat looks at channel 0 only.
NextDeadChannelZero == 0

\* The heartbeat meant to skip live channels, but "== !0x0" is true of
\* channel 0 only.
NextDeadChannel ==
  LET c == OneUp(deadchannelCounter)
  IN IF c = 0 /\ 0 \in channelStates THEN OneUp(c) ELSE c

HeartbeatRuns == heartbeatDue /\ channelStates # Channels
Revived == IF HeartbeatRuns THEN channelStates \cup {NextDeadChannel}
           ELSE channelStates

\* The heartbeat in front of everything usbToRadioService does.
Heartbeat == /\ pc = "usbToRadio"
             /\ heartbeatDue' = FALSE
             /\ deadchannelCounter' = IF HeartbeatRuns THEN NextDeadChannel
                                      ELSE deadchannelCounter

\* Default state: copy what the USB buffer holds, if anything.
CopyBatch ==
  /\ Heartbeat /\ sendingState = 0
  /\ channelStates' = Revived
  /\ \E size \in BatchSizes : numTempBytes' = size
  /\ sendingState' = 1
  /\ served' = {}
  /\ pc' = "txService"
  /\ UNCHANGED <<byteCounter, channelCounter, rollover, channelChangeTries,
                 channel, radioVars>>

NothingToCopy ==
  /\ Heartbeat /\ sendingState = 0
  /\ channelStates' = Revived
  /\ pc' = "txService"
  /\ UNCHANGED <<batchVars, channelCounter, rollover, channelChangeTries,
                 channel, radioVars>>

\* Sending state: the loop over tempData begins.
BeginSending ==
  /\ Heartbeat /\ sendingState = 1
  /\ channelStates' = Revived
  /\ byteCounter' = 0
  /\ served' = served \cup {channel}
  /\ pc' = "fill"
  /\ UNCHANGED <<sendingState, numTempBytes, channelCounter, rollover,
                 channelChangeTries, channel, radioVars>>

MoreToSend == RadioComTxAvailable # 0 /\ byteCounter < numTempBytes

SendByte ==
  /\ pc = "fill" /\ MoreToSend
  /\ byteCounter' = byteCounter + 1
  /\ IF txBytesLoaded + 1 = RADIO_LINK_PAYLOAD_SIZE
     THEN txBytesLoaded' = 0 /\ txQueued' = txQueued + 1
     ELSE txBytesLoaded' = txBytesLoaded + 1 /\ UNCHANGED txQueued
  /\ UNCHANGED <<pc, heartbeatDue, resetReceived, resets, listVars,
                 sendingState, numTempBytes, served>>

\* findNextChannel: the next live channel, and whether the list was wrapped
\* around.  With no live channel at all the counter does not move.
LiveAfter == {c \in channelStates : c > channelCounter}
Lowest(S) == CHOOSE c \in S : \A d \in S : c <= d

\* Mutant: the end of the list is not noticed.
FindNextChannelNoRollover ==
  /\ channelCounter' = IF LiveAfter # {} THEN Lowest(LiveAfter)
                       ELSE IF channelStates # {} THEN Lowest(channelStates)
                       ELSE channelCounter
  /\ UNCHANGED rollover

FindNextChannel ==
  /\ channelCounter' = IF LiveAfter # {} THEN Lowest(LiveAfter)
                       ELSE IF channelStates # {} THEN Lowest(channelStates)
                       ELSE channelCounter
  /\ rollover' = (rollover \/ (LiveAfter = {} /\ channelStates # {}))

\* The state findNextChannel chose is overwritten.
EndSending ==
  /\ pc = "fill" /\ ~MoreToSend
  /\ FindNextChannel
  /\ sendingState' = 2
  /\ byteCounter' = 0
  /\ pc' = "txService"
  /\ UNCHANGED <<heartbeatDue, radioVars, deadchannelCounter, channelStates,
                 channelChangeTries, channel, numTempBytes, served>>

\* Change channel state, the buffer is clear: radioLinkChangeChannel.
ChangeChannel ==
  /\ Heartbeat /\ sendingState = 2 /\ txQueued = 0
  /\ channelStates' = Revived
  /\ channel' = channelCounter
  /\ channelChangeTries' = 0
  /\ rollover' = FALSE
  /\ sendingState' = IF rollover THEN 0 ELSE 1
  /\ pc' = "txService"
  /\ UNCHANGED <<channelCounter, numTempBytes, byteCounter, served, radioVars>>

ClearsQueue == channelChangeTries' > MAX_CHANNEL_CHANGE_TRIES

\* ... or not.  After too many tries a channel is dropped and the queue is
\* cleared.  With channelCounter = 0 the shift by -1 drops nothing.
WaitForQueue ==
  /\ Heartbeat /\ sendingState = 2 /\ txQueued # 0
  /\ channelChangeTries' = (channelChangeTries + 1) % UINT8
  /\ channelStates' = IF channelChangeTries' > MAX_CHANNEL_CHANGE_TRIES
                      THEN Revived \ {channelCounter - 1} ELSE Revived
  /\ txQueued' = IF ClearsQueue THEN 0 ELSE txQueued
  /\ pc' = "txService"
  /\ UNCHANGED <<channelCounter, rollover, channel, txBytesLoaded,
                 resetReceived, resets, batchVars>>

UsbToRadioService == \/ CopyBatch \/ NothingToCopy \/ BeginSending \/ SendByte
                     \/ EndSending \/ ChangeChannel \/ WaitForQueue

Next == \/ RadioComTxService \/ UsbToRadioService
        \/ PacketIsAcked \/ ResetIsReceived \/ HeartbeatTimePasses

Spec == Init /\ [][Next]_vars

------------------------------------------------------------------------------
(* Properties *)

\* Type correctness; the queue never outgrows radio_link's buffers.
TypeOK ==
  /\ pc \in {"txService", "usbToRadio", "fill"} /\ sendingState \in 0 .. 2
  /\ channelCounter \in Channels /\ channel \in Channels
  /\ deadchannelCounter \in 0 .. UINT8 - 1
  /\ channelStates \subseteq Channels /\ served \subseteq Channels
  /\ rollover \in BOOLEAN /\ heartbeatDue \in BOOLEAN /\ resetReceived \in BOOLEAN
  /\ channelChangeTries \in 0 .. UINT8 - 1
  /\ numTempBytes \in BatchSizes \cup {0} /\ byteCounter \in 0 .. numTempBytes
  /\ txQueued \in 0 .. TxCapacity
  /\ txBytesLoaded \in 0 .. RADIO_LINK_PAYLOAD_SIZE - 1
  /\ resets \in 0 .. MaxResets

\* A batch goes out at most once on each channel ("repeat. After every
\* channel has been dealt with, we return to default state").
OncePerChannel == [][pc = "usbToRadio" /\ pc' = "fill" => channel \notin served]_vars

\* "Given MAX_TX_BYTES < size of the TX buffer, we'd never expect
\* radioComTxAvailable to be false": every channel gets the whole batch.
WholeBatch == [][pc = "fill" /\ pc' # "fill" => byteCounter = numTempBytes]_vars

\* "Whenever a Wixel is not responsive it joins a list of dead channels."
TimedOutIsDropped ==
  [][channelChangeTries' > MAX_CHANNEL_CHANGE_TRIES
       /\ channelChangeTries' # channelChangeTries
       => channel \notin channelStates']_vars

\* "Every HEARTBEAT_TIME, the next dead channel in the list is attempted
\* once": a heartbeat brings one back.
HeartbeatRevives ==
  [][heartbeatDue /\ ~heartbeatDue' /\ sendingState # 2 /\ channelStates # Channels
       => channelStates' # channelStates]_vars

\* "Push the data to the TX buffer, wait for it to clear, and then change
\* the channel": no byte meant for one channel is sent on another.
ChannelsAreApart == [][channel' # channel => txQueued = 0 /\ txBytesLoaded = 0]_vars

------------------------------------------------------------------------------
(* Liveness: the main loop runs and time passes.  Nothing is assumed of the *)
(* Wixels at the other end.                                                *)

Fairness == /\ WF_vars(RadioComTxService \/ UsbToRadioService)
            /\ WF_vars(HeartbeatTimePasses)

FairSpec == Spec /\ Fairness

\* "A timeout on clearing the TX buffer means we move on eventually even if
\* the wixel on the other end is not responsive."
RoundEnds == sendingState # 0 ~> sendingState = 0

\* The heartbeat comes round to every dead channel, although it does not skip
\* the live ones ("the next dead channel in the list is attempted").  This is
\* the visit: whether it revives the channel is up to the Wixel there.
DeadIsReached ==
  \A c \in Channels :
    c \notin channelStates ~> c \in channelStates \/ deadchannelCounter = c

=============================================================================

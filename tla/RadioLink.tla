------------------------------ MODULE RadioLink ------------------------------
(***************************************************************************)
(* Two Wixels that run libraries/src/radio_link over libraries/src/        *)
(* radio_mac on one channel: the queues, flags and sequence bits of        *)
(* radio_link.c, the RF interrupt and the strobe of radio_mac.c, the main  *)
(* loops that call the library, and the radio between them, which loses,   *)
(* corrupts and drowns packets in noise.                                   *)
(*                                                                         *)
(* The RF interrupt runs to completion, so each of its activations is one  *)
(* action.  The main loop is interrupted anywhere, so radioLinkTxSendPacket*)
(* is three: advance the index, set the strobe bit, raise the interrupt.   *)
(***************************************************************************)
EXTENDS Integers, Ring

CONSTANTS
  Node,               \* the two Wixels
  TX_PACKET_COUNT,    \* number of TX buffers (16 in the code)
  RX_PACKET_COUNT,    \* number of RX buffers (3 in the code)
  MAX_TRIES,          \* where radioLinkTxCurrentPacketTries saturates (255)
  LONG_TRIES,         \* above it randomTxDelay() backs off (200)
  MaxPackets,         \* bound: data packets node n queues between restarts
  MaxBoots,           \* bound: number of times node n starts up
  MaxQueueResets,     \* bound: calls of radioLinkTxQueueReset in one run
  Corruption,         \* TRUE if the radio delivers packets with a bad CRC
  WaitForConnection   \* TRUE if the program queues a packet only when
                      \* radioLinkConnected() returns 1

ASSUME NodeAssumption == \E x, y \in Node : x # y /\ Node = {x, y}
ASSUME CountAssumption ==
  /\ TX_PACKET_COUNT \in Nat /\ TX_PACKET_COUNT > 1
  /\ RX_PACKET_COUNT \in Nat /\ RX_PACKET_COUNT > 1
ASSUME TriesAssumption ==
  /\ MAX_TRIES \in Nat /\ LONG_TRIES \in Nat /\ LONG_TRIES < MAX_TRIES
ASSUME BoundAssumption ==
  /\ MaxPackets \in [Node -> Nat] /\ MaxBoots \in [Node -> Nat \ {0}]
  /\ MaxQueueResets \in Nat
  /\ Corruption \in BOOLEAN /\ WaitForConnection \in BOOLEAN

Peer(n) == CHOOSE m \in Node : m # n

\* A data packet is identified by the life of its sender and its number in
\* that life; NoData is the payload of a packet that is only a header.
Payload == [boot : Nat, num : Nat]
NoData == [boot |-> 0, num |-> 0]

PacketType == {"PING", "NAK", "ACK", "RESET"}
Packet == [type : PacketType, seq : {0, 1}, data : Payload]
NoPacket == [type |-> "PING", seq |-> 0, data |-> NoData]

\* shortTxPacket: a header byte without data; its sequence bit is 0.
ShortPacket(t) == [type |-> t, seq |-> 0, data |-> NoData]

VARIABLES
  \* radio_mac.c and the radio hardware
  radio,      \* "off", "tx", or in RX: "listen" (no packet on the air),
              \* "sync" (start of frame seen), "good" or "bad" (packet done)
  rxTimeout,  \* MCSM2 and WOREVT1: "none", "short" (below 10) or "long"
  air,        \* air[n]: what n transmits while radio[n] = "tx"
  strobe,     \* the strobe bit
  s1con,      \* S1CON was set by radioMacStrobe: the interrupt is pending
  \* radio_link.c
  rxPacket, rxMainLoopIndex, rxInterruptIndex,
  txPacket, txMainLoopIndex, txInterruptIndex,
  currentPacketTries, sendingReset, acceptAnySequenceBit,
  rxSequenceBit, txSequenceBit, resetPacketReceived,
  \* the main loop
  pc,         \* "idle", or inside radioMacStrobe: "strobe", "irq"
  queueResets,
  \* what the properties talk about
  boots,      \* boots[n]: number of times n has started up
  nSent,      \* nSent[n]: packets queued since then
  erased,     \* erased[n]: those radioLinkTxQueueReset had seen at its last call
  lastAcc,    \* lastAcc[n]: number of the last packet n accepted of those
              \* its peer queued since the peer's last start
  lastIn,     \* lastIn[n]: the last packet n accepted since its own start
  taken       \* taken[n]: the last packet n's main loop read since then

macVars == <<radio, rxTimeout, air, strobe, s1con>>
rxVars == <<rxPacket, rxMainLoopIndex, rxInterruptIndex>>
txVars == <<txPacket, txMainLoopIndex, txInterruptIndex>>
seqVars == <<sendingReset, acceptAnySequenceBit, rxSequenceBit,
             txSequenceBit, resetPacketReceived>>
appVars == <<pc, queueResets, boots, nSent, erased>>
histVars == <<lastAcc, lastIn, taken>>
vars == <<macVars, rxVars, txVars, seqVars, currentPacketTries, appVars,
          histVars>>

------------------------------------------------------------------------------
(* Ring buffers *)

NextTx(i) == Succ(TX_PACKET_COUNT, i)
NextRx(i) == Succ(RX_PACKET_COUNT, i)

TxQueued(n) == Ahead(TX_PACKET_COUNT, txInterruptIndex[n], txMainLoopIndex[n])
TxAvailable(n) == TX_PACKET_COUNT - 1 - TxQueued(n)

------------------------------------------------------------------------------
(* radioLinkInit, after which radioMacStrobe has asked for the interrupt *)

Init ==
  /\ radio = [n \in Node |-> "off"]
  /\ rxTimeout = [n \in Node |-> "none"]
  /\ air = [n \in Node |-> NoPacket]
  /\ strobe = [n \in Node |-> TRUE]
  /\ s1con = [n \in Node |-> TRUE]
  /\ rxPacket = [n \in Node |-> [i \in 0 .. RX_PACKET_COUNT - 1 |-> NoPacket]]
  /\ rxMainLoopIndex = [n \in Node |-> 0]
  /\ rxInterruptIndex = [n \in Node |-> 0]
  /\ txPacket = [n \in Node |-> [i \in 0 .. TX_PACKET_COUNT - 1 |-> NoData]]
  /\ txMainLoopIndex = [n \in Node |-> 0]
  /\ txInterruptIndex = [n \in Node |-> 0]
  /\ currentPacketTries = [n \in Node |-> 0]
  /\ sendingReset = [n \in Node |-> TRUE]
  /\ acceptAnySequenceBit = [n \in Node |-> TRUE]
  /\ rxSequenceBit = [n \in Node |-> 1]
  /\ txSequenceBit = [n \in Node |-> 0]
  /\ resetPacketReceived = [n \in Node |-> FALSE]
  /\ pc = [n \in Node |-> "idle"]
  /\ queueResets = 0
  /\ boots = [n \in Node |-> 1]
  /\ nSent = [n \in Node |-> 0]
  /\ erased = [n \in Node |-> 0]
  /\ lastAcc = [n \in Node |-> 0]
  /\ lastIn = [n \in Node |-> NoData]
  /\ taken = [n \in Node |-> NoData]

------------------------------------------------------------------------------
(* The main loop *)

\* radioLinkTxCurrentPacket, then radioLinkTxSendPacket up to its last line.
RadioLinkTxSendPacket(n) ==
  /\ pc[n] = "idle"
  /\ WaitForConnection => ~sendingReset[n]
  /\ TxAvailable(n) # 0
  /\ nSent[n] < MaxPackets[n]
  /\ txPacket' = [txPacket EXCEPT ![n][txMainLoopIndex[n]] =
                    [boot |-> boots[n], num |-> nSent[n] + 1]]
  /\ txMainLoopIndex' = [txMainLoopIndex EXCEPT ![n] = NextTx(@)]
  /\ nSent' = [nSent EXCEPT ![n] = @ + 1]
  /\ pc' = [pc EXCEPT ![n] = "strobe"]
  /\ UNCHANGED <<macVars, rxVars, txInterruptIndex, seqVars,
                 currentPacketTries, queueResets, boots, erased, histVars>>

\* radioMacStrobe sets the bit before it raises the interrupt.
SetStrobe(n) ==
  /\ pc[n] = "strobe"
  /\ strobe' = [strobe EXCEPT ![n] = TRUE]
  /\ pc' = [pc EXCEPT ![n] = "irq"]
  /\ UNCHANGED <<radio, rxTimeout, air, s1con, rxVars, txVars, seqVars,
                 currentPacketTries, queueResets, boots, nSent, erased, histVars>>

RaiseInterrupt(n) ==
  /\ pc[n] = "irq"
  /\ s1con' = [s1con EXCEPT ![n] = TRUE]
  /\ pc' = [pc EXCEPT ![n] = "idle"]
  /\ UNCHANGED <<radio, rxTimeout, air, strobe, rxVars, txVars, seqVars,
                 currentPacketTries, queueResets, boots, nSent, erased, histVars>>

\* radioLinkRxCurrentPacket returned a packet; radioLinkRxDoneWithPacket.
RadioLinkRxDoneWithPacket(n) ==
  /\ rxMainLoopIndex[n] # rxInterruptIndex[n]
  /\ taken' = [taken EXCEPT ![n] = rxPacket[n][rxMainLoopIndex[n]].data]
  /\ rxMainLoopIndex' = [rxMainLoopIndex EXCEPT ![n] = NextRx(@)]
  /\ UNCHANGED <<macVars, rxPacket, rxInterruptIndex, txVars, seqVars,
                 currentPacketTries, appVars, lastAcc, lastIn>>

\* The program has seen radioLinkResetPacketReceived and clears it.
ClearResetPacketReceived(n) ==
  /\ resetPacketReceived[n]
  /\ resetPacketReceived' = [resetPacketReceived EXCEPT ![n] = FALSE]
  /\ UNCHANGED <<macVars, rxVars, txVars, sendingReset, acceptAnySequenceBit,
                 rxSequenceBit, txSequenceBit, currentPacketTries, appVars,
                 histVars>>

\* radioLinkTxQueueReset forgets the queue and leaves the rest alone.
RadioLinkTxQueueReset(n) ==
  /\ pc[n] = "idle"
  /\ queueResets < MaxQueueResets
  /\ txInterruptIndex[n] # txMainLoopIndex[n]
  /\ txInterruptIndex' = [txInterruptIndex EXCEPT ![n] = txMainLoopIndex[n]]
  /\ queueResets' = queueResets + 1
  /\ erased' = [erased EXCEPT ![n] = nSent[n]]
  /\ UNCHANGED <<macVars, rxVars, txPacket, txMainLoopIndex, seqVars,
                 currentPacketTries, pc, boots, nSent, histVars>>

------------------------------------------------------------------------------
(* radioMacEvent: what every event does around radioMacEventHandler *)

\* The interrupt was taken (S1CON = 0) and the handler ran (strobe = 0).
EventDone(n) ==
  /\ strobe' = [strobe EXCEPT ![n] = FALSE]
  /\ s1con' = [s1con EXCEPT ![n] = FALSE]

\* radioMacTx and RFST = STX: if the peer is listening it may see the start
\* of the frame; if it is not, the packet is lost.
RadioMacTx(n, packet) ==
  /\ air' = [air EXCEPT ![n] = packet]
  /\ rxTimeout' = [rxTimeout EXCEPT ![n] = "none"]
  /\ \/ radio' = [radio EXCEPT ![n] = "tx"]
     \/ /\ radio[Peer(n)] = "listen"
        /\ radio' = [radio EXCEPT ![n] = "tx", ![Peer(n)] = "sync"]

\* radioMacRx and RFST = SRX.
RadioMacRx(n, timeout) ==
  /\ radio' = [radio EXCEPT ![n] = "listen"]
  /\ rxTimeout' = [rxTimeout EXCEPT ![n] = timeout]
  /\ UNCHANGED air

\* Mutant: the delay after a transmission is left out.
RandomTxDelayForgotten(n) == "none"

RandomTxDelay(n) == IF currentPacketTries[n] > LONG_TRIES THEN "long" ELSE "short"

\* Mutant: the counter wraps instead of saturating.
OneMoreTryUncapped(tries) == tries + 1

OneMoreTry(tries) == IF tries < MAX_TRIES THEN tries + 1 ELSE tries

------------------------------------------------------------------------------
(* radioMacEventHandler.  The operators below are used in actions that     *)
(* have already said what an acknowledgment does to the sender's state, so *)
(* they read the primed variables; "tries" is currentPacketTries[n] by     *)
(* then.                                                                   *)

TxDataPacket(n, packetType, tries) ==
  /\ RadioMacTx(n, [type |-> packetType, seq |-> txSequenceBit'[n],
                    data |-> txPacket[n][txInterruptIndex'[n]]])
  /\ currentPacketTries' = [currentPacketTries EXCEPT ![n] = OneMoreTry(tries)]

TxResetPacket(n, tries) ==
  /\ RadioMacTx(n, ShortPacket("RESET"))
  /\ currentPacketTries' = [currentPacketTries EXCEPT ![n] = OneMoreTry(tries)]

TakeInitiative(n, tries) ==
  \/ /\ sendingReset'[n]
     /\ TxResetPacket(n, tries)
  \/ /\ ~sendingReset'[n]
     /\ txInterruptIndex'[n] # txMainLoopIndex[n]
     /\ TxDataPacket(n, "PING", tries)
  \/ /\ ~sendingReset'[n]
     /\ txInterruptIndex'[n] = txMainLoopIndex[n]
     /\ RadioMacRx(n, "none")
     /\ currentPacketTries' = [currentPacketTries EXCEPT ![n] = tries]

\* The interrupt that radioMacStrobe raised, with nothing from the radio.
\* It is ignored while a packet is being sent or received, or when a short
\* timeout is about to expire; the strobe bit then stays set.
IgnoreStrobe(n) ==
  /\ s1con[n]
  /\ \/ ~strobe[n]
     \/ radio[n] \in {"tx", "sync"}
     \/ radio[n] = "listen" /\ rxTimeout[n] = "short"
  /\ s1con' = [s1con EXCEPT ![n] = FALSE]
  /\ UNCHANGED <<radio, rxTimeout, air, strobe, rxVars, txVars, seqVars,
                 currentPacketTries, appVars, histVars>>

\* Otherwise the event handler runs.  A short timeout does not save the
\* radio from it while it is still calibrating, and a packet that is done
\* after RFIF was tested is dropped by "RFIF = ~0x30".
StrobeEvent(n) ==
  /\ s1con[n] /\ strobe[n]
  /\ radio[n] \in {"off", "listen", "good", "bad"}
  /\ UNCHANGED <<rxVars, txVars, seqVars, appVars, histVars>>
  /\ TakeInitiative(n, currentPacketTries[n])
  /\ EventDone(n)

RxTimeoutEvent(n) ==
  /\ radio[n] = "listen" /\ rxTimeout[n] # "none"
  /\ UNCHANGED <<rxVars, txVars, seqVars, appVars, histVars>>
  /\ TakeInitiative(n, currentPacketTries[n])
  /\ EventDone(n)

\* The packet has been sent: whoever heard its start has it now, intact or
\* with a bad CRC, and the sender listens for the answer.
TxEvent(n) ==
  /\ radio[n] = "tx"
  /\ \/ /\ radio[Peer(n)] # "sync"
        /\ radio' = [radio EXCEPT ![n] = "listen"]
        /\ UNCHANGED rxPacket
     \/ /\ radio[Peer(n)] = "sync"
        /\ radio' = [radio EXCEPT ![n] = "listen", ![Peer(n)] = "good"]
        /\ rxPacket' = [rxPacket EXCEPT
                          ![Peer(n)][rxInterruptIndex[Peer(n)]] = air[n]]
     \/ /\ radio[Peer(n)] = "sync" /\ Corruption
        /\ radio' = [radio EXCEPT ![n] = "listen", ![Peer(n)] = "bad"]
        /\ UNCHANGED rxPacket
  /\ rxTimeout' = [rxTimeout EXCEPT ![n] = RandomTxDelay(n)]
  /\ air' = [air EXCEPT ![n] = NoPacket]
  /\ EventDone(n)
  /\ UNCHANGED <<rxMainLoopIndex, rxInterruptIndex, txVars, seqVars,
                 currentPacketTries, appVars, histVars>>

\* Mutant: a bad packet always ends the retransmission timeout.
RxBadCrcEventNoDelay(n) ==
  /\ radio[n] = "bad"
  /\ RadioMacRx(n, "none")
  /\ EventDone(n)
  /\ UNCHANGED <<rxVars, txVars, seqVars, currentPacketTries, appVars,
                 histVars>>

\* A packet whose CRC does not pass.  Only queued data brings back a timeout.
RxBadCrcEvent(n) ==
  /\ radio[n] = "bad"
  /\ RadioMacRx(n, IF txInterruptIndex[n] # txMainLoopIndex[n]
                   THEN RandomTxDelay(n) ELSE "none")
  /\ EventDone(n)
  /\ UNCHANGED <<rxVars, txVars, seqVars, currentPacketTries, appVars,
                 histVars>>

RxCurrent(n) == rxPacket[n][rxInterruptIndex[n]]

\* Mutant: the expected sequence bit is not reset.
RxResetEventKeepsBit(n) ==
  /\ radio[n] = "good" /\ RxCurrent(n).type = "RESET"
  /\ resetPacketReceived' = [resetPacketReceived EXCEPT ![n] = TRUE]
  /\ RadioMacTx(n, ShortPacket("ACK"))
  /\ EventDone(n)
  /\ UNCHANGED <<rxVars, txVars, sendingReset, acceptAnySequenceBit,
                 rxSequenceBit, txSequenceBit, currentPacketTries, appVars,
                 histVars>>

\* Mutant: a Wixel that waits for its own ACK repeats its Reset instead.
RxResetEventWaits(n) ==
  /\ radio[n] = "good" /\ RxCurrent(n).type = "RESET"
  /\ rxSequenceBit' = [rxSequenceBit EXCEPT ![n] = 1]
  /\ resetPacketReceived' = [resetPacketReceived EXCEPT ![n] = TRUE]
  /\ RadioMacTx(n, ShortPacket(IF sendingReset[n] THEN "RESET" ELSE "ACK"))
  /\ EventDone(n)
  /\ UNCHANGED <<rxVars, txVars, sendingReset, acceptAnySequenceBit,
                 txSequenceBit, currentPacketTries, appVars, histVars>>

RxResetEvent(n) ==
  /\ radio[n] = "good" /\ RxCurrent(n).type = "RESET"
  /\ rxSequenceBit' = [rxSequenceBit EXCEPT ![n] = 1]
  /\ resetPacketReceived' = [resetPacketReceived EXCEPT ![n] = TRUE]
  /\ RadioMacTx(n, ShortPacket("ACK"))
  /\ EventDone(n)
  /\ UNCHANGED <<rxVars, txVars, sendingReset, acceptAnySequenceBit,
                 txSequenceBit, currentPacketTries, appVars, histVars>>

\* Mutant: data from the peer is taken for an acknowledgment.
AcksDataOnPing(n) == /\ RxCurrent(n).type # "RESET" /\ ~sendingReset[n]
                     /\ txInterruptIndex[n] # txMainLoopIndex[n]

\* What the received packet acknowledges: the Reset, or the current packet.
AcksReset(n) == RxCurrent(n).type = "ACK" /\ sendingReset[n]
AcksData(n) == /\ RxCurrent(n).type = "ACK" /\ ~sendingReset[n]
               /\ txInterruptIndex[n] # txMainLoopIndex[n]

\* Mutant: the next packet keeps the sequence bit.
HandleAckKeepsBit(n) ==
  /\ sendingReset' =
       IF AcksReset(n) THEN [sendingReset EXCEPT ![n] = FALSE]
       ELSE sendingReset
  /\ txInterruptIndex' =
       IF AcksData(n) THEN [txInterruptIndex EXCEPT ![n] = NextTx(@)]
       ELSE txInterruptIndex
  /\ UNCHANGED txSequenceBit

HandleAck(n) ==
  /\ sendingReset' =
       IF AcksReset(n) THEN [sendingReset EXCEPT ![n] = FALSE]
       ELSE sendingReset
  /\ txInterruptIndex' =
       IF AcksData(n) THEN [txInterruptIndex EXCEPT ![n] = NextTx(@)]
       ELSE txInterruptIndex
  /\ txSequenceBit' =
       IF AcksReset(n) THEN [txSequenceBit EXCEPT ![n] = 0]
       ELSE IF AcksData(n) THEN [txSequenceBit EXCEPT ![n] = 1 - @]
       ELSE txSequenceBit

TriesAfterAck(n) ==
  IF AcksReset(n) \/ AcksData(n) THEN 0 ELSE currentPacketTries[n]

\* The answer to a packet with data, with data of our own if there is some.
Respond(n, packetType) ==
  \/ /\ txInterruptIndex'[n] # txMainLoopIndex[n]
     /\ TxDataPacket(n, packetType, TriesAfterAck(n))
  \/ /\ txInterruptIndex'[n] = txMainLoopIndex[n]
     /\ RadioMacTx(n, ShortPacket(packetType))
     /\ currentPacketTries' =
          [currentPacketTries EXCEPT ![n] = TriesAfterAck(n)]

\* A packet without data: PING, NAK or ACK only.
RxNoDataEvent(n) ==
  /\ radio[n] = "good"
  /\ RxCurrent(n).type # "RESET" /\ RxCurrent(n).data = NoData
  /\ HandleAck(n)
  /\ UNCHANGED <<rxVars, txPacket, txMainLoopIndex, acceptAnySequenceBit,
                 rxSequenceBit, resetPacketReceived, appVars, histVars>>
  /\ TakeInitiative(n, TriesAfterAck(n))
  /\ EventDone(n)

\* Mutant: retransmissions are not recognised.
IsNewAlways(n) == TRUE
IsNew(n) == acceptAnySequenceBit[n] \/ rxSequenceBit[n] # RxCurrent(n).seq
\* Mutant: the buffers the main loop holds are not counted.
RxFullNever(n) == FALSE
RxFull(n) == NextRx(rxInterruptIndex[n]) = rxMainLoopIndex[n]

RxData(n) == /\ radio[n] = "good"
             /\ RxCurrent(n).type # "RESET" /\ RxCurrent(n).data # NoData

\* New data and a buffer for it: the packet goes to the main loop.
RxAcceptEvent(n) ==
  /\ RxData(n) /\ IsNew(n) /\ ~RxFull(n)
  /\ HandleAck(n)
  /\ rxSequenceBit' = [rxSequenceBit EXCEPT ![n] = RxCurrent(n).seq]
  /\ acceptAnySequenceBit' = [acceptAnySequenceBit EXCEPT ![n] = FALSE]
  /\ rxInterruptIndex' = [rxInterruptIndex EXCEPT ![n] = NextRx(@)]
  /\ lastAcc' = [lastAcc EXCEPT ![n] = RxCurrent(n).data.num]
  /\ lastIn' = [lastIn EXCEPT ![n] = RxCurrent(n).data]
  /\ UNCHANGED <<rxPacket, rxMainLoopIndex, txPacket, txMainLoopIndex,
                 resetPacketReceived, appVars, taken>>
  /\ Respond(n, "ACK")
  /\ EventDone(n)

\* A retransmission is acknowledged again; new data without a free buffer
\* is refused.
RxRefuseEvent(n) ==
  /\ RxData(n) /\ (~IsNew(n) \/ RxFull(n))
  /\ HandleAck(n)
  /\ UNCHANGED <<rxVars, txPacket, txMainLoopIndex, acceptAnySequenceBit,
                 rxSequenceBit, resetPacketReceived, appVars, histVars>>
  /\ Respond(n, IF IsNew(n) THEN "NAK" ELSE "ACK")
  /\ EventDone(n)

------------------------------------------------------------------------------
(* The world *)

\* Something that is not a packet of the peer fills the receiver.
Noise(n) ==
  /\ Corruption
  /\ radio[n] = "listen"
  /\ radio' = [radio EXCEPT ![n] = "bad"]
  /\ UNCHANGED <<rxTimeout, air, strobe, s1con, rxVars, txVars, seqVars,
                 currentPacketTries, appVars, histVars>>

\* n is reset and runs radioLinkInit.  A packet it was sending is cut off.
\* The peer's interrupt is faster than a reboot, so it has handled what n
\* sent before: a restart in the middle is the same as one just after.
Restart(n) ==
  /\ boots[n] < MaxBoots[n]
  /\ radio[Peer(n)] # "good"
  /\ radio' = [m \in Node |-> IF m = n THEN "off"
                              ELSE IF radio[m] = "sync" THEN "bad"
                              ELSE radio[m]]
  /\ rxTimeout' = [rxTimeout EXCEPT ![n] = "none"]
  /\ air' = [air EXCEPT ![n] = NoPacket]
  /\ strobe' = [strobe EXCEPT ![n] = TRUE]
  /\ s1con' = [s1con EXCEPT ![n] = TRUE]
  /\ rxPacket' = [rxPacket EXCEPT
                    ![n] = [i \in 0 .. RX_PACKET_COUNT - 1 |-> NoPacket]]
  /\ rxMainLoopIndex' = [rxMainLoopIndex EXCEPT ![n] = 0]
  /\ rxInterruptIndex' = [rxInterruptIndex EXCEPT ![n] = 0]
  /\ txPacket' = [txPacket EXCEPT
                    ![n] = [i \in 0 .. TX_PACKET_COUNT - 1 |-> NoData]]
  /\ txMainLoopIndex' = [txMainLoopIndex EXCEPT ![n] = 0]
  /\ txInterruptIndex' = [txInterruptIndex EXCEPT ![n] = 0]
  /\ currentPacketTries' = [currentPacketTries EXCEPT ![n] = 0]
  /\ sendingReset' = [sendingReset EXCEPT ![n] = TRUE]
  /\ acceptAnySequenceBit' = [acceptAnySequenceBit EXCEPT ![n] = TRUE]
  /\ rxSequenceBit' = [rxSequenceBit EXCEPT ![n] = 1]
  /\ txSequenceBit' = [txSequenceBit EXCEPT ![n] = 0]
  /\ resetPacketReceived' = [resetPacketReceived EXCEPT ![n] = FALSE]
  /\ pc' = [pc EXCEPT ![n] = "idle"]
  /\ boots' = [boots EXCEPT ![n] = @ + 1]
  /\ nSent' = [nSent EXCEPT ![n] = 0]
  /\ erased' = [erased EXCEPT ![n] = 0]
  /\ lastAcc' = [lastAcc EXCEPT ![Peer(n)] = 0]
  /\ lastIn' = [lastIn EXCEPT ![n] = NoData]
  /\ taken' = [taken EXCEPT ![n] = NoData]
  /\ UNCHANGED queueResets

MainLoop(n) == \/ RadioLinkTxSendPacket(n) \/ SetStrobe(n) \/ RaiseInterrupt(n)
               \/ RadioLinkRxDoneWithPacket(n) \/ ClearResetPacketReceived(n)
               \/ RadioLinkTxQueueReset(n)

RxEvent(n) == \/ RxBadCrcEvent(n) \/ RxResetEvent(n) \/ RxNoDataEvent(n)
              \/ RxAcceptEvent(n) \/ RxRefuseEvent(n)

RfIsr(n) == \/ IgnoreStrobe(n) \/ StrobeEvent(n) \/ RxTimeoutEvent(n)
            \/ TxEvent(n) \/ RxEvent(n)

Next == \E n \in Node : MainLoop(n) \/ RfIsr(n) \/ Noise(n) \/ Restart(n)

Spec == Init /\ [][Next]_vars

------------------------------------------------------------------------------
(* Properties *)

\* Type correctness of every variable.
TypeOK ==
  /\ radio \in [Node -> {"off", "tx", "listen", "sync", "good", "bad"}]
  /\ rxTimeout \in [Node -> {"none", "short", "long"}]
  /\ air \in [Node -> Packet]
  /\ strobe \in [Node -> BOOLEAN] /\ s1con \in [Node -> BOOLEAN]
  /\ rxPacket \in [Node -> [0 .. RX_PACKET_COUNT - 1 -> Packet]]
  /\ rxMainLoopIndex \in [Node -> 0 .. RX_PACKET_COUNT - 1]
  /\ rxInterruptIndex \in [Node -> 0 .. RX_PACKET_COUNT - 1]
  /\ txPacket \in [Node -> [0 .. TX_PACKET_COUNT - 1 -> Payload]]
  /\ txMainLoopIndex \in [Node -> 0 .. TX_PACKET_COUNT - 1]
  /\ txInterruptIndex \in [Node -> 0 .. TX_PACKET_COUNT - 1]
  /\ currentPacketTries \in [Node -> 0 .. MAX_TRIES]
  /\ sendingReset \in [Node -> BOOLEAN]
  /\ acceptAnySequenceBit \in [Node -> BOOLEAN]
  /\ rxSequenceBit \in [Node -> {0, 1}] /\ txSequenceBit \in [Node -> {0, 1}]
  /\ resetPacketReceived \in [Node -> BOOLEAN]
  /\ pc \in [Node -> {"idle", "strobe", "irq"}]
  /\ queueResets \in Nat
  /\ boots \in [Node -> Nat]
  /\ nSent \in [Node -> Nat] /\ erased \in [Node -> Nat]
  /\ lastAcc \in [Node -> Nat]
  /\ lastIn \in [Node -> Payload] /\ taken \in [Node -> Payload]

\* The interrupt raised by radioMacStrobe has yet to run, or will be raised.
WakeupComing(n) == (s1con[n] /\ strobe[n]) \/ pc[n] # "idle"

\* No lost wakeup (radioLinkTxSendPacket: "Make sure that radioMacEventHandler
\* runs soon so it can see this new data and send it. This must be done
\* LAST"): while data is queued, the radio never listens without a timeout
\* unless an interrupt that will look at the queue is on its way.
QueuedDataIsNotForgotten ==
  \A n \in Node :
    /\ TxQueued(n) # 0
    /\ radio[n] = "off" \/ (radio[n] = "listen" /\ rxTimeout[n] = "none")
    => WakeupComing(n)

\* The same for the Reset packet that radioLinkInit starts to send and that
\* "stop trying to resend it" (radio_link.c) ends only at an ACK.
ResetIsNotForgotten ==
  \A n \in Node :
    /\ sendingReset[n]
    /\ radio[n] = "off" \/ (radio[n] = "listen" /\ rxTimeout[n] = "none")
    => WakeupComing(n)

\* An ACK that reaches a connected node acknowledges something
\* (radioMacEventHandler: "This check should return true unless there is a
\* bug on the other Wixel").
AckMeansQueued ==
  \A n \in Node : radio[n] = "good" /\ RxCurrent(n).type = "ACK"
                     => sendingReset[n] \/ TxQueued(n) # 0

\* Number of packets n has queued since it started and no longer holds.
Released(n) == nSent[n] - TxQueued(n)

\* No silent loss: a buffer goes back to the program above only when the
\* other Wixel has accepted the packet in it, or the program itself erased it
\* (radio_link.h: radioLinkTxQueueReset "erases all data that was in the TX
\* buffer", so none that is put there later).
ReleasedWasAccepted ==
  \A n \in Node : \/ Released(n) <= lastAcc[Peer(n)]
                  \/ Released(n) <= erased[n]

\* Both: no ACK is for nothing, and no buffer is given back that was not
\* accepted (radioMacEventHandler).
AcksAreRight == AckMeansQueued /\ ReleasedWasAccepted

\* b may be read right after a by a node that has started up k times: the
\* next packet of the same life of the sender, or the first one of a later
\* life.  A node that has restarted may begin anywhere.
Follows(k, a, b) ==
  \/ a # NoData /\ b.boot = a.boot /\ b.num = a.num + 1
  \/ a # NoData /\ b.boot > a.boot /\ b.num = 1
  \/ a = NoData /\ b # NoData /\ (k = 1 => b.num = 1)

\* Reliable, ordered delivery as the main loop sees it (radio_link.h): no
\* packet is skipped, repeated or swapped by radioLinkRxDoneWithPacket.
InOrder ==
  [][\A n \in Node :
       /\ rxMainLoopIndex'[n] # rxMainLoopIndex[n]
       /\ boots'[n] = boots[n]
       => Follows(boots[n], taken[n], taken'[n])]_vars

\* Buffer i of n belongs to the main loop, which may be reading it.
MainLoopOwns(n, i) ==
  Ahead(RX_PACKET_COUNT, rxMainLoopIndex[n], i)
    < Ahead(RX_PACKET_COUNT, rxMainLoopIndex[n], rxInterruptIndex[n])

\* Buffer ownership (comment above RX_PACKET_COUNT): the radio never writes
\* a buffer the main loop owns, and never takes it back.
OwnedBuffersAreStable ==
  [][\A n \in Node, i \in 0 .. RX_PACKET_COUNT - 1 :
       MainLoopOwns(n, i) /\ boots'[n] = boots[n]
         => \/ MainLoopOwns(n, i)' /\ rxPacket'[n][i] = rxPacket[n][i]
            \/ i = rxMainLoopIndex[n] /\ rxMainLoopIndex'[n] = NextRx(i)]_vars

\* A node takes itself for connected only when its peer will accept a packet
\* with sequence bit 0, which is the next one it sends.
ConnectsOnlyWhenExpected ==
  [][\A n \in Node :
       sendingReset[n] /\ ~sendingReset'[n]
         => \/ rxSequenceBit'[Peer(n)] = 1
            \/ acceptAnySequenceBit'[Peer(n)]]_vars

------------------------------------------------------------------------------
(* Why the protocol works, when programs wait for the connection and leave *)
(* the queue alone: the inductive invariant                                *)

Disciplined == WaitForConnection /\ MaxQueueResets = 0

\* The radio hears a packet only while it is sent, and never both ways.
MediumOK(n) == /\ radio[n] = "sync" => radio[Peer(n)] = "tx"
               /\ radio[n] = "good" => radio[Peer(n)] # "good"

\* Before the connection nothing was queued, so nothing was accepted.
ResetOK(n) == sendingReset[n] =>
  /\ nSent[n] = 0 /\ txInterruptIndex[n] = txMainLoopIndex[n]
  /\ txSequenceBit[n] = 0 /\ lastAcc[Peer(n)] = 0

\* Afterwards the receiver is at most one packet ahead of what the sender
\* knows, and the two sequence bits are the parities of these counts.
SequenceOK(n) == ~sendingReset[n] =>
  /\ Released(n) >= 0
  /\ lastAcc[Peer(n)] \in {Released(n), Released(n) + 1}
  /\ lastAcc[Peer(n)] <= nSent[n]
  /\ txSequenceBit[n] = Released(n) % 2
  /\ \/ acceptAnySequenceBit[Peer(n)]
     \/ rxSequenceBit[Peer(n)] = (lastAcc[Peer(n)] + 1) % 2

\* An ACK of n acknowledges what the peer last sent.
AckOK(n) == IF sendingReset[Peer(n)]
            THEN rxSequenceBit[n] = 1 \/ acceptAnySequenceBit[n]
            ELSE lastAcc[n] = Released(Peer(n)) + 1 /\ ~acceptAnySequenceBit[n]

\* What it means that the peer of n hears packet k, or has just heard it:
\* its data is the packet n is waiting to see acknowledged, a Reset is still
\* unanswered, and an ACK is right.
PacketOK(n, k) ==
  /\ k.data # NoData =>
       /\ ~sendingReset[n] /\ TxQueued(n) # 0 /\ k.type # "RESET"
       /\ k.data = [boot |-> boots[n], num |-> Released(n) + 1]
       /\ k.seq = txSequenceBit[n]
  /\ k.type = "RESET" => sendingReset[n]
  /\ k.type = "ACK" => AckOK(n)

FlightOK(n) == /\ radio[Peer(n)] = "sync" => PacketOK(n, air[n])
               /\ radio[Peer(n)] = "good" => PacketOK(n, RxCurrent(Peer(n)))

\* The TX buffers hold the packets after the last one released, in order.
TxRingOK(n) ==
  \A i \in 0 .. TX_PACKET_COUNT - 1 :
    Ahead(TX_PACKET_COUNT, txInterruptIndex[n], i) < TxQueued(n) =>
      txPacket[n][i] =
        [boot |-> boots[n],
         num |-> Released(n) + 1 + Ahead(TX_PACKET_COUNT, txInterruptIndex[n], i)]

\* The last packet accepted, seen from the sender's count.
LastInOK(n) ==
  /\ boots[n] >= 1
  /\ acceptAnySequenceBit[n] <=> lastIn[n] = NoData
  /\ acceptAnySequenceBit[n] /\ boots[n] = 1 => lastAcc[n] = 0
  /\ lastIn[n].boot <= boots[Peer(n)]
  /\ lastIn[n] # NoData =>
       IF lastIn[n].boot = boots[Peer(n)] THEN lastIn[n].num = lastAcc[n]
       ELSE lastAcc[n] = 0

\* The RX buffers the main loop owns continue what it has read, in order, up
\* to the last packet accepted.
RxRingOK(n) ==
  /\ rxMainLoopIndex[n] = rxInterruptIndex[n] => taken[n] = lastIn[n]
  /\ \A i \in 0 .. RX_PACKET_COUNT - 1 : MainLoopOwns(n, i) =>
       /\ rxPacket[n][i].data # NoData
       /\ i = rxMainLoopIndex[n]
            => Follows(boots[n], taken[n], rxPacket[n][i].data)
       /\ IF NextRx(i) = rxInterruptIndex[n]
          THEN rxPacket[n][i].data = lastIn[n]
          ELSE Follows(boots[n], rxPacket[n][i].data,
                       rxPacket[n][NextRx(i)].data)

ProtocolInv ==
  \A n \in Node : /\ MediumOK(n) /\ FlightOK(n)
                  /\ ResetOK(n) /\ SequenceOK(n) /\ TxRingOK(n)
                  /\ LastInOK(n) /\ RxRingOK(n)

------------------------------------------------------------------------------
(* The link implements ReliableLink *)

\* The queue in a ring of c buffers, from index i up to index j.
Contents(buf, c, i, j) ==
  [k \in 1 .. Ahead(c, i, j) |->
     IF i + (k - 1) < c THEN buf[i + (k - 1)] ELSE buf[i + (k - 1) - c]]

Received(n) == Contents([i \in 0 .. RX_PACKET_COUNT - 1 |-> rxPacket[n][i].data],
                        RX_PACKET_COUNT, rxMainLoopIndex[n], rxInterruptIndex[n])

\* The receiver has the packet n is sending and would treat it as a repeat.
Moved(n) == /\ ~sendingReset[n] /\ TxQueued(n) # 0
            /\ ~acceptAnySequenceBit[Peer(n)]
            /\ rxSequenceBit[Peer(n)] = txSequenceBit[n]

\* The data packets the two programs can queue within the bounds.
QueuedPayload ==
  UNION {[boot : 1 .. MaxBoots[n], num : 1 .. MaxPackets[n]] : n \in Node}

Abstract == INSTANCE ReliableLink WITH
  Payload <- QueuedPayload,
  out <- [n \in Node |-> Contents(txPacket[n], TX_PACKET_COUNT,
                                  txInterruptIndex[n], txMainLoopIndex[n])],
  moved <- [n \in Node |-> Moved(n)],
  in <- [n \in Node |-> Received(n)]

\* Sequence bits, acknowledgments and retransmission over a lossy radio
\* implement the two pairs of FIFO queues the library's header promises.
ImplementsReliableLink == Abstract!Spec

------------------------------------------------------------------------------
(* Liveness *)

\* n begins to transmit a packet of one of the types; its peer has it intact.
Transmits(n, types) == radio[n] # "tx" /\ radio'[n] = "tx" /\ air'[n].type \in types
Arrives(n, types) == TxEvent(n) /\ radio'[Peer(n)] = "good" /\ air[n].type \in types

\* The interrupt and the main loop always get to run, and a pause that begins
\* again and again ends, for noise does not hit every one.  The radio loses and
\* damages, but not for ever: of infinitely many packets that a Wixel sends on
\* its own some arrive, since randomTxDelay() keeps two Wixels from talking
\* over each other every time, and so do some of infinitely many answers.
Fairness ==
  \A n \in Node :
    /\ WF_vars(IgnoreStrobe(n) \/ StrobeEvent(n))
    /\ WF_vars(TxEvent(n) \/ RxEvent(n))
    /\ WF_vars(SetStrobe(n) \/ RaiseInterrupt(n))
    /\ WF_vars(RadioLinkRxDoneWithPacket(n))
    /\ SF_vars(RxTimeoutEvent(n))
    /\ \A types \in {{"PING", "RESET"}, {"ACK", "NAK"}} :
         []<><<Transmits(n, types)>>_vars => []<><<Arrives(n, types)>>_vars

FairSpec == Spec /\ Fairness

\* Everything a node has queued is read by its peer in the end, whatever is
\* lost, corrupted or refused on the way (radio_link.h: "reliable, ordered
\* delivery"): the last packet arrives, and by InOrder the others before it.
Senders == {n \in Node : MaxPackets[n] > 0}
QueuedIsDelivered ==
  \A n \in Senders :
    (taken[Peer(n)].num < nSent[n]) ~> (taken[Peer(n)].num = nSent[n])

\* A packet with a bad CRC has made n listen without a timeout although its
\* Reset is unanswered (ResetIsNotForgotten); the next may be bad as well.
Forgets(n) ==
  /\ sendingReset[n]
  /\ radio[n] \in {"listen", "bad"} /\ rxTimeout[n] = "none" /\ ~WakeupComing(n)

\* In the end the connection is established, both ways, and stays, whatever
\* packets are lost (radioLinkInit: "Start trying to send a reset packet").
\* Where packets are damaged too, a Wixel may be left that forgets its Reset,
\* and only in this way; where none is damaged, none forgets.
EventuallyConnected == <>[](\A n \in Node : ~sendingReset[n] \/ Forgets(n))

=============================================================================

--------------------------- MODULE RadioLinkProofs ---------------------------
(***************************************************************************)
(* Proofs about RadioLink, for every number of buffers, packets, restarts  *)
(* and tries: types, the wakeup of the radio, the invariant of the         *)
(* protocol, and that radio_link implements ReliableLink.                  *)
(***************************************************************************)
EXTENDS RadioLink, RingProofs, SequenceTheorems, TLAPS

(* The two nodes. *)
LEMMA PeerFacts ==
  ASSUME NEW n \in Node
  PROVE  /\ Peer(n) \in Node /\ Peer(n) # n /\ Peer(Peer(n)) = n
         /\ \A m \in Node : m = n \/ m = Peer(n)
<1>1. PICK x \in Node, y \in Node : x # y /\ Node = {x, y}
  BY NodeAssumption DEF NodeAssumption
<1>2. \A m \in Node : Peer(m) \in Node /\ Peer(m) # m
  <2>1. SUFFICES ASSUME NEW m \in Node
                 PROVE Peer(m) \in Node /\ Peer(m) # m
    OBVIOUS
  <2>2. \E k \in Node : k # m
    BY <1>1
  <2>. QED BY <2>2 DEF Peer
<1>. QED BY <1>1, <1>2

(* What the ring operations return. *)
LEMMA RingFacts ==
  /\ \A i \in 0 .. TX_PACKET_COUNT - 1 : NextTx(i) \in 0 .. TX_PACKET_COUNT - 1
  /\ \A i \in 0 .. RX_PACKET_COUNT - 1 : NextRx(i) \in 0 .. RX_PACKET_COUNT - 1
BY CountAssumption DEF CountAssumption, NextTx, NextRx, Succ

LEMMA PacketTypes ==
  /\ NoData \in Payload /\ NoPacket \in Packet
  /\ \A t \in PacketType : ShortPacket(t) \in Packet
  /\ \A t \in PacketType, s \in {0, 1}, d \in Payload :
       [type |-> t, seq |-> s, data |-> d] \in Packet
BY DEF NoData, Payload, NoPacket, Packet, PacketType, ShortPacket

LEMMA TriesType ==
  /\ 0 \in 0 .. MAX_TRIES
  /\ \A t \in 0 .. MAX_TRIES : OneMoreTry(t) \in 0 .. MAX_TRIES
BY TriesAssumption DEF TriesAssumption, OneMoreTry

(* Type correctness, pointwise. *)
LEMMA Typed ==
  ASSUME TypeOK, NEW n \in Node
  PROVE  /\ rxPacket[n] \in [0 .. RX_PACKET_COUNT - 1 -> Packet]
         /\ txPacket[n] \in [0 .. TX_PACKET_COUNT - 1 -> Payload]
         /\ rxMainLoopIndex[n] \in 0 .. RX_PACKET_COUNT - 1
         /\ rxInterruptIndex[n] \in 0 .. RX_PACKET_COUNT - 1
         /\ txMainLoopIndex[n] \in 0 .. TX_PACKET_COUNT - 1
         /\ txInterruptIndex[n] \in 0 .. TX_PACKET_COUNT - 1
         /\ txSequenceBit[n] \in {0, 1} /\ rxSequenceBit[n] \in {0, 1}
         /\ boots[n] \in Nat /\ nSent[n] \in Nat /\ lastAcc[n] \in Nat
         /\ erased[n] \in Nat
         /\ lastIn[n] \in Payload /\ taken[n] \in Payload
         /\ air[n] \in Packet
BY DEF TypeOK

LEMMA TypedBuffers ==
  ASSUME TypeOK, NEW n \in Node
  PROVE  /\ \A i \in 0 .. RX_PACKET_COUNT - 1 : rxPacket[n][i] \in Packet
         /\ \A i \in 0 .. TX_PACKET_COUNT - 1 : txPacket[n][i] \in Payload
         /\ RxCurrent(n) \in Packet
BY Typed DEF RxCurrent

LEMMA PacketFields ==
  ASSUME NEW k \in Packet
  PROVE  /\ k.type \in PacketType /\ k.seq \in {0, 1} /\ k.data \in Payload
         /\ k.data.boot \in Nat /\ k.data.num \in Nat
BY DEF Packet, Payload

RadioType == /\ radio \in [Node -> {"off", "tx", "listen", "sync", "good", "bad"}]
             /\ rxTimeout \in [Node -> {"none", "short", "long"}]
             /\ air \in [Node -> Packet]

(* The pieces of radioMacEventHandler keep the radio's variables typed. *)
LEMMA RadioMacTxType ==
  ASSUME RadioType, NEW n \in Node, NEW k \in Packet, RadioMacTx(n, k)
  PROVE  RadioType'
BY PeerFacts DEF RadioType, RadioMacTx

LEMMA RadioMacRxType ==
  ASSUME RadioType, NEW n \in Node, NEW t \in {"none", "short", "long"},
         RadioMacRx(n, t)
  PROVE  RadioType'
BY DEF RadioType, RadioMacRx

LEMMA EventDoneType ==
  ASSUME TypeOK, NEW n \in Node, EventDone(n)
  PROVE  strobe' \in [Node -> BOOLEAN] /\ s1con' \in [Node -> BOOLEAN]
BY DEF TypeOK, EventDone

SenderType == /\ sendingReset \in [Node -> BOOLEAN]
              /\ txSequenceBit \in [Node -> {0, 1}]
              /\ txInterruptIndex \in [Node -> 0 .. TX_PACKET_COUNT - 1]

LEMMA TxDataPacketType ==
  ASSUME TypeOK, SenderType', NEW n \in Node, NEW t \in PacketType,
         NEW tries \in 0 .. MAX_TRIES, TxDataPacket(n, t, tries)
  PROVE  RadioType' /\ currentPacketTries' \in [Node -> 0 .. MAX_TRIES]
<1>a. txSequenceBit'[n] \in {0, 1} /\ txPacket[n][txInterruptIndex'[n]] \in Payload
  BY TypedBuffers DEF SenderType
<1>1. [type |-> t, seq |-> txSequenceBit'[n],
       data |-> txPacket[n][txInterruptIndex'[n]]] \in Packet
  BY <1>a DEF Packet
<1>2. RadioType'
  BY <1>1, RadioMacTxType DEF TxDataPacket, TypeOK, RadioType
<1>. QED BY <1>2, TriesType DEF TxDataPacket, TypeOK

LEMMA TakeInitiativeType ==
  ASSUME TypeOK, SenderType', NEW n \in Node, NEW tries \in 0 .. MAX_TRIES,
         TakeInitiative(n, tries)
  PROVE  RadioType' /\ currentPacketTries' \in [Node -> 0 .. MAX_TRIES]
<1>0. RadioType
  BY DEF TypeOK, RadioType
<1>1. CASE TxResetPacket(n, tries)
  <2>1. ShortPacket("RESET") \in Packet
    BY PacketTypes DEF PacketType
  <2>2. RadioType'
    BY <1>0, <1>1, <2>1, RadioMacTxType DEF TxResetPacket
  <2>. QED BY <1>1, <2>2, TriesType DEF TxResetPacket, TypeOK
<1>2. CASE TxDataPacket(n, "PING", tries)
  BY <1>2, TxDataPacketType DEF PacketType
<1>3. CASE /\ RadioMacRx(n, "none")
           /\ currentPacketTries' = [currentPacketTries EXCEPT ![n] = tries]
  BY <1>0, <1>3, RadioMacRxType DEF TypeOK
<1>. QED BY <1>1, <1>2, <1>3 DEF TakeInitiative

LEMMA HandleAckType ==
  ASSUME TypeOK, NEW n \in Node, HandleAck(n)
  PROVE  SenderType' /\ TriesAfterAck(n) \in 0 .. MAX_TRIES
<1>1. sendingReset' \in [Node -> BOOLEAN]
  BY DEF TypeOK, HandleAck
<1>2. txInterruptIndex' \in [Node -> 0 .. TX_PACKET_COUNT - 1]
  BY RingFacts DEF TypeOK, HandleAck
<1>3. txSequenceBit' \in [Node -> {0, 1}]
  <2>1. 1 - txSequenceBit[n] \in {0, 1}
    BY Typed
  <2>. QED BY <2>1 DEF TypeOK, HandleAck
<1>4. TriesAfterAck(n) \in 0 .. MAX_TRIES
  BY TriesType DEF TypeOK, TriesAfterAck
<1>. QED BY <1>1, <1>2, <1>3, <1>4 DEF SenderType

LEMMA RespondType ==
  ASSUME TypeOK, SenderType', NEW n \in Node, NEW t \in PacketType,
         TriesAfterAck(n) \in 0 .. MAX_TRIES, Respond(n, t)
  PROVE  RadioType' /\ currentPacketTries' \in [Node -> 0 .. MAX_TRIES]
<1>0. RadioType /\ ShortPacket(t) \in Packet
  BY PacketTypes DEF TypeOK, RadioType
<1>1. CASE TxDataPacket(n, t, TriesAfterAck(n))
  BY <1>1, TxDataPacketType
<1>2. CASE /\ RadioMacTx(n, ShortPacket(t))
           /\ currentPacketTries' =
                [currentPacketTries EXCEPT ![n] = TriesAfterAck(n)]
  BY <1>0, <1>2, RadioMacTxType DEF TypeOK
<1>. QED BY <1>1, <1>2 DEF Respond

(* Every step of the system keeps every variable in its type. *)
LEMMA TypeStep ==
  ASSUME TypeOK, [Next]_vars
  PROVE  TypeOK'
<1>1. CASE UNCHANGED vars
  BY <1>1 DEF TypeOK, vars, macVars, rxVars, txVars, seqVars, appVars, histVars
<1>2. ASSUME NEW n \in Node, RadioLinkTxSendPacket(n)
      PROVE  TypeOK'
  <2>. USE <1>2 DEF RadioLinkTxSendPacket
  <2>1. [boot |-> boots[n], num |-> nSent[n] + 1] \in Payload
    BY Typed DEF Payload
  <2>2. txPacket' \in [Node -> [0 .. TX_PACKET_COUNT - 1 -> Payload]]
    BY <2>1, Typed DEF TypeOK
  <2>3. txMainLoopIndex' \in [Node -> 0 .. TX_PACKET_COUNT - 1]
    BY RingFacts DEF TypeOK
  <2>4. nSent' \in [Node -> Nat]
    <3>1. nSent \in [Node -> Nat]
      BY DEF TypeOK
    <3>. QED BY <3>1
  <2>. QED BY <2>2, <2>3, <2>4 DEF TypeOK, macVars, rxVars, seqVars, histVars
<1>3. ASSUME NEW n \in Node, SetStrobe(n)
      PROVE  TypeOK'
  BY <1>3 DEF TypeOK, SetStrobe, rxVars, txVars, seqVars, histVars
<1>4. ASSUME NEW n \in Node, RaiseInterrupt(n)
      PROVE  TypeOK'
  BY <1>4 DEF TypeOK, RaiseInterrupt, rxVars, txVars, seqVars, histVars
<1>5. ASSUME NEW n \in Node, RadioLinkRxDoneWithPacket(n)
      PROVE  TypeOK'
  <2>1. rxPacket[n][rxMainLoopIndex[n]].data \in Payload
    BY TypedBuffers, PacketFields, Typed
  <2>. QED BY <1>5, <2>1, RingFacts DEF TypeOK, RadioLinkRxDoneWithPacket, macVars,
         txVars, seqVars, appVars
<1>6. ASSUME NEW n \in Node, ClearResetPacketReceived(n)
      PROVE  TypeOK'
  BY <1>6 DEF TypeOK, ClearResetPacketReceived, macVars, rxVars, txVars, appVars,
       histVars
<1>7. ASSUME NEW n \in Node, RadioLinkTxQueueReset(n)
      PROVE  TypeOK'
  <2>. USE <1>7 DEF RadioLinkTxQueueReset
  <2>1. erased' \in [Node -> Nat] /\ queueResets' \in Nat
    <3>1. erased \in [Node -> Nat] /\ nSent[n] \in Nat /\ queueResets \in Nat
      BY DEF TypeOK
    <3>. QED BY <3>1
  <2>2. txInterruptIndex' \in [Node -> 0 .. TX_PACKET_COUNT - 1]
    BY Typed DEF TypeOK
  <2>. QED BY <2>1, <2>2 DEF TypeOK, macVars, rxVars, seqVars, histVars
<1>8. ASSUME NEW n \in Node, IgnoreStrobe(n)
      PROVE  TypeOK'
  BY <1>8 DEF TypeOK, IgnoreStrobe, rxVars, txVars, seqVars, appVars, histVars
<1>9. ASSUME NEW n \in Node, StrobeEvent(n) \/ RxTimeoutEvent(n)
      PROVE  TypeOK'
  <2>. USE <1>9 DEF StrobeEvent, RxTimeoutEvent
  <2>1. SenderType'
    BY DEF TypeOK, SenderType, txVars, seqVars
  <2>2. RadioType' /\ currentPacketTries' \in [Node -> 0 .. MAX_TRIES]
    <3>1. currentPacketTries[n] \in 0 .. MAX_TRIES
      BY DEF TypeOK
    <3>. QED BY <2>1, <3>1, TakeInitiativeType
  <2>3. strobe' \in [Node -> BOOLEAN] /\ s1con' \in [Node -> BOOLEAN]
    BY EventDoneType
  <2>. QED BY <2>2, <2>3 DEF TypeOK, RadioType, rxVars, txVars, seqVars, appVars,
         histVars
<1>10. ASSUME NEW n \in Node, TxEvent(n)
       PROVE  TypeOK'
  <2>. USE <1>10, PeerFacts DEF TxEvent
  <2>1. radio' \in [Node -> {"off", "tx", "listen", "sync", "good", "bad"}]
    <3>1. radio \in [Node -> {"off", "tx", "listen", "sync", "good", "bad"}]
      BY DEF TypeOK
    <3>. QED BY <3>1
  <2>2. rxPacket' \in [Node -> [0 .. RX_PACKET_COUNT - 1 -> Packet]]
    <3>1. /\ rxPacket \in [Node -> [0 .. RX_PACKET_COUNT - 1 -> Packet]]
          /\ air[n] \in Packet
      BY Typed DEF TypeOK
    <3>2. CASE rxPacket' = rxPacket
      BY <3>1, <3>2
    <3>3. CASE rxPacket' = [rxPacket EXCEPT
                              ![Peer(n)][rxInterruptIndex[Peer(n)]] = air[n]]
      <4>1. rxPacket[Peer(n)] \in [0 .. RX_PACKET_COUNT - 1 -> Packet]
        BY <3>1
      <4>2. [rxPacket[Peer(n)] EXCEPT ![rxInterruptIndex[Peer(n)]] = air[n]]
              \in [0 .. RX_PACKET_COUNT - 1 -> Packet]
        BY <3>1, <4>1
      <4>. QED BY <3>1, <3>3, <4>2
    <3>. QED BY <3>2, <3>3
  <2>3. rxTimeout' \in [Node -> {"none", "short", "long"}]
    BY DEF TypeOK, RandomTxDelay
  <2>4. air' \in [Node -> Packet]
    BY PacketTypes DEF TypeOK
  <2>5. strobe' \in [Node -> BOOLEAN] /\ s1con' \in [Node -> BOOLEAN]
    BY EventDoneType
  <2>. QED BY <2>1, <2>2, <2>3, <2>4, <2>5 DEF TypeOK, txVars, seqVars, appVars,
         histVars
<1>11. ASSUME NEW n \in Node, RxBadCrcEvent(n)
       PROVE  TypeOK'
  <2>. USE <1>11 DEF RxBadCrcEvent
  <2>1. strobe' \in [Node -> BOOLEAN] /\ s1con' \in [Node -> BOOLEAN]
    BY EventDoneType
  <2>2. RadioType'
    BY DEF TypeOK, RadioMacRx, RandomTxDelay, RadioType
  <2>. QED BY <2>1, <2>2 DEF TypeOK, RadioType, rxVars, txVars, seqVars, appVars,
         histVars
<1>12. ASSUME NEW n \in Node, RxResetEvent(n)
       PROVE  TypeOK'
  <2>. USE <1>12 DEF RxResetEvent
  <2>1. strobe' \in [Node -> BOOLEAN] /\ s1con' \in [Node -> BOOLEAN]
    BY EventDoneType
  <2>2. ShortPacket("ACK") \in Packet
    BY PacketTypes DEF PacketType
  <2>3. RadioType'
    BY <2>2, RadioMacTxType DEF TypeOK, RadioType
  <2>. QED BY <2>1, <2>3 DEF TypeOK, RadioType, rxVars, txVars, appVars, histVars
<1>13. ASSUME NEW n \in Node, RxNoDataEvent(n)
       PROVE  TypeOK'
  <2>. USE <1>13 DEF RxNoDataEvent
  <2>1. SenderType' /\ TriesAfterAck(n) \in 0 .. MAX_TRIES
    BY HandleAckType
  <2>2. RadioType' /\ currentPacketTries' \in [Node -> 0 .. MAX_TRIES]
    BY <2>1, TakeInitiativeType
  <2>3. strobe' \in [Node -> BOOLEAN] /\ s1con' \in [Node -> BOOLEAN]
    BY EventDoneType
  <2>. QED BY <2>1, <2>2, <2>3 DEF TypeOK, RadioType, SenderType, rxVars, appVars,
         histVars
<1>14. ASSUME NEW n \in Node, RxAcceptEvent(n)
       PROVE  TypeOK'
  <2>. USE <1>14 DEF RxAcceptEvent
  <2>1. SenderType' /\ TriesAfterAck(n) \in 0 .. MAX_TRIES
    BY HandleAckType
  <2>2. RadioType' /\ currentPacketTries' \in [Node -> 0 .. MAX_TRIES]
    BY <2>1, RespondType DEF PacketType
  <2>3. strobe' \in [Node -> BOOLEAN] /\ s1con' \in [Node -> BOOLEAN]
    BY EventDoneType
  <2>4. /\ RxCurrent(n).data \in Payload /\ RxCurrent(n).seq \in {0, 1}
        /\ RxCurrent(n).data.num \in Nat
    BY TypedBuffers, PacketFields
  <2>5. rxInterruptIndex' \in [Node -> 0 .. RX_PACKET_COUNT - 1]
    BY RingFacts DEF TypeOK
  <2>. QED BY <2>1, <2>2, <2>3, <2>4, <2>5 DEF TypeOK, RadioType, SenderType, appVars
<1>15. ASSUME NEW n \in Node, RxRefuseEvent(n)
       PROVE  TypeOK'
  <2>. USE <1>15 DEF RxRefuseEvent
  <2>1. SenderType' /\ TriesAfterAck(n) \in 0 .. MAX_TRIES
    BY HandleAckType
  <2>2. RadioType' /\ currentPacketTries' \in [Node -> 0 .. MAX_TRIES]
    BY <2>1, RespondType DEF PacketType
  <2>3. strobe' \in [Node -> BOOLEAN] /\ s1con' \in [Node -> BOOLEAN]
    BY EventDoneType
  <2>. QED BY <2>1, <2>2, <2>3 DEF TypeOK, RadioType, SenderType, rxVars, appVars,
         histVars
<1>16. ASSUME NEW n \in Node, Noise(n)
       PROVE  TypeOK'
  BY <1>16 DEF TypeOK, Noise, rxVars, txVars, seqVars, appVars, histVars
<1>17. ASSUME NEW n \in Node, Restart(n)
       PROVE  TypeOK'
  <2>. USE <1>17 DEF Restart
  <2>1. RadioType' /\ strobe' \in [Node -> BOOLEAN] /\ s1con' \in [Node -> BOOLEAN]
    BY PacketTypes DEF TypeOK, RadioType
  <2>2. /\ rxPacket' \in [Node -> [0 .. RX_PACKET_COUNT - 1 -> Packet]]
        /\ txPacket' \in [Node -> [0 .. TX_PACKET_COUNT - 1 -> Payload]]
    BY PacketTypes DEF TypeOK
  <2>3. /\ rxMainLoopIndex' \in [Node -> 0 .. RX_PACKET_COUNT - 1]
        /\ rxInterruptIndex' \in [Node -> 0 .. RX_PACKET_COUNT - 1]
        /\ txMainLoopIndex' \in [Node -> 0 .. TX_PACKET_COUNT - 1]
        /\ txInterruptIndex' \in [Node -> 0 .. TX_PACKET_COUNT - 1]
    BY CountAssumption DEF TypeOK, CountAssumption
  <2>4. /\ currentPacketTries' \in [Node -> 0 .. MAX_TRIES]
        /\ sendingReset' \in [Node -> BOOLEAN]
        /\ acceptAnySequenceBit' \in [Node -> BOOLEAN]
        /\ rxSequenceBit' \in [Node -> {0, 1}]
        /\ txSequenceBit' \in [Node -> {0, 1}]
        /\ resetPacketReceived' \in [Node -> BOOLEAN]
        /\ pc' \in [Node -> {"idle", "strobe", "irq"}]
    BY TriesType DEF TypeOK
  <2>5. /\ queueResets' \in Nat /\ boots' \in [Node -> Nat]
        /\ nSent' \in [Node -> Nat] /\ erased' \in [Node -> Nat]
        /\ lastAcc' \in [Node -> Nat]
        /\ lastIn' \in [Node -> Payload] /\ taken' \in [Node -> Payload]
    <3>1. /\ queueResets \in Nat /\ boots \in [Node -> Nat]
          /\ nSent \in [Node -> Nat] /\ erased \in [Node -> Nat]
          /\ lastAcc \in [Node -> Nat]
          /\ lastIn \in [Node -> Payload] /\ taken \in [Node -> Payload]
      BY DEF TypeOK
    <3>2. /\ lastIn' \in [Node -> Payload] /\ taken' \in [Node -> Payload]
      BY <3>1, PacketTypes
    <3>3. boots' \in [Node -> Nat]
      <4>1. boots[n] + 1 \in Nat
        BY <3>1
      <4>. QED BY <3>1, <4>1
    <3>4. /\ queueResets' \in Nat /\ nSent' \in [Node -> Nat]
          /\ erased' \in [Node -> Nat] /\ lastAcc' \in [Node -> Nat]
      BY <3>1
    <3>. QED BY <3>2, <3>3, <3>4
  <2>. QED BY <2>1, <2>2, <2>3, <2>4, <2>5 DEF TypeOK, RadioType
<1>. QED
  BY <1>1, <1>2, <1>3, <1>4, <1>5, <1>6, <1>7, <1>8, <1>9, <1>10, <1>11, <1>12,
     <1>13, <1>14, <1>15, <1>16, <1>17 DEF Next, MainLoop, RfIsr, RxEvent

LEMMA TypeInit == Init => TypeOK
<1>. SUFFICES ASSUME Init PROVE TypeOK
  OBVIOUS
<1>. USE PacketTypes, TriesType, CountAssumption DEF Init, CountAssumption
<1>1. RadioType /\ SenderType
  BY DEF RadioType, SenderType
<1>2. /\ rxPacket \in [Node -> [0 .. RX_PACKET_COUNT - 1 -> Packet]]
      /\ txPacket \in [Node -> [0 .. TX_PACKET_COUNT - 1 -> Payload]]
  OBVIOUS
<1>3. lastIn \in [Node -> Payload] /\ taken \in [Node -> Payload]
  OBVIOUS
<1>. QED BY <1>1, <1>2, <1>3 DEF TypeOK, RadioType, SenderType

(* Type correctness of the link, whatever the program does with it: indices
   stay inside the buffers and the counter of tries below its limit. *)
THEOREM TypeCorrect == Spec => []TypeOK
<1>1. Init => TypeOK
  BY TypeInit
<1>2. TypeOK /\ [Next]_vars => TypeOK'
  BY TypeStep
<1>. QED BY <1>1, <1>2, PTL DEF Spec

------------------------------------------------------------------------------
(* No lost wakeup.  radioLinkTxSendPacket and radioMacStrobe take three     *)
(* steps, and the RF interrupt runs between any two of them; WakeupInv says *)
(* which of them are still to come when the radio would sleep on a queue    *)
(* that is not empty.                                                       *)

Sleeping(n) == radio[n] = "off" \/ (radio[n] = "listen" /\ rxTimeout[n] = "none")
Queued(n) == txInterruptIndex[n] # txMainLoopIndex[n]
WillWake(n) == pc[n] = "strobe" \/ (strobe[n] /\ (s1con[n] \/ pc[n] = "irq"))

WakeupInv == \A n \in Node : Sleeping(n) /\ Queued(n) => WillWake(n)

(* TypeOK, as far as the wakeup needs it. *)
LEMMA WakeupTyped ==
  ASSUME TypeOK
  PROVE  /\ radio \in [Node -> {"off", "tx", "listen", "sync", "good", "bad"}]
         /\ rxTimeout \in [Node -> {"none", "short", "long"}]
         /\ strobe \in [Node -> BOOLEAN] /\ s1con \in [Node -> BOOLEAN]
         /\ pc \in [Node -> {"idle", "strobe", "irq"}]
         /\ txMainLoopIndex \in [Node -> 0 .. TX_PACKET_COUNT - 1]
         /\ txInterruptIndex \in [Node -> 0 .. TX_PACKET_COUNT - 1]
BY DEF TypeOK

(* What an event leaves of the other Wixel: it may start or stop hearing.   *)
LEMMA RadioMacTxOther ==
  ASSUME TypeOK, NEW n \in Node, NEW k, RadioMacTx(n, k)
  PROVE  /\ radio'[n] = "tx"
         /\ radio'[Peer(n)] \in {radio[Peer(n)], "sync"}
         /\ rxTimeout'[Peer(n)] = rxTimeout[Peer(n)]
BY WakeupTyped, PeerFacts DEF RadioMacTx

LEMMA RadioMacRxOther ==
  ASSUME TypeOK, NEW n \in Node, NEW t, RadioMacRx(n, t)
  PROVE  /\ radio'[n] = "listen" /\ rxTimeout'[n] = t
         /\ radio'[Peer(n)] = radio[Peer(n)]
         /\ rxTimeout'[Peer(n)] = rxTimeout[Peer(n)]
BY WakeupTyped, PeerFacts DEF RadioMacRx

OtherRadio(n) == /\ radio'[Peer(n)] \in {radio[Peer(n)], "sync", "good", "bad"}
                 /\ rxTimeout'[Peer(n)] = rxTimeout[Peer(n)]

(* takeInitiative, and the answer to data, look at the queue. *)
LEMMA TakeInitiativeLooks ==
  ASSUME TypeOK, NEW n \in Node, NEW tries, TakeInitiative(n, tries),
         txMainLoopIndex' = txMainLoopIndex
  PROVE  (radio'[n] = "tx" \/ ~Queued(n)') /\ OtherRadio(n)
<1>1. CASE TxResetPacket(n, tries)
  BY <1>1, RadioMacTxOther DEF TxResetPacket, OtherRadio
<1>2. CASE TxDataPacket(n, "PING", tries)
  BY <1>2, RadioMacTxOther DEF TxDataPacket, OtherRadio
<1>3. CASE txInterruptIndex'[n] = txMainLoopIndex[n] /\ RadioMacRx(n, "none")
  BY <1>3, RadioMacRxOther DEF OtherRadio, Queued
<1>. QED BY <1>1, <1>2, <1>3 DEF TakeInitiative

LEMMA RespondLooks ==
  ASSUME TypeOK, NEW n \in Node, NEW t, Respond(n, t)
  PROVE  radio'[n] = "tx" /\ OtherRadio(n)
BY RadioMacTxOther DEF Respond, TxDataPacket, OtherRadio

(* Every event of the RF interrupt leaves the radio sending, or listening   *)
(* with a timeout, or with nothing to send.                                 *)
LEMMA EventLooks ==
  ASSUME TypeOK, NEW n \in Node,
         StrobeEvent(n) \/ RxTimeoutEvent(n) \/ TxEvent(n) \/ RxEvent(n)
  PROVE  /\ ~(Sleeping(n)' /\ Queued(n)')
         /\ OtherRadio(n)
         /\ strobe'[Peer(n)] = strobe[Peer(n)] /\ s1con'[Peer(n)] = s1con[Peer(n)]
         /\ txInterruptIndex'[Peer(n)] = txInterruptIndex[Peer(n)]
         /\ UNCHANGED <<pc, txMainLoopIndex>>
<1>1. /\ EventDone(n) /\ UNCHANGED <<pc, txMainLoopIndex>>
      /\ HandleAck(n) \/ UNCHANGED txInterruptIndex
  BY DEF StrobeEvent, RxTimeoutEvent, TxEvent, RxEvent, RxBadCrcEvent,
         RxResetEvent, RxNoDataEvent, RxAcceptEvent, RxRefuseEvent, txVars,
         appVars
<1>2. /\ strobe'[Peer(n)] = strobe[Peer(n)] /\ s1con'[Peer(n)] = s1con[Peer(n)]
      /\ txInterruptIndex'[Peer(n)] = txInterruptIndex[Peer(n)]
  BY <1>1, WakeupTyped, PeerFacts DEF EventDone, HandleAck
<1>3. CASE StrobeEvent(n) \/ RxTimeoutEvent(n)
  BY <1>1, <1>2, <1>3, TakeInitiativeLooks
  DEF StrobeEvent, RxTimeoutEvent, Sleeping
<1>4. CASE RxNoDataEvent(n)
  BY <1>1, <1>2, <1>4, TakeInitiativeLooks DEF RxNoDataEvent, Sleeping
<1>5. CASE RxAcceptEvent(n) \/ RxRefuseEvent(n)
  BY <1>1, <1>2, <1>5, RespondLooks DEF RxAcceptEvent, RxRefuseEvent, Sleeping
<1>6. CASE RxResetEvent(n)
  BY <1>1, <1>2, <1>6, RadioMacTxOther DEF RxResetEvent, Sleeping, OtherRadio
<1>7. CASE RxBadCrcEvent(n)
  BY <1>1, <1>2, <1>7, RadioMacRxOther
  DEF RxBadCrcEvent, RandomTxDelay, Sleeping, Queued, OtherRadio, txVars
<1>8. CASE TxEvent(n)
  BY <1>1, <1>2, <1>8, WakeupTyped, PeerFacts
  DEF TxEvent, RandomTxDelay, Sleeping, OtherRadio
<1>. QED BY <1>1, <1>2, <1>3, <1>4, <1>5, <1>6, <1>7, <1>8 DEF RxEvent

LEMMA WakeupStep ==
  ASSUME TypeOK, WakeupInv, [Next]_vars
  PROVE  WakeupInv'
<1>1. CASE UNCHANGED vars
  BY <1>1 DEF WakeupInv, Sleeping, Queued, WillWake, vars, macVars, txVars, appVars
<1>2. ASSUME NEW n \in Node,
             StrobeEvent(n) \/ RxTimeoutEvent(n) \/ TxEvent(n) \/ RxEvent(n)
      PROVE  WakeupInv'
  <2>1. ~(Sleeping(n)' /\ Queued(n)')
    BY <1>2, EventLooks
  <2>2. Sleeping(Peer(n))' /\ Queued(Peer(n))' => WillWake(Peer(n))'
    BY <1>2, EventLooks, PeerFacts
    DEF WakeupInv, OtherRadio, Sleeping, Queued, WillWake
  <2>. QED BY <2>1, <2>2, PeerFacts DEF WakeupInv
<1>3. ASSUME NEW n \in Node, IgnoreStrobe(n)
      PROVE  WakeupInv'
  BY <1>3, WakeupTyped
  DEF IgnoreStrobe, WakeupInv, Sleeping, Queued, WillWake, txVars, appVars
<1>4. ASSUME NEW n \in Node, RadioLinkTxSendPacket(n)
      PROVE  WakeupInv'
  BY <1>4, WakeupTyped
  DEF RadioLinkTxSendPacket, WakeupInv, Sleeping, Queued, WillWake, macVars
<1>5. ASSUME NEW n \in Node, SetStrobe(n) \/ RaiseInterrupt(n)
      PROVE  WakeupInv'
  BY <1>5, WakeupTyped
  DEF SetStrobe, RaiseInterrupt, WakeupInv, Sleeping, Queued, WillWake, txVars
<1>6. ASSUME NEW n \in Node, RadioLinkTxQueueReset(n)
      PROVE  WakeupInv'
  BY <1>6, WakeupTyped
  DEF RadioLinkTxQueueReset, WakeupInv, Sleeping, Queued, WillWake, macVars
<1>7. ASSUME NEW n \in Node,
             RadioLinkRxDoneWithPacket(n) \/ ClearResetPacketReceived(n)
      PROVE  WakeupInv'
  BY <1>7
  DEF RadioLinkRxDoneWithPacket, ClearResetPacketReceived, WakeupInv, Sleeping,
      Queued, WillWake, macVars, txVars, appVars
<1>8. ASSUME NEW n \in Node, Noise(n)
      PROVE  WakeupInv'
  BY <1>8, WakeupTyped
  DEF Noise, WakeupInv, Sleeping, Queued, WillWake, txVars, appVars
<1>9. ASSUME NEW n \in Node, Restart(n)
      PROVE  WakeupInv'
  <2>1. ~Queued(n)'
    BY <1>9, WakeupTyped DEF Restart, Queued
  <2>2. Sleeping(Peer(n))' /\ Queued(Peer(n))' => WillWake(Peer(n))'
    BY <1>9, WakeupTyped, PeerFacts
    DEF Restart, WakeupInv, Sleeping, Queued, WillWake
  <2>. QED BY <2>1, <2>2, PeerFacts DEF WakeupInv
<1>. QED
  BY <1>1, <1>2, <1>3, <1>4, <1>5, <1>6, <1>7, <1>8, <1>9
  DEF Next, MainLoop, RfIsr

(* While a packet is queued the radio never sleeps without an interrupt on   *)
(* its way that will look at the queue, wherever the RF interrupt hits the   *)
(* main loop and whatever the program and the other Wixel do.                *)
THEOREM NoLostWakeup == Spec => []QueuedDataIsNotForgotten
<1>1. Init => WakeupInv
  BY DEF Init, WakeupInv, Queued
<1>2. TypeOK /\ WakeupInv /\ [Next]_vars => WakeupInv'
  BY WakeupStep
<1>3. TypeOK /\ WakeupInv => QueuedDataIsNotForgotten
  <2>. SUFFICES ASSUME TypeOK, WakeupInv, NEW n \in Node, TxQueued(n) # 0,
                       Sleeping(n)
                PROVE  WakeupComing(n)
    BY DEF QueuedDataIsNotForgotten, Sleeping
  <2>1. Queued(n)
    BY WakeupTyped, CountAssumption DEF TxQueued, Queued, Ahead, CountAssumption
  <2>. QED BY <2>1 DEF WakeupInv, WillWake, WakeupComing
<1>. QED BY <1>1, <1>2, <1>3, TypeCorrect, PTL DEF Spec

------------------------------------------------------------------------------
(***************************************************************************)
(* Why the protocol works: ProtocolInv is inductive, when the programs     *)
(* wait for the connection and leave the queue alone.                      *)
(***************************************************************************)

(* What the sequence bits are: parities.                                    *)
LEMMA Parity ==
  ASSUME NEW x \in Nat
  PROVE  /\ x % 2 \in {0, 1}
         /\ (x + 1) % 2 = 1 - (x % 2)
         /\ (x + 2) % 2 = x % 2
OBVIOUS

(* The variables of one node, and its counters. *)
NodeTypes(n) ==
  /\ rxPacket[n] \in [0 .. RX_PACKET_COUNT - 1 -> Packet]
  /\ txPacket[n] \in [0 .. TX_PACKET_COUNT - 1 -> Payload]
  /\ rxMainLoopIndex[n] \in 0 .. RX_PACKET_COUNT - 1
  /\ rxInterruptIndex[n] \in 0 .. RX_PACKET_COUNT - 1
  /\ txMainLoopIndex[n] \in 0 .. TX_PACKET_COUNT - 1
  /\ txInterruptIndex[n] \in 0 .. TX_PACKET_COUNT - 1
  /\ txSequenceBit[n] \in {0, 1} /\ rxSequenceBit[n] \in {0, 1}
  /\ sendingReset[n] \in BOOLEAN /\ acceptAnySequenceBit[n] \in BOOLEAN
  /\ boots[n] \in Nat /\ nSent[n] \in Nat /\ lastAcc[n] \in Nat
  /\ lastIn[n] \in Payload /\ taken[n] \in Payload /\ air[n] \in Packet
  /\ RxCurrent(n) \in Packet
  /\ TxQueued(n) \in 0 .. TX_PACKET_COUNT - 1
  /\ TxQueued(n) = 0 <=> txInterruptIndex[n] = txMainLoopIndex[n]
  /\ Released(n) \in Int

LEMMA Counts ==
  /\ TX_PACKET_COUNT \in Nat /\ TX_PACKET_COUNT > 1
  /\ RX_PACKET_COUNT \in Nat /\ RX_PACKET_COUNT > 1
BY CountAssumption DEF CountAssumption

(* The arithmetic of the two rings. *)
LEMMA TxRing ==
  \A i, j \in 0 .. TX_PACKET_COUNT - 1 :
    /\ Ahead(TX_PACKET_COUNT, i, j) \in 0 .. TX_PACKET_COUNT - 1
    /\ Ahead(TX_PACKET_COUNT, i, j) = 0 <=> i = j
    /\ NextTx(i) \in 0 .. TX_PACKET_COUNT - 1
    /\ Ahead(TX_PACKET_COUNT, i, j) # TX_PACKET_COUNT - 1
         => Ahead(TX_PACKET_COUNT, i, NextTx(j)) = Ahead(TX_PACKET_COUNT, i, j) + 1
    /\ i # j => Ahead(TX_PACKET_COUNT, NextTx(i), j) = Ahead(TX_PACKET_COUNT, i, j) - 1
    /\ i = j => Ahead(TX_PACKET_COUNT, NextTx(i), j) = TX_PACKET_COUNT - 1
BY Counts DEF Ahead, Succ, NextTx

LEMMA RxRing ==
  \A i, j \in 0 .. RX_PACKET_COUNT - 1 :
    /\ Ahead(RX_PACKET_COUNT, i, j) \in 0 .. RX_PACKET_COUNT - 1
    /\ Ahead(RX_PACKET_COUNT, i, j) = 0 <=> i = j
    /\ NextRx(i) \in 0 .. RX_PACKET_COUNT - 1
    /\ Ahead(RX_PACKET_COUNT, i, j) # RX_PACKET_COUNT - 1
         => Ahead(RX_PACKET_COUNT, i, NextRx(j)) = Ahead(RX_PACKET_COUNT, i, j) + 1
    /\ i # j => Ahead(RX_PACKET_COUNT, NextRx(i), j) = Ahead(RX_PACKET_COUNT, i, j) - 1
    /\ i = j => Ahead(RX_PACKET_COUNT, NextRx(i), j) = RX_PACKET_COUNT - 1
BY Counts DEF Ahead, Succ, NextRx

LEMMA NodeTyped ==
  ASSUME NEW n \in Node, TypeOK
  PROVE  NodeTypes(n)
<1>1. /\ txInterruptIndex[n] \in 0 .. TX_PACKET_COUNT - 1
      /\ txMainLoopIndex[n] \in 0 .. TX_PACKET_COUNT - 1
      /\ nSent[n] \in Nat
  BY Typed
<1>2. /\ TxQueued(n) \in 0 .. TX_PACKET_COUNT - 1
      /\ TxQueued(n) = 0 <=> txInterruptIndex[n] = txMainLoopIndex[n]
  BY <1>1, TxRing DEF TxQueued
<1>3. Released(n) \in Int
  BY <1>1, <1>2, Counts DEF Released
<1>4. sendingReset[n] \in BOOLEAN /\ acceptAnySequenceBit[n] \in BOOLEAN
  BY DEF TypeOK
<1>. QED BY <1>1, <1>2, <1>3, <1>4, Typed, TypedBuffers DEF NodeTypes

LEMMA NodeTypedNext ==
  ASSUME NEW n \in Node
  PROVE  (TypeOK => NodeTypes(n))'
<1>1. TypeOK => NodeTypes(n)
  BY NodeTyped
<1>. QED BY <1>1, PTL

------------------------------------------------------------------------------
(* The parts of the invariant about the sender n, about the receiver n, and *)
(* about the packet between n and its peer; the state each of them reads.   *)

SenderOK(n) == ResetOK(n) /\ SequenceOK(n) /\ TxRingOK(n)
ReceiverOK(n) == LastInOK(n) /\ RxRingOK(n)

SenderView(n) ==
  <<sendingReset[n], nSent[n], txInterruptIndex[n], txMainLoopIndex[n],
    txPacket[n], txSequenceBit[n], boots[n], lastAcc[Peer(n)],
    acceptAnySequenceBit[Peer(n)], rxSequenceBit[Peer(n)]>>

ReceiverView(n) ==
  <<boots[n], boots[Peer(n)], acceptAnySequenceBit[n], lastIn[n], lastAcc[n],
    rxMainLoopIndex[n], rxInterruptIndex[n], rxPacket[n], taken[n]>>

PacketView(n) ==
  <<sendingReset[n], nSent[n], txInterruptIndex[n], txMainLoopIndex[n],
    txSequenceBit[n], boots[n], acceptAnySequenceBit[n], rxSequenceBit[n],
    lastAcc[n], sendingReset[Peer(n)], nSent[Peer(n)],
    txInterruptIndex[Peer(n)], txMainLoopIndex[Peer(n)]>>

LEMMA SenderSame ==
  ASSUME NEW n \in Node, SenderOK(n), UNCHANGED SenderView(n)
  PROVE  SenderOK(n)'
BY DEF SenderOK, SenderView, ResetOK, SequenceOK, TxRingOK, TxQueued, Released

LEMMA ReceiverSame ==
  ASSUME NEW n \in Node, ReceiverOK(n), UNCHANGED ReceiverView(n)
  PROVE  ReceiverOK(n)'
BY DEF ReceiverOK, ReceiverView, LastInOK, RxRingOK, MainLoopOwns, Follows

(* A packet that is still heard, and that was right, is right.              *)
LEMMA PacketSame ==
  ASSUME NEW n \in Node, FlightOK(n), UNCHANGED PacketView(n),
         UNCHANGED <<air[n], RxCurrent(Peer(n))>>,
         radio'[Peer(n)] = radio[Peer(n)] \/ radio'[Peer(n)] \notin {"sync", "good"}
  PROVE  FlightOK(n)'
BY DEF FlightOK, PacketView, PacketOK, AckOK, TxQueued, Released

(* The whole invariant, by its parts. *)
LEMMA Parts ==
  ProtocolInv <=> \A n \in Node : /\ MediumOK(n) /\ FlightOK(n)
                                  /\ SenderOK(n) /\ ReceiverOK(n)
BY DEF ProtocolInv, SenderOK, ReceiverOK

------------------------------------------------------------------------------
(* What n puts on the air.                                                  *)

LEMMA DataSent ==
  ASSUME TypeOK, TypeOK', NEW n \in Node, NEW t \in {"PING", "NAK", "ACK"},
         NEW tries, TxDataPacket(n, t, tries), UNCHANGED <<txPacket, txMainLoopIndex>>,
         SenderOK(n)', Queued(n)', t = "ACK" => AckOK(n)'
  PROVE  PacketOK(n, air[n])'
<1>1. air'[n] = [type |-> t, seq |-> txSequenceBit'[n],
                 data |-> txPacket'[n][txInterruptIndex'[n]]]
  BY DEF TxDataPacket, RadioMacTx, TypeOK
<1>. DEFINE i == txInterruptIndex'[n]
<1>2. /\ i \in 0 .. TX_PACKET_COUNT - 1 /\ TxQueued(n)' # 0
      /\ TxQueued(n)' \in 0 .. TX_PACKET_COUNT - 1 /\ Released(n)' \in Int
  BY NodeTypedNext DEF NodeTypes, Queued
<1>3. Ahead(TX_PACKET_COUNT, i, i) = 0
  BY <1>2 DEF Ahead
<1>4. txPacket'[n][i] = [boot |-> boots'[n], num |-> Released(n)' + 1]
  BY <1>2, <1>3 DEF SenderOK, TxRingOK
<1>5. ~sendingReset'[n]
  BY DEF SenderOK, ResetOK, Queued
<1>. QED BY <1>1, <1>2, <1>4, <1>5 DEF PacketOK

LEMMA HeaderSent ==
  ASSUME TypeOK, NEW n \in Node, NEW t \in PacketType,
         RadioMacTx(n, ShortPacket(t)), t = "ACK" => AckOK(n)',
         t = "RESET" => sendingReset'[n]
  PROVE  PacketOK(n, air[n])'
BY DEF RadioMacTx, TypeOK, ShortPacket, PacketOK

(* The radio sends, or listens; the flags "sync" and "good" stay right.     *)
LEMMA SendRight ==
  ASSUME TypeOK, NEW n \in Node, NEW k, RadioMacTx(n, k),
         radio[n] \notin {"tx", "sync"}, MediumOK(n), MediumOK(Peer(n)),
         PacketOK(n, air[n])',
         radio[Peer(n)] = "good" => PacketOK(n, RxCurrent(Peer(n)))'
  PROVE  \A m \in Node : MediumOK(m)' /\ FlightOK(m)'
<1>1. radio \in [Node -> {"off", "tx", "listen", "sync", "good", "bad"}]
  BY DEF TypeOK
<1>2. /\ radio'[n] = "tx" 
      /\ \/ radio'[Peer(n)] = radio[Peer(n)]
         \/ radio'[Peer(n)] = "sync"
  BY <1>1, PeerFacts DEF RadioMacTx
<1>3. radio[Peer(n)] # "sync"
  BY PeerFacts DEF MediumOK
<1>. QED BY <1>2, <1>3, PeerFacts DEF MediumOK, FlightOK

LEMMA ListenRight ==
  ASSUME TypeOK, NEW n \in Node, NEW t, RadioMacRx(n, t),
         radio[n] \notin {"tx", "sync"}, MediumOK(n), MediumOK(Peer(n)),
         radio[Peer(n)] = "good" => PacketOK(n, RxCurrent(Peer(n)))'
  PROVE  \A m \in Node : MediumOK(m)' /\ FlightOK(m)'
<1>1. radio \in [Node -> {"off", "tx", "listen", "sync", "good", "bad"}]
  BY DEF TypeOK
<1>2. radio'[n] = "listen" /\ radio'[Peer(n)] = radio[Peer(n)]
  BY <1>1, PeerFacts DEF RadioMacRx
<1>3. radio[Peer(n)] # "sync"
  BY PeerFacts DEF MediumOK
<1>. QED BY <1>2, <1>3, PeerFacts DEF MediumOK, FlightOK

------------------------------------------------------------------------------
(* What n does with an ACK: the Reset or the current packet is over.        *)

LEMMA HandleAckRight ==
  ASSUME TypeOK, NEW n \in Node, SenderOK(n), HandleAck(n),
         RxCurrent(n).type = "ACK" => AckOK(Peer(n)),
         UNCHANGED <<nSent, boots, txPacket, txMainLoopIndex, lastAcc[Peer(n)],
                     acceptAnySequenceBit[Peer(n)], rxSequenceBit[Peer(n)]>>
  PROVE  SenderOK(n)'
<1>. DEFINE q == TxQueued(n)
            r == Released(n)
<1>1. NodeTypes(n) /\ NodeTypes(Peer(n))
  BY NodeTyped, PeerFacts
<1>i. /\ txInterruptIndex[n] \in 0 .. TX_PACKET_COUNT - 1
      /\ txMainLoopIndex[n] \in 0 .. TX_PACKET_COUNT - 1
      /\ nSent[n] \in Nat /\ q \in Int /\ r \in Int
  BY <1>1 DEF NodeTypes
<1>2. /\ sendingReset' \in [Node -> BOOLEAN] /\ DOMAIN sendingReset = Node
      /\ DOMAIN txInterruptIndex = Node /\ DOMAIN txSequenceBit = Node
  BY HandleAckType DEF TypeOK, SenderType
<1>3. CASE ~AcksReset(n) /\ ~AcksData(n)
  <2>1. UNCHANGED SenderView(n)
    BY <1>3 DEF HandleAck, SenderView
  <2>. QED BY <2>1, SenderSame
<1>4. CASE AcksReset(n)
  <2>1. /\ sendingReset[n] /\ ~sendingReset'[n] /\ txSequenceBit'[n] = 0
        /\ txInterruptIndex' = txInterruptIndex
    BY <1>4, <1>2 DEF HandleAck, AcksReset, AcksData
  <2>2. rxSequenceBit[Peer(n)] = 1 \/ acceptAnySequenceBit[Peer(n)]
    BY <1>4, <2>1, PeerFacts DEF AcksReset, AckOK
  <2>3. q = 0 /\ r = 0 /\ nSent[n] = 0 /\ lastAcc[Peer(n)] = 0
    BY <1>1, <2>1 DEF SenderOK, ResetOK, NodeTypes, Released
  <2>4. TxQueued(n)' = 0 /\ Released(n)' = 0
    BY <2>1, <2>3 DEF TxQueued, Released
  <2>5. SequenceOK(n)'
    BY <2>1, <2>2, <2>3, <2>4 DEF SequenceOK
  <2>6. TxRingOK(n)'
    <3>1. \A i \in 0 .. TX_PACKET_COUNT - 1 :
            Ahead(TX_PACKET_COUNT, txInterruptIndex[n], i) >= 0
      BY <1>i, Counts DEF Ahead
    <3>. QED BY <2>1, <2>4, <3>1, <1>1, Counts DEF TxRingOK, Ahead, NodeTypes
  <2>. QED BY <2>1, <2>5, <2>6 DEF SenderOK, ResetOK
<1>5. CASE AcksData(n)
  <2>1. /\ ~sendingReset[n] /\ ~sendingReset'[n]
        /\ txInterruptIndex[n] # txMainLoopIndex[n]
        /\ txInterruptIndex'[n] = NextTx(txInterruptIndex[n])
        /\ txSequenceBit'[n] = 1 - txSequenceBit[n]
    BY <1>5, <1>2 DEF HandleAck, AcksReset, AcksData
  <2>2. lastAcc[Peer(n)] = r + 1 /\ q # 0 /\ r \in Nat
    BY <1>1, <1>5, <2>1, PeerFacts DEF AcksData, AckOK, SenderOK, SequenceOK, NodeTypes
  <2>3. TxQueued(n)' = q - 1 /\ Released(n)' = r + 1
    <3>1. TxQueued(n)' = q - 1
      BY <1>i, <2>1, Counts DEF TxQueued, Ahead, NextTx, Succ
    <3>. QED BY <3>1, <1>i DEF Released
  <2>4. SequenceOK(n)'
    <3>1. /\ r % 2 \in {0, 1} /\ (r + 1) % 2 = 1 - (r % 2)
      BY <2>2, Parity
    <3>2. txSequenceBit[n] = r % 2
      BY <2>1 DEF SenderOK, SequenceOK
    <3>3. /\ lastAcc[Peer(n)] <= nSent[n]
          /\ \/ acceptAnySequenceBit[Peer(n)]
             \/ rxSequenceBit[Peer(n)] = (lastAcc[Peer(n)] + 1) % 2
      BY <2>1 DEF SenderOK, SequenceOK
    <3>. QED BY <2>1, <2>2, <2>3, <3>1, <3>2, <3>3 DEF SequenceOK
  <2>5. TxRingOK(n)'
    <3>. SUFFICES ASSUME NEW i \in 0 .. TX_PACKET_COUNT - 1,
                         Ahead(TX_PACKET_COUNT, txInterruptIndex'[n], i) < q - 1
                  PROVE  txPacket[n][i] =
                           [boot |-> boots[n],
                            num |-> r + 2 + Ahead(TX_PACKET_COUNT, txInterruptIndex'[n], i)]
      BY <2>2, <2>3 DEF TxRingOK
    <3>1. Ahead(TX_PACKET_COUNT, txInterruptIndex'[n], i)
            = Ahead(TX_PACKET_COUNT, txInterruptIndex[n], i) - 1
      <4>1. q \in 0 .. TX_PACKET_COUNT - 1
        BY <1>1 DEF NodeTypes
      <4>2. i # txInterruptIndex[n]
        BY <4>1, <1>i, <2>1, Counts DEF Ahead, NextTx, Succ
      <4>. QED BY <4>2, <1>i, <2>1, Counts DEF Ahead, NextTx, Succ
    <3>2. Ahead(TX_PACKET_COUNT, txInterruptIndex[n], i) \in Int
      BY <1>i, Counts DEF Ahead
    <3>3. txPacket[n][i] =
            [boot |-> boots[n],
             num |-> r + 1 + Ahead(TX_PACKET_COUNT, txInterruptIndex[n], i)]
      BY <3>1, <3>2, <1>i DEF SenderOK, TxRingOK
    <3>. QED BY <3>1, <3>2, <3>3, <2>2
  <2>. QED BY <2>1, <2>4, <2>5 DEF SenderOK, ResetOK
<1>. QED BY <1>3, <1>4, <1>5

------------------------------------------------------------------------------
(* takeInitiative, and the answer to a packet. *)

LEMMA TakeInitiativeRight ==
  ASSUME TypeOK, TypeOK', NEW n \in Node, NEW tries, TakeInitiative(n, tries),
         UNCHANGED <<txPacket, txMainLoopIndex>>, SenderOK(n)',
         radio[n] \notin {"tx", "sync"}, MediumOK(n), MediumOK(Peer(n)),
         radio[Peer(n)] = "good" => PacketOK(n, RxCurrent(Peer(n)))'
  PROVE  \A m \in Node : MediumOK(m)' /\ FlightOK(m)'
<1>1. CASE sendingReset'[n] /\ TxResetPacket(n, tries)
  <2>1. PacketOK(n, air[n])'
    BY <1>1, HeaderSent DEF TxResetPacket, PacketType
  <2>. QED BY <1>1, <2>1, SendRight DEF TxResetPacket
<1>2. CASE txInterruptIndex'[n] # txMainLoopIndex[n] /\ TxDataPacket(n, "PING", tries)
  <2>1. PacketOK(n, air[n])'
    BY <1>2, DataSent DEF Queued
  <2>. QED BY <1>2, <2>1, SendRight DEF TxDataPacket
<1>3. CASE RadioMacRx(n, "none")
  BY <1>3, ListenRight
<1>. QED BY <1>1, <1>2, <1>3 DEF TakeInitiative

LEMMA RespondRight ==
  ASSUME TypeOK, TypeOK', NEW n \in Node, NEW t \in {"ACK", "NAK"}, Respond(n, t),
         UNCHANGED <<txPacket, txMainLoopIndex>>, SenderOK(n)',
         t = "ACK" => AckOK(n)',
         radio[n] \notin {"tx", "sync"}, MediumOK(n), MediumOK(Peer(n)),
         radio[Peer(n)] = "good" => PacketOK(n, RxCurrent(Peer(n)))'
  PROVE  \A m \in Node : MediumOK(m)' /\ FlightOK(m)'
<1>1. CASE /\ txInterruptIndex'[n] # txMainLoopIndex[n]
           /\ TxDataPacket(n, t, TriesAfterAck(n))
  <2>1. PacketOK(n, air[n])'
    BY <1>1, DataSent DEF Queued
  <2>. QED BY <1>1, <2>1, SendRight DEF TxDataPacket
<1>2. CASE RadioMacTx(n, ShortPacket(t))
  <2>1. PacketOK(n, air[n])'
    BY <1>2, HeaderSent DEF PacketType
  <2>. QED BY <1>2, <2>1, SendRight
<1>. QED BY <1>1, <1>2 DEF Respond

------------------------------------------------------------------------------
(* The steps of the RF interrupt, one by one. *)

(* A step of the radio alone leaves senders and receivers as they are.      *)
LinkVars == <<rxVars, txVars, sendingReset, acceptAnySequenceBit, rxSequenceBit,
              txSequenceBit, boots, nSent, histVars>>

LEMMA LinkSame ==
  ASSUME ProtocolInv, UNCHANGED LinkVars, NEW n \in Node
  PROVE  /\ SenderOK(n)' /\ ReceiverOK(n)'
         /\ UNCHANGED <<PacketView(n), RxCurrent(n), RxCurrent(Peer(n))>>
         /\ radio[Peer(n)] = "good" => PacketOK(n, RxCurrent(Peer(n)))'
<1>1. UNCHANGED <<SenderView(n), ReceiverView(n), PacketView(n), RxCurrent(n),
                  RxCurrent(Peer(n))>>
  BY DEF LinkVars, rxVars, txVars, histVars, SenderView, ReceiverView, PacketView,
         RxCurrent
<1>2. SenderOK(n) /\ ReceiverOK(n) /\ FlightOK(n)
  BY Parts
<1>3. SenderOK(n)' /\ ReceiverOK(n)'
  BY <1>1, <1>2, SenderSame, ReceiverSame
<1>4. radio[Peer(n)] = "good" => PacketOK(n, RxCurrent(Peer(n)))'
  BY <1>1, <1>2 DEF FlightOK, PacketView, PacketOK, AckOK, TxQueued, Released
<1>. QED BY <1>1, <1>3, <1>4

LEMMA PartsNext ==
  ASSUME \A n \in Node : MediumOK(n)' /\ FlightOK(n)',
         \A n \in Node : SenderOK(n)' /\ ReceiverOK(n)'
  PROVE  ProtocolInv'
BY DEF ProtocolInv, SenderOK, ReceiverOK

(* A step that changes nothing the invariant reads. *)
LEMMA NothingRead ==
  ASSUME ProtocolInv, UNCHANGED LinkVars, UNCHANGED <<radio, air>>
  PROVE  ProtocolInv'
<1>1. ASSUME NEW n \in Node
      PROVE  MediumOK(n)' /\ FlightOK(n)'
  <2>1. MediumOK(n) /\ FlightOK(n)
    BY Parts
  <2>. QED BY <2>1, LinkSame, PacketSame DEF MediumOK
<1>. QED BY <1>1, LinkSame, PartsNext

LEMMA InitiativeKeeps ==
  ASSUME TypeOK, TypeOK', ProtocolInv, NEW n \in Node,
         StrobeEvent(n) \/ RxTimeoutEvent(n)
  PROVE  ProtocolInv'
<1>1. UNCHANGED LinkVars /\ UNCHANGED <<txPacket, txMainLoopIndex>>
  BY DEF StrobeEvent, RxTimeoutEvent, LinkVars, rxVars, txVars, seqVars, appVars,
         histVars
<1>2. MediumOK(n) /\ MediumOK(Peer(n)) /\ radio[n] \notin {"tx", "sync"}
  BY Parts, PeerFacts DEF StrobeEvent, RxTimeoutEvent
<1>3. TakeInitiative(n, currentPacketTries[n])
  BY DEF StrobeEvent, RxTimeoutEvent
<1>4. \A m \in Node : MediumOK(m)' /\ FlightOK(m)'
  BY <1>1, <1>2, <1>3, LinkSame, TakeInitiativeRight
<1>. QED BY <1>1, <1>4, LinkSame, PartsNext

LEMMA BadCrcKeeps ==
  ASSUME TypeOK, ProtocolInv, NEW n \in Node, RxBadCrcEvent(n)
  PROVE  ProtocolInv'
<1>1. UNCHANGED LinkVars
  BY DEF RxBadCrcEvent, LinkVars, rxVars, txVars, seqVars, appVars, histVars
<1>2. MediumOK(n) /\ MediumOK(Peer(n)) /\ radio[n] \notin {"tx", "sync"}
  BY Parts, PeerFacts DEF RxBadCrcEvent
<1>3. PICK t : RadioMacRx(n, t)
  BY DEF RxBadCrcEvent
<1>4. \A m \in Node : MediumOK(m)' /\ FlightOK(m)'
  BY <1>1, <1>2, <1>3, LinkSame, ListenRight
<1>. QED BY <1>1, <1>4, LinkSame, PartsNext

LEMMA NoiseKeeps ==
  ASSUME TypeOK, ProtocolInv, NEW n \in Node, Noise(n)
  PROVE  ProtocolInv'
<1>1. UNCHANGED LinkVars /\ UNCHANGED air
  BY DEF Noise, LinkVars, rxVars, txVars, seqVars, appVars, histVars
<1>2. /\ radio[n] = "listen" /\ radio'[n] = "bad"
      /\ radio'[Peer(n)] = radio[Peer(n)]
  BY PeerFacts DEF Noise, TypeOK
<1>3. ASSUME NEW m \in Node
      PROVE  MediumOK(m)' /\ FlightOK(m)'
  <2>1. /\ MediumOK(m) /\ FlightOK(m) /\ MediumOK(Peer(m))
        /\ m = n \/ m = Peer(n)
    BY Parts, PeerFacts
  <2>2. MediumOK(m)'
    BY <1>2, <2>1, PeerFacts DEF MediumOK
  <2>3. FlightOK(m)'
    BY <1>1, <1>2, <2>1, PeerFacts, LinkSame, PacketSame
  <2>. QED BY <2>2, <2>3
<1>. QED BY <1>1, <1>3, LinkSame, PartsNext

(* The radio writes where the main loop does not look. *)
LEMMA ReceiverWrite ==
  ASSUME TypeOK, NEW n \in Node, ReceiverOK(n),
         UNCHANGED <<boots, acceptAnySequenceBit, lastIn, lastAcc, rxMainLoopIndex,
                     rxInterruptIndex, taken>>,
         \A i \in 0 .. RX_PACKET_COUNT - 1 :
           i # rxInterruptIndex[n] => rxPacket'[n][i] = rxPacket[n][i]
  PROVE  ReceiverOK(n)'
<1>1. LastInOK(n)'
  BY DEF ReceiverOK, LastInOK
<1>2. rxInterruptIndex[n] \in 0 .. RX_PACKET_COUNT - 1
      /\ rxMainLoopIndex[n] \in 0 .. RX_PACKET_COUNT - 1
  BY NodeTyped DEF NodeTypes
<1>3. ASSUME NEW i \in 0 .. RX_PACKET_COUNT - 1, MainLoopOwns(n, i)
      PROVE  /\ rxPacket'[n][i] = rxPacket[n][i]
             /\ NextRx(i) # rxInterruptIndex[n]
                  => rxPacket'[n][NextRx(i)] = rxPacket[n][NextRx(i)]
  <2>1. i # rxInterruptIndex[n]
    BY <1>2, <1>3, Counts DEF MainLoopOwns, Ahead
  <2>2. NextRx(i) \in 0 .. RX_PACKET_COUNT - 1
    BY RingFacts
  <2>. QED BY <2>1, <2>2
<1>4. RxRingOK(n)'
  BY <1>3 DEF ReceiverOK, RxRingOK, MainLoopOwns, Follows
<1>. QED BY <1>1, <1>4 DEF ReceiverOK

LEMMA TxEventKeeps ==
  ASSUME TypeOK, ProtocolInv, NEW n \in Node, TxEvent(n)
  PROVE  ProtocolInv'
<1>. DEFINE p == Peer(n)
<1>0. /\ p \in Node /\ p # n /\ Peer(p) = n
      /\ \A m \in Node : m = n \/ m = p
  BY PeerFacts
<1>1. /\ MediumOK(n) /\ FlightOK(n) /\ MediumOK(p)
      /\ \A m \in Node : SenderOK(m) /\ ReceiverOK(m)
  BY Parts, <1>0
<1>2. /\ radio'[n] = "listen" /\ radio[n] = "tx"
      /\ \/ /\ radio[p] # "sync" /\ radio'[p] = radio[p]
            /\ rxPacket' = rxPacket
         \/ /\ radio[p] = "sync" /\ radio'[p] = "good"
            /\ rxPacket' = [rxPacket EXCEPT ![p][rxInterruptIndex[p]] = air[n]]
         \/ radio[p] = "sync" /\ radio'[p] = "bad" /\ rxPacket' = rxPacket
  BY <1>0 DEF TxEvent, TypeOK
<1>3. UNCHANGED <<rxMainLoopIndex, rxInterruptIndex, txVars, seqVars, appVars,
                  histVars>>
  BY DEF TxEvent
<1>4. \A m \in Node : MediumOK(m)'
  BY <1>0, <1>1, <1>2 DEF MediumOK
<1>5. /\ radio[p] = "sync" /\ radio'[p] = "good" => RxCurrent(p)' = air[n]
      /\ \A m \in Node, i \in 0 .. RX_PACKET_COUNT - 1 :
           i # rxInterruptIndex[m] => rxPacket'[m][i] = rxPacket[m][i]
  <2>1. /\ rxPacket \in [Node -> [0 .. RX_PACKET_COUNT - 1 -> Packet]]
        /\ rxInterruptIndex[p] \in 0 .. RX_PACKET_COUNT - 1
        /\ rxInterruptIndex' = rxInterruptIndex
    BY <1>0, <1>3 DEF TypeOK
  <2>2. CASE ~(radio[p] = "sync" /\ radio'[p] = "good") /\ rxPacket' = rxPacket
    BY <2>2
  <2>3. CASE rxPacket' = [rxPacket EXCEPT ![p][rxInterruptIndex[p]] = air[n]]
    <3>1. rxPacket'[p] = [rxPacket[p] EXCEPT ![rxInterruptIndex[p]] = air[n]]
      BY <1>0, <2>1, <2>3
    <3>2. \A m \in Node : m # p => rxPacket'[m] = rxPacket[m]
      BY <1>0, <2>1, <2>3
    <3>3. rxPacket[p] \in [0 .. RX_PACKET_COUNT - 1 -> Packet]
      BY <1>0, <2>1
    <3>4. RxCurrent(p)' = air[n]
      BY <2>1, <3>1, <3>3 DEF RxCurrent
    <3>5. \A i \in 0 .. RX_PACKET_COUNT - 1 :
            i # rxInterruptIndex[p] => rxPacket'[p][i] = rxPacket[p][i]
      BY <3>1, <3>3
    <3>. QED BY <3>2, <3>4, <3>5
  <2>. QED BY <1>2, <2>2, <2>3
<1>6. \A m \in Node : FlightOK(m)'
  <2>1. UNCHANGED PacketView(n)
    BY <1>3 DEF PacketView, txVars, seqVars, appVars, histVars
  <2>2. CASE radio'[p] = "good"
    <3>1. CASE radio[p] = "good"
      <4>1. RxCurrent(p)' = RxCurrent(p)
        BY <1>2, <1>3, <3>1 DEF RxCurrent
      <4>2. PacketOK(n, RxCurrent(p))'
        BY <1>1, <2>1, <3>1, <4>1
        DEF FlightOK, PacketView, PacketOK, AckOK, TxQueued, Released
      <4>. QED BY <1>0, <1>2, <2>2, <4>2 DEF FlightOK
    <3>2. CASE radio[p] = "sync" /\ RxCurrent(p)' = air[n]
      <4>1. PacketOK(n, RxCurrent(p))'
        BY <1>1, <2>1, <3>2
        DEF FlightOK, PacketView, PacketOK, AckOK, TxQueued, Released
      <4>. QED BY <1>0, <1>2, <2>2, <4>1 DEF FlightOK
    <3>. QED BY <1>2, <1>5, <2>2, <3>1, <3>2
  <2>3. CASE radio'[p] # "good"
    BY <1>0, <1>2, <2>3 DEF FlightOK
  <2>. QED BY <2>2, <2>3
<1>7. ASSUME NEW m \in Node
      PROVE  SenderOK(m)' /\ ReceiverOK(m)'
  <2>1. UNCHANGED SenderView(m)
    BY <1>3 DEF SenderView, txVars, seqVars, appVars, histVars
  <2>2. SenderOK(m)'
    BY <1>1, <2>1, SenderSame
  <2>3. ReceiverOK(m)'
    BY <1>1, <1>3, <1>5, ReceiverWrite DEF seqVars, appVars, histVars
  <2>. QED BY <2>2, <2>3
<1>. QED BY <1>4, <1>6, <1>7, PartsNext

------------------------------------------------------------------------------
(* n has received a packet of its peer. *)

LEMMA HeardRight ==
  ASSUME ProtocolInv, NEW n \in Node, radio[n] = "good"
  PROVE  /\ MediumOK(n) /\ MediumOK(Peer(n)) /\ radio[Peer(n)] # "good"
         /\ PacketOK(Peer(n), RxCurrent(n))
         /\ RxCurrent(n).type = "ACK" => AckOK(Peer(n))
         /\ SenderOK(n) /\ SenderOK(Peer(n))
         /\ ReceiverOK(n) /\ ReceiverOK(Peer(n))
<1>1. /\ MediumOK(n) /\ MediumOK(Peer(n)) /\ FlightOK(Peer(n))
      /\ SenderOK(n) /\ SenderOK(Peer(n)) /\ ReceiverOK(n) /\ ReceiverOK(Peer(n))
  BY Parts, PeerFacts
<1>2. radio[Peer(n)] # "good"
  BY <1>1 DEF MediumOK
<1>3. PacketOK(Peer(n), RxCurrent(n))
  BY <1>1, PeerFacts DEF FlightOK
<1>. QED BY <1>1, <1>2, <1>3 DEF PacketOK

(* The Reset packet: the sender is not connected, so its next sequence bit  *)
(* is 0, and its first packet is accepted.                                  *)
LEMMA RxResetKeeps ==
  ASSUME TypeOK, ProtocolInv, NEW n \in Node, RxResetEvent(n)
  PROVE  ProtocolInv'
<1>. DEFINE p == Peer(n)
<1>0. /\ p \in Node /\ p # n /\ Peer(p) = n
      /\ \A m \in Node : m = n \/ m = p
  BY PeerFacts
<1>1. /\ radio[n] = "good" /\ RxCurrent(n).type = "RESET"
      /\ RadioMacTx(n, ShortPacket("ACK"))
      /\ UNCHANGED <<rxVars, txVars, sendingReset, acceptAnySequenceBit,
                     txSequenceBit, appVars, histVars>>
  BY DEF RxResetEvent
<1>2. rxSequenceBit'[n] = 1 /\ rxSequenceBit'[p] = rxSequenceBit[p]
  BY <1>0 DEF RxResetEvent, TypeOK
<1>3. /\ MediumOK(n) /\ MediumOK(p) /\ radio[p] # "good" /\ sendingReset[p]
      /\ SenderOK(n) /\ SenderOK(p) /\ ReceiverOK(n) /\ ReceiverOK(p)
  BY <1>1, HeardRight DEF PacketOK
<1>4. PacketOK(n, air[n])'
  <2>1. AckOK(n)'
    BY <1>1, <1>2, <1>3 DEF AckOK
  <2>. QED BY <1>1, <2>1, HeaderSent DEF PacketType
<1>5. \A m \in Node : MediumOK(m)' /\ FlightOK(m)'
  BY <1>1, <1>3, <1>4, SendRight
<1>6. SenderOK(n)'
  <2>1. UNCHANGED SenderView(n)
    BY <1>1, <1>2 DEF SenderView, txVars, appVars, histVars
  <2>. QED BY <1>3, <2>1, SenderSame
<1>7. SenderOK(p)'
  BY <1>0, <1>1, <1>3 DEF SenderOK, ResetOK, SequenceOK, TxRingOK, TxQueued, Released,
       txVars, appVars, histVars
<1>8. ReceiverOK(n)' /\ ReceiverOK(p)'
  <2>1. UNCHANGED <<ReceiverView(n), ReceiverView(p)>>
    BY <1>0, <1>1 DEF ReceiverView, rxVars, appVars, histVars
  <2>. QED BY <1>0, <1>3, <2>1, ReceiverSame
<1>. QED BY <1>0, <1>5, <1>6, <1>7, <1>8, PartsNext

(* What HandleAck leaves alone. *)
LEMMA HandleAckOther ==
  ASSUME TypeOK, NEW n \in Node, HandleAck(n)
  PROVE  /\ sendingReset'[Peer(n)] = sendingReset[Peer(n)]
         /\ txInterruptIndex'[Peer(n)] = txInterruptIndex[Peer(n)]
         /\ txSequenceBit'[Peer(n)] = txSequenceBit[Peer(n)]
BY PeerFacts DEF HandleAck, TypeOK

(* A packet without data. *)
LEMMA RxNoDataKeeps ==
  ASSUME TypeOK, TypeOK', ProtocolInv, NEW n \in Node, RxNoDataEvent(n)
  PROVE  ProtocolInv'
<1>. DEFINE p == Peer(n)
<1>0. /\ p \in Node /\ p # n /\ Peer(p) = n
      /\ \A m \in Node : m = n \/ m = p
  BY PeerFacts
<1>1. /\ radio[n] = "good" /\ HandleAck(n)
      /\ TakeInitiative(n, TriesAfterAck(n))
      /\ UNCHANGED <<rxVars, txPacket, txMainLoopIndex, acceptAnySequenceBit,
                     rxSequenceBit, appVars, histVars>>
  BY DEF RxNoDataEvent
<1>2. /\ MediumOK(n) /\ MediumOK(p) /\ radio[p] # "good"
      /\ RxCurrent(n).type = "ACK" => AckOK(p)
      /\ SenderOK(n) /\ SenderOK(p) /\ ReceiverOK(n) /\ ReceiverOK(p)
  BY <1>1, HeardRight
<1>3. SenderOK(n)'
  BY <1>1, <1>2, HandleAckRight DEF appVars, histVars
<1>4. SenderOK(p)'
  <2>1. UNCHANGED SenderView(p)
    BY <1>0, <1>1, HandleAckOther DEF SenderView, appVars, histVars
  <2>. QED BY <1>0, <1>2, <2>1, SenderSame
<1>5. ReceiverOK(n)' /\ ReceiverOK(p)'
  <2>1. UNCHANGED <<ReceiverView(n), ReceiverView(p)>>
    BY <1>0, <1>1 DEF ReceiverView, rxVars, appVars, histVars
  <2>. QED BY <1>0, <1>2, <2>1, ReceiverSame
<1>6. \A m \in Node : MediumOK(m)' /\ FlightOK(m)'
  BY <1>1, <1>2, <1>3, TakeInitiativeRight
<1>. QED BY <1>0, <1>3, <1>4, <1>5, <1>6, PartsNext

(* A retransmission, or data without a free buffer. *)
LEMMA RxRefuseKeeps ==
  ASSUME TypeOK, TypeOK', ProtocolInv, NEW n \in Node, RxRefuseEvent(n)
  PROVE  ProtocolInv'
<1>. DEFINE p == Peer(n)
            t == IF IsNew(n) THEN "NAK" ELSE "ACK"
<1>0. /\ p \in Node /\ p # n /\ Peer(p) = n
      /\ \A m \in Node : m = n \/ m = p
  BY PeerFacts
<1>1. /\ radio[n] = "good" /\ RxCurrent(n).data # NoData /\ HandleAck(n)
      /\ Respond(n, t)
      /\ UNCHANGED <<rxVars, txPacket, txMainLoopIndex, acceptAnySequenceBit,
                     rxSequenceBit, appVars, histVars>>
  BY DEF RxRefuseEvent, RxData
<1>2. /\ MediumOK(n) /\ MediumOK(p) /\ radio[p] # "good"
      /\ RxCurrent(n).type = "ACK" => AckOK(p)
      /\ PacketOK(p, RxCurrent(n))
      /\ SenderOK(n) /\ SenderOK(p) /\ ReceiverOK(n) /\ ReceiverOK(p)
  BY <1>1, HeardRight
<1>3. SenderOK(n)'
  BY <1>1, <1>2, HandleAckRight DEF appVars, histVars
<1>4. SenderOK(p)' /\ Released(p)' = Released(p) /\ sendingReset'[p] = sendingReset[p]
  <2>1. UNCHANGED SenderView(p) /\ Released(p)' = Released(p)
    BY <1>0, <1>1, HandleAckOther DEF SenderView, Released, TxQueued, appVars, histVars
  <2>. QED BY <1>0, <1>1, <1>2, <2>1, SenderSame, HandleAckOther
<1>5. ReceiverOK(n)' /\ ReceiverOK(p)'
  <2>1. UNCHANGED <<ReceiverView(n), ReceiverView(p)>>
    BY <1>0, <1>1 DEF ReceiverView, rxVars, appVars, histVars
  <2>. QED BY <1>0, <1>2, <2>1, ReceiverSame
<1>6. t = "ACK" => AckOK(n)'
  <2>. SUFFICES ASSUME ~IsNew(n)
                PROVE  AckOK(n)'
    OBVIOUS
  <2>1. ~acceptAnySequenceBit[n] /\ rxSequenceBit[n] = RxCurrent(n).seq
    BY DEF IsNew
  <2>2. ~sendingReset[p] /\ RxCurrent(n).seq = txSequenceBit[p]
    BY <1>1, <1>2 DEF PacketOK
  <2>3. /\ lastAcc[n] \in {Released(p), Released(p) + 1} /\ Released(p) >= 0
        /\ txSequenceBit[p] = Released(p) % 2
        /\ rxSequenceBit[n] = (lastAcc[n] + 1) % 2
    BY <1>0, <1>2, <2>1, <2>2 DEF SenderOK, SequenceOK
  <2>4. Released(p) \in Nat
    BY <1>0, <2>3, NodeTyped DEF NodeTypes
  <2>5. lastAcc[n] # Released(p)
    BY <2>1, <2>2, <2>3, <2>4, Parity
  <2>. QED BY <1>1, <1>4, <2>1, <2>2, <2>3, <2>5 DEF AckOK, histVars
<1>7. \A m \in Node : MediumOK(m)' /\ FlightOK(m)'
  <2>1. t \in {"ACK", "NAK"}
    OBVIOUS
  <2>. QED BY <1>1, <1>2, <1>3, <1>6, <2>1, RespondRight
<1>. QED BY <1>0, <1>3, <1>4, <1>5, <1>7, PartsNext

(* What is new and fits continues what n has accepted. *)
LEMMA NewFollows ==
  ASSUME TypeOK, NEW n \in Node, PacketOK(Peer(n), RxCurrent(n)),
         RxCurrent(n).data # NoData, IsNew(n),
         SenderOK(Peer(n)), ReceiverOK(n), ReceiverOK(Peer(n))
  PROVE  /\ ~sendingReset[Peer(n)] /\ Released(Peer(n)) \in Nat
         /\ RxCurrent(n).data = [boot |-> boots[Peer(n)], num |-> Released(Peer(n)) + 1]
         /\ RxCurrent(n).seq = Released(Peer(n)) % 2
         /\ Released(Peer(n)) + 1 <= nSent[Peer(n)]
         /\ boots[Peer(n)] >= 1
         /\ Follows(boots[n], lastIn[n], RxCurrent(n).data)
<1>. DEFINE p == Peer(n)
            r == Released(p)
<1>0. p \in Node /\ Peer(p) = n
  BY PeerFacts
<1>1. /\ ~sendingReset[p] /\ TxQueued(p) # 0
      /\ RxCurrent(n).data = [boot |-> boots[p], num |-> r + 1]
      /\ RxCurrent(n).seq = txSequenceBit[p]
  BY DEF PacketOK
<1>2. /\ r >= 0 /\ lastAcc[n] \in {r, r + 1} /\ txSequenceBit[p] = r % 2
      /\ acceptAnySequenceBit[n] \/ rxSequenceBit[n] = (lastAcc[n] + 1) % 2
  BY <1>0, <1>1 DEF SenderOK, SequenceOK
<1>3. NodeTypes(p) /\ NodeTypes(n)
  BY <1>0, NodeTyped
<1>4. r \in Nat /\ nSent[p] \in Nat /\ r + 1 <= nSent[p]
  <2>1. nSent[p] \in Nat /\ TxQueued(p) \in Nat
    BY <1>3, Counts DEF NodeTypes
  <2>. QED BY <1>1, <1>2, <2>1 DEF Released
<1>5. boots[p] >= 1 /\ boots[p] \in Nat /\ boots[n] \in Nat /\ lastIn[n] \in Payload
  BY <1>3 DEF ReceiverOK, LastInOK, NodeTypes
<1>6. acceptAnySequenceBit[n] \/ lastAcc[n] = r
  BY <1>1, <1>2, <1>4, Parity DEF IsNew
<1>7. /\ acceptAnySequenceBit[n] <=> lastIn[n] = NoData
      /\ acceptAnySequenceBit[n] /\ boots[n] = 1 => lastAcc[n] = 0
      /\ lastIn[n].boot <= boots[p]
      /\ lastIn[n] # NoData =>
           IF lastIn[n].boot = boots[p] THEN lastIn[n].num = lastAcc[n]
           ELSE lastAcc[n] = 0
  BY DEF ReceiverOK, LastInOK
<1>8. lastIn[n].boot \in Nat
  BY <1>5 DEF Payload
<1>9. Follows(boots[n], lastIn[n], RxCurrent(n).data)
  <2>1. RxCurrent(n).data.boot = boots[p] /\ RxCurrent(n).data.num = r + 1
    BY <1>1
  <2>2. CASE acceptAnySequenceBit[n]
    <3>1. boots[n] = 1 => r = 0
      BY <1>2, <1>4, <1>7, <2>2
    <3>. QED BY <1>7, <2>1, <2>2, <3>1 DEF Follows
  <2>3. CASE ~acceptAnySequenceBit[n] /\ lastIn[n].boot = boots[p]
    BY <1>6, <1>7, <2>1, <2>3 DEF Follows
  <2>4. CASE ~acceptAnySequenceBit[n] /\ lastIn[n].boot # boots[p]
    <3>1. r = 0 /\ boots[p] > lastIn[n].boot
      BY <1>5, <1>6, <1>7, <1>8, <2>4
    <3>. QED BY <1>7, <2>1, <2>4, <3>1 DEF Follows
  <2>. QED BY <2>2, <2>3, <2>4
<1>. QED BY <1>1, <1>2, <1>4, <1>5, <1>9

(* The ring the main loop reads from, when the interrupt adds a buffer and  *)
(* when the main loop takes one.                                            *)
LEMMA OwnsAfterPush ==
  ASSUME NEW m \in 0 .. RX_PACKET_COUNT - 1, NEW j \in 0 .. RX_PACKET_COUNT - 1,
         NEW i \in 0 .. RX_PACKET_COUNT - 1, NextRx(j) # m
  PROVE  /\ Ahead(RX_PACKET_COUNT, m, i) < Ahead(RX_PACKET_COUNT, m, NextRx(j))
              <=> \/ Ahead(RX_PACKET_COUNT, m, i) < Ahead(RX_PACKET_COUNT, m, j)
                  \/ i = j
         /\ i # j => NextRx(i) # NextRx(j)
         /\ ~(Ahead(RX_PACKET_COUNT, m, j) < Ahead(RX_PACKET_COUNT, m, j))
BY Counts DEF Ahead, NextRx, Succ

LEMMA OwnsAfterPop ==
  ASSUME NEW m \in 0 .. RX_PACKET_COUNT - 1, NEW j \in 0 .. RX_PACKET_COUNT - 1,
         NEW i \in 0 .. RX_PACKET_COUNT - 1, m # j
  PROVE  /\ Ahead(RX_PACKET_COUNT, NextRx(m), i)
                < Ahead(RX_PACKET_COUNT, NextRx(m), j)
              <=> /\ Ahead(RX_PACKET_COUNT, m, i) < Ahead(RX_PACKET_COUNT, m, j)
                  /\ i # m
         /\ Ahead(RX_PACKET_COUNT, m, m) < Ahead(RX_PACKET_COUNT, m, j)
BY Counts DEF Ahead, NextRx, Succ

LEMMA AcceptedInRing ==
  ASSUME TypeOK, NEW n \in Node, ReceiverOK(n), ~RxFull(n),
         RxCurrent(n).data # NoData,
         Follows(boots[n], lastIn[n], RxCurrent(n).data),
         rxInterruptIndex'[n] = NextRx(rxInterruptIndex[n]),
         lastIn'[n] = RxCurrent(n).data,
         UNCHANGED <<rxPacket, rxMainLoopIndex, boots, taken>>
  PROVE  RxRingOK(n)'
<1>. DEFINE m == rxMainLoopIndex[n]
            j == rxInterruptIndex[n]
            k == RxCurrent(n).data
<1>1. /\ m \in 0 .. RX_PACKET_COUNT - 1 /\ j \in 0 .. RX_PACKET_COUNT - 1
      /\ NextRx(j) # m
  BY NodeTyped DEF NodeTypes, RxFull
<1>2. /\ \A i \in 0 .. RX_PACKET_COUNT - 1 :
           MainLoopOwns(n, i)' <=> MainLoopOwns(n, i) \/ i = j
      /\ ~MainLoopOwns(n, j)
  BY <1>1, OwnsAfterPush DEF MainLoopOwns
<1>3. rxPacket[n][j].data = k
  BY DEF RxCurrent
<1>4. ASSUME NEW i \in 0 .. RX_PACKET_COUNT - 1, MainLoopOwns(n, i)
      PROVE  /\ rxPacket[n][i].data # NoData
             /\ i = m => Follows(boots[n], taken[n], rxPacket[n][i].data)
             /\ NextRx(i) # NextRx(j)
             /\ Follows(boots[n], rxPacket[n][i].data, rxPacket[n][NextRx(i)].data)
  <2>1. i # j
    BY <1>2, <1>4
  <2>2. NextRx(i) # NextRx(j)
    BY <1>1, <2>1, OwnsAfterPush
  <2>3. /\ rxPacket[n][i].data # NoData
        /\ i = m => Follows(boots[n], taken[n], rxPacket[n][i].data)
        /\ IF NextRx(i) = j
           THEN rxPacket[n][i].data = lastIn[n]
           ELSE Follows(boots[n], rxPacket[n][i].data, rxPacket[n][NextRx(i)].data)
    BY <1>4 DEF ReceiverOK, RxRingOK
  <2>. QED BY <1>3, <2>2, <2>3
<1>5. j = m => Follows(boots[n], taken[n], k)
  BY DEF ReceiverOK, RxRingOK
<1>6. ASSUME NEW i \in 0 .. RX_PACKET_COUNT - 1, MainLoopOwns(n, i)'
      PROVE  /\ rxPacket'[n][i].data # NoData
             /\ i = rxMainLoopIndex'[n]
                  => Follows(boots'[n], taken'[n], rxPacket'[n][i].data)
             /\ IF NextRx(i) = rxInterruptIndex'[n]
                THEN rxPacket'[n][i].data = lastIn'[n]
                ELSE Follows(boots'[n], rxPacket'[n][i].data,
                             rxPacket'[n][NextRx(i)].data)
  <2>1. CASE i = j
    BY <1>3, <1>5, <2>1
  <2>2. CASE MainLoopOwns(n, i)
    BY <1>4, <2>2
  <2>. QED BY <1>2, <1>6, <2>1, <2>2
<1>7. rxMainLoopIndex'[n] # rxInterruptIndex'[n]
  BY <1>1
<1>. QED BY <1>6, <1>7 DEF RxRingOK, Follows

(* New data and a buffer for it. *)
LEMMA RxAcceptKeeps ==
  ASSUME TypeOK, TypeOK', ProtocolInv, NEW n \in Node, RxAcceptEvent(n)
  PROVE  ProtocolInv'
<1>. DEFINE p == Peer(n)
            k == RxCurrent(n)
            r == Released(p)
<1>0. /\ p \in Node /\ p # n /\ Peer(p) = n
      /\ \A m \in Node : m = n \/ m = p
  BY PeerFacts
<1>1. /\ radio[n] = "good" /\ k.data # NoData /\ HandleAck(n)
      /\ IsNew(n) /\ ~RxFull(n) /\ Respond(n, "ACK")
      /\ UNCHANGED <<rxPacket, rxMainLoopIndex, txPacket, txMainLoopIndex, appVars,
                     taken>>
  BY DEF RxAcceptEvent, RxData
<1>2. /\ rxSequenceBit'[n] = k.seq /\ ~acceptAnySequenceBit'[n]
      /\ rxInterruptIndex'[n] = NextRx(rxInterruptIndex[n])
      /\ lastAcc'[n] = k.data.num /\ lastIn'[n] = k.data
      /\ UNCHANGED <<rxSequenceBit[p], acceptAnySequenceBit[p],
                     rxInterruptIndex[p], lastAcc[p], lastIn[p]>>
  BY <1>0 DEF RxAcceptEvent, TypeOK
<1>3. /\ MediumOK(n) /\ MediumOK(p) /\ radio[p] # "good"
      /\ k.type = "ACK" => AckOK(p)
      /\ PacketOK(p, k)
      /\ SenderOK(n) /\ SenderOK(p) /\ ReceiverOK(n) /\ ReceiverOK(p)
  BY <1>1, HeardRight
<1>4. /\ ~sendingReset[p] /\ r \in Nat
      /\ k.data = [boot |-> boots[p], num |-> r + 1] /\ k.seq = r % 2
      /\ r + 1 <= nSent[p] /\ boots[p] >= 1
      /\ Follows(boots[n], lastIn[n], k.data)
  BY <1>1, <1>3, NewFollows
<1>5. SenderOK(n)'
  BY <1>1, <1>2, <1>3, HandleAckRight DEF appVars
<1>6. /\ UNCHANGED <<sendingReset[p], txInterruptIndex[p], txSequenceBit[p],
                     txMainLoopIndex, txPacket, nSent, boots>>
      /\ Released(p)' = r
  BY <1>1, HandleAckOther DEF Released, TxQueued, appVars
<1>7. SenderOK(p)'
  <2>1. ResetOK(p)' /\ TxRingOK(p)'
    BY <1>3, <1>4, <1>6 DEF SenderOK, ResetOK, TxRingOK, TxQueued, Released
  <2>2. SequenceOK(p)'
    <3>1. txSequenceBit[p] = r % 2
      BY <1>3, <1>4 DEF SenderOK, SequenceOK
    <3>2. lastAcc'[n] = r + 1 /\ rxSequenceBit'[n] = (r + 2) % 2
      BY <1>2, <1>4, Parity
    <3>. QED BY <1>0, <1>4, <1>6, <3>1, <3>2 DEF SequenceOK
  <2>. QED BY <2>1, <2>2 DEF SenderOK
<1>8. ReceiverOK(n)'
  <2>1. k.data.boot = boots[p] /\ k.data.num = r + 1
    BY <1>4
  <2>2. boots[p] \in Nat /\ boots' = boots
    BY <1>0, <1>1, NodeTyped DEF NodeTypes, appVars
  <2>3. LastInOK(n)'
    BY <1>1, <1>2, <1>3, <2>1, <2>2 DEF ReceiverOK, LastInOK
  <2>4. RxRingOK(n)'
    BY <1>1, <1>2, <1>3, <1>4, <2>2, AcceptedInRing
  <2>. QED BY <2>3, <2>4 DEF ReceiverOK
<1>9. ReceiverOK(p)'
  <2>1. UNCHANGED ReceiverView(p)
    BY <1>0, <1>1, <1>2 DEF ReceiverView, appVars
  <2>. QED BY <1>0, <1>3, <2>1, ReceiverSame
<1>10. AckOK(n)'
  BY <1>2, <1>4, <1>6 DEF AckOK
<1>11. \A m \in Node : MediumOK(m)' /\ FlightOK(m)'
  BY <1>1, <1>3, <1>5, <1>10, RespondRight
<1>. QED BY <1>0, <1>5, <1>7, <1>8, <1>9, <1>11, PartsNext

------------------------------------------------------------------------------
(* The main loop, and a restart. *)

(* A packet is queued behind the others. *)
LEMMA SendPacketKeeps ==
  ASSUME TypeOK, ProtocolInv, Disciplined, NEW n \in Node, RadioLinkTxSendPacket(n)
  PROVE  ProtocolInv'
<1>. DEFINE p == Peer(n)
            d == [boot |-> boots[n], num |-> nSent[n] + 1]
            c == TX_PACKET_COUNT
            i0 == txInterruptIndex[n]
            j == txMainLoopIndex[n]
            q == TxQueued(n)
            r == Released(n)
<1>0. /\ p \in Node /\ p # n /\ Peer(p) = n
      /\ \A m \in Node : m = n \/ m = p
  BY PeerFacts
<1>1. /\ ~sendingReset[n] /\ TxAvailable(n) # 0
      /\ UNCHANGED <<macVars, rxVars, txInterruptIndex, seqVars, boots, histVars>>
  BY DEF RadioLinkTxSendPacket, Disciplined
<1>2. /\ txPacket' = [txPacket EXCEPT ![n][j] = d]
      /\ txMainLoopIndex'[n] = NextTx(j) /\ nSent'[n] = nSent[n] + 1
      /\ txMainLoopIndex'[p] = txMainLoopIndex[p] /\ nSent'[p] = nSent[p]
      /\ txPacket'[p] = txPacket[p]
  BY <1>0 DEF RadioLinkTxSendPacket, TypeOK
<1>3. /\ i0 \in 0 .. c - 1 /\ j \in 0 .. c - 1 /\ nSent[n] \in Nat
      /\ q \in 0 .. c - 1 /\ r \in Int
      /\ txPacket[n] \in [0 .. c - 1 -> Payload]
  BY NodeTyped DEF NodeTypes
<1>4. txPacket'[n] = [txPacket[n] EXCEPT ![j] = d]
  BY <1>2 DEF TypeOK
<1>5. q = Ahead(c, i0, j) /\ q # c - 1
  BY <1>1, <1>3, Counts DEF TxAvailable, TxQueued
<1>6. TxQueued(n)' = q + 1 /\ Released(n)' = r
  <2>1. Ahead(c, i0, NextTx(j)) = q + 1
    <3>1. i0 \in 0 .. c - 1 /\ j \in 0 .. c - 1 /\ Ahead(c, i0, j) # c - 1
      BY <1>3, <1>5
    <3>. HIDE DEF i0, j
    <3>2. Ahead(c, i0, NextTx(j)) = Ahead(c, i0, j) + 1
      BY <3>1, Counts DEF Ahead, NextTx, Succ
    <3>. QED BY <1>5, <3>2
  <2>2. TxQueued(n)' = q + 1
    BY <1>1, <1>2, <2>1 DEF TxQueued
  <2>3. nSent'[n] = nSent[n] + 1 /\ nSent[n] \in Int /\ q \in Int
    BY <1>2, <1>3
  <2>. QED BY <2>2, <2>3 DEF Released
<1>7. /\ TxQueued(p)' = TxQueued(p) /\ Released(p)' = Released(p)
  BY <1>1, <1>2 DEF TxQueued, Released
<1>8. \A m \in Node : /\ MediumOK(m) /\ FlightOK(m)
                      /\ SenderOK(m) /\ ReceiverOK(m)
  BY Parts
<1>9. SenderOK(n)'
  <2>1. ResetOK(n)'
    BY <1>1 DEF ResetOK, seqVars
  <2>2. SequenceOK(n)'
    <3>1. lastAcc[p] \in Nat
      BY <1>0, NodeTyped DEF NodeTypes
    <3>. QED BY <1>1, <1>2, <1>3, <1>6, <1>8, <3>1 DEF SenderOK, SequenceOK, seqVars, histVars
  <2>3. TxRingOK(n)'
    <3>. SUFFICES ASSUME NEW i \in 0 .. c - 1, Ahead(c, i0, i) < q + 1
                  PROVE  txPacket'[n][i] = [boot |-> boots[n],
                                            num |-> r + 1 + Ahead(c, i0, i)]
      BY <1>1, <1>6 DEF TxRingOK
    <3>1. CASE i = j
      <4>1. r + 1 + Ahead(c, i0, i) = nSent[n] + 1
        BY <1>3, <1>5, <3>1 DEF Released
      <4>. QED BY <1>3, <1>4, <3>1, <4>1
    <3>2. CASE i # j
      <4>1. Ahead(c, i0, i) < q
        <5>1. Ahead(c, i0, i) # Ahead(c, i0, j)
          <6>1. i0 \in 0 .. c - 1 /\ j \in 0 .. c - 1
            BY <1>3
          <6>. HIDE DEF i0, j
          <6>. QED BY <3>2, <6>1, Counts DEF Ahead
        <5>2. Ahead(c, i0, i) \in Int
          BY <1>3, Counts DEF Ahead
        <5>. QED BY <1>3, <1>5, <5>1, <5>2
      <4>2. txPacket[n][i] = [boot |-> boots[n], num |-> r + 1 + Ahead(c, i0, i)]
        BY <1>8, <4>1 DEF SenderOK, TxRingOK
      <4>. QED BY <1>3, <1>4, <3>2, <4>2
    <3>. QED BY <3>1, <3>2
  <2>. QED BY <2>1, <2>2, <2>3 DEF SenderOK
<1>10. SenderOK(p)'
  <2>1. UNCHANGED SenderView(p)
    BY <1>1, <1>2 DEF SenderView, seqVars, histVars
  <2>. QED BY <1>0, <1>8, <2>1, SenderSame
<1>11. \A m \in Node : ReceiverOK(m)'
  <2>. SUFFICES ASSUME NEW m \in Node
                PROVE  ReceiverOK(m)'
    OBVIOUS
  <2>1. UNCHANGED ReceiverView(m)
    BY <1>1 DEF ReceiverView, rxVars, seqVars, histVars
  <2>. QED BY <1>8, <2>1, ReceiverSame
<1>12. UNCHANGED <<radio, air, rxPacket, rxInterruptIndex>>
  BY <1>1 DEF macVars, rxVars
<1>13. MediumOK(n)' /\ MediumOK(p)'
  BY <1>0, <1>8, <1>12 DEF MediumOK
<1>14. FlightOK(n)'
  <2>1. FlightOK(n) /\ q + 1 # 0
    BY <1>3, <1>8
  <2>. QED BY <1>1, <1>6, <1>7, <1>12, <2>1
       DEF FlightOK, PacketOK, AckOK, RxCurrent, seqVars, histVars
<1>15. FlightOK(p)'
  <2>1. FlightOK(p)
    BY <1>0, <1>8
  <2>. QED BY <1>0, <1>1, <1>6, <1>7, <1>12, <2>1
       DEF FlightOK, PacketOK, AckOK, RxCurrent, seqVars, histVars
<1>. QED BY <1>0, <1>9, <1>10, <1>11, <1>13, <1>14, <1>15, PartsNext

(* The main loop has read the oldest packet: the next one follows it. *)
LEMMA DoneWithPacketKeeps ==
  ASSUME TypeOK, ProtocolInv, NEW n \in Node, RadioLinkRxDoneWithPacket(n)
  PROVE  ProtocolInv'
<1>. DEFINE p == Peer(n)
            m == rxMainLoopIndex[n]
            j == rxInterruptIndex[n]
<1>0. /\ p \in Node /\ p # n /\ Peer(p) = n
      /\ \A x \in Node : x = n \/ x = p
  BY PeerFacts
<1>1. /\ m # j
      /\ UNCHANGED <<macVars, rxPacket, rxInterruptIndex, txVars, seqVars, appVars,
                     lastAcc, lastIn>>
  BY DEF RadioLinkRxDoneWithPacket
<1>2. /\ taken'[n] = rxPacket[n][m].data /\ rxMainLoopIndex'[n] = NextRx(m)
      /\ taken'[p] = taken[p] /\ rxMainLoopIndex'[p] = rxMainLoopIndex[p]
  BY <1>0 DEF RadioLinkRxDoneWithPacket, TypeOK
<1>3. m \in 0 .. RX_PACKET_COUNT - 1 /\ j \in 0 .. RX_PACKET_COUNT - 1
  BY NodeTyped DEF NodeTypes
<1>4. \A x \in Node : /\ MediumOK(x) /\ FlightOK(x)
                      /\ SenderOK(x) /\ ReceiverOK(x)
  BY Parts
<1>5. \A i \in 0 .. RX_PACKET_COUNT - 1 :
        MainLoopOwns(n, i)' <=> MainLoopOwns(n, i) /\ i # m
  BY <1>1, <1>2, <1>3, OwnsAfterPop DEF MainLoopOwns
<1>6. /\ MainLoopOwns(n, m) /\ NextRx(m) \in 0 .. RX_PACKET_COUNT - 1
  BY <1>1, <1>3, OwnsAfterPop, RingFacts DEF MainLoopOwns
<1>7. RxRingOK(n)'
  <2>1. IF NextRx(m) = j
        THEN rxPacket[n][m].data = lastIn[n]
        ELSE Follows(boots[n], rxPacket[n][m].data, rxPacket[n][NextRx(m)].data)
    BY <1>3, <1>4, <1>6 DEF ReceiverOK, RxRingOK
  <2>2. rxMainLoopIndex'[n] = rxInterruptIndex'[n] => taken'[n] = lastIn'[n]
    BY <1>1, <1>2, <2>1
  <2>3. ASSUME NEW i \in 0 .. RX_PACKET_COUNT - 1, MainLoopOwns(n, i)'
        PROVE  /\ rxPacket[n][i].data # NoData
               /\ i = NextRx(m)
                    => Follows(boots[n], rxPacket[n][m].data, rxPacket[n][i].data)
               /\ IF NextRx(i) = j
                  THEN rxPacket[n][i].data = lastIn[n]
                  ELSE Follows(boots[n], rxPacket[n][i].data,
                               rxPacket[n][NextRx(i)].data)
    <3>1. MainLoopOwns(n, i)
      BY <1>5, <2>3
    <3>2. /\ rxPacket[n][i].data # NoData
          /\ IF NextRx(i) = j
             THEN rxPacket[n][i].data = lastIn[n]
             ELSE Follows(boots[n], rxPacket[n][i].data, rxPacket[n][NextRx(i)].data)
      BY <1>4, <3>1 DEF ReceiverOK, RxRingOK
    <3>3. i = NextRx(m) => NextRx(m) # j
      BY <1>1, <1>2, <1>3, <2>3, Counts DEF MainLoopOwns, Ahead
    <3>. QED BY <2>1, <3>2, <3>3
  <2>4. UNCHANGED <<rxPacket, boots, rxInterruptIndex, lastIn>>
    BY <1>1 DEF appVars
  <2>. QED BY <1>2, <2>2, <2>3, <2>4 DEF RxRingOK, Follows
<1>8. ReceiverOK(n)'
  <2>1. LastInOK(n)'
    BY <1>1, <1>4 DEF ReceiverOK, LastInOK, seqVars, appVars
  <2>. QED BY <1>7, <2>1 DEF ReceiverOK
<1>9. ReceiverOK(p)'
  <2>1. UNCHANGED ReceiverView(p)
    BY <1>1, <1>2 DEF ReceiverView, seqVars, appVars
  <2>. QED BY <1>0, <1>4, <2>1, ReceiverSame
<1>10. ASSUME NEW x \in Node
       PROVE  SenderOK(x)' /\ MediumOK(x)' /\ FlightOK(x)'
  <2>1. UNCHANGED <<SenderView(x), PacketView(x), radio, air, RxCurrent(Peer(x))>>
    BY <1>1 DEF SenderView, PacketView, RxCurrent, macVars, txVars, seqVars, appVars
  <2>. QED BY <1>4, <2>1, SenderSame, PacketSame DEF MediumOK
<1>. QED BY <1>0, <1>8, <1>9, <1>10, PartsNext

(* n starts again: it accepts anything, its peer has accepted nothing of    *)
(* its new life, and no packet is on its way.                               *)
LEMMA RestartKeeps ==
  ASSUME TypeOK, ProtocolInv, NEW n \in Node, Restart(n)
  PROVE  ProtocolInv'
<1>. DEFINE p == Peer(n)
<1>0. /\ p \in Node /\ p # n /\ Peer(p) = n
      /\ \A x \in Node : x = n \/ x = p
  BY PeerFacts
<1>1. \A x \in Node : SenderOK(x) /\ ReceiverOK(x) /\ MediumOK(x)
  BY Parts
<1>2. radio'[n] = "off" /\ radio'[p] \notin {"sync", "good"}
  BY <1>0 DEF Restart, TypeOK
<1>3. \A x \in Node : MediumOK(x)' /\ FlightOK(x)'
  BY <1>0, <1>2 DEF MediumOK, FlightOK
<1>4. /\ sendingReset'[n] /\ acceptAnySequenceBit'[n] /\ txSequenceBit'[n] = 0
      /\ txInterruptIndex'[n] = 0 /\ txMainLoopIndex'[n] = 0
      /\ rxInterruptIndex'[n] = 0 /\ rxMainLoopIndex'[n] = 0
      /\ nSent'[n] = 0 /\ boots'[n] = boots[n] + 1 /\ boots[n] \in Nat
      /\ lastIn'[n] = NoData /\ taken'[n] = NoData /\ lastAcc'[p] = 0
  BY <1>0 DEF Restart, TypeOK
<1>5. UNCHANGED <<sendingReset[p], acceptAnySequenceBit[p], txSequenceBit[p],
                  rxSequenceBit[p], txInterruptIndex[p], txMainLoopIndex[p],
                  txPacket[p], rxInterruptIndex[p], rxMainLoopIndex[p], rxPacket[p],
                  nSent[p], boots[p], lastIn[p], taken[p], lastAcc[n]>>
  BY <1>0 DEF Restart, TypeOK
<1>6. SenderOK(n)'
  <2>1. TxQueued(n)' = 0
    BY <1>4 DEF TxQueued, Ahead
  <2>2. \A i \in 0 .. TX_PACKET_COUNT - 1 : ~(Ahead(TX_PACKET_COUNT, 0, i) < 0)
    BY Counts DEF Ahead
  <2>. QED BY <1>4, <2>1, <2>2 DEF SenderOK, ResetOK, SequenceOK, TxRingOK
<1>7. SenderOK(p)'
  BY <1>0, <1>1, <1>4, <1>5
  DEF SenderOK, ResetOK, SequenceOK, TxRingOK, TxQueued, Released
<1>8. ReceiverOK(n)'
  <2>1. LastInOK(n)'
    <3>1. boots[n] >= 1 /\ boots[p] \in Nat
      BY <1>0, <1>1, NodeTyped DEF ReceiverOK, LastInOK, NodeTypes
    <3>. QED BY <1>4, <1>5, <3>1 DEF LastInOK, NoData
  <2>2. \A i \in 0 .. RX_PACKET_COUNT - 1 : ~MainLoopOwns(n, i)'
    BY <1>4, Counts DEF MainLoopOwns, Ahead
  <2>. QED BY <1>4, <2>1, <2>2 DEF ReceiverOK, RxRingOK
<1>9. ReceiverOK(p)'
  <2>1. lastIn[p].boot \in Nat /\ lastIn[p].boot <= boots[n]
    BY <1>0, <1>1, NodeTyped DEF ReceiverOK, LastInOK, NodeTypes, Payload
  <2>2. LastInOK(p)'
    BY <1>0, <1>1, <1>4, <1>5, <2>1 DEF ReceiverOK, LastInOK
  <2>3. RxRingOK(p)'
    BY <1>0, <1>1, <1>5 DEF ReceiverOK, RxRingOK, MainLoopOwns, Follows
  <2>. QED BY <2>2, <2>3 DEF ReceiverOK
<1>. QED BY <1>0, <1>3, <1>6, <1>7, <1>8, <1>9, PartsNext

------------------------------------------------------------------------------
LEMMA ProtocolInit == Init => ProtocolInv
<1>. SUFFICES ASSUME Init, NEW n \in Node
              PROVE  /\ MediumOK(n) /\ FlightOK(n)
                     /\ SenderOK(n) /\ ReceiverOK(n)
  BY Parts
<1>1. Peer(n) \in Node
  BY PeerFacts
<1>2. MediumOK(n) /\ FlightOK(n)
  BY <1>1 DEF Init, MediumOK, FlightOK
<1>3. TxQueued(n) = 0
  BY DEF Init, TxQueued, Ahead
<1>4. /\ \A i \in 0 .. TX_PACKET_COUNT - 1 :
           ~(Ahead(TX_PACKET_COUNT, txInterruptIndex[n], i) < 0)
      /\ \A i \in 0 .. RX_PACKET_COUNT - 1 : ~MainLoopOwns(n, i)
  BY Counts DEF Init, Ahead, MainLoopOwns
<1>5. SenderOK(n)
  BY <1>1, <1>3, <1>4 DEF Init, SenderOK, ResetOK, SequenceOK, TxRingOK
<1>6. ReceiverOK(n)
  BY <1>1, <1>4 DEF Init, ReceiverOK, LastInOK, RxRingOK, NoData
<1>. QED BY <1>2, <1>5, <1>6

LEMMA ProtocolStep ==
  ASSUME TypeOK, TypeOK', ProtocolInv, Disciplined, [Next]_vars
  PROVE  ProtocolInv'
<1>1. ASSUME NEW n \in Node,
             SetStrobe(n) \/ RaiseInterrupt(n) \/ ClearResetPacketReceived(n)
               \/ IgnoreStrobe(n)
      PROVE  ProtocolInv'
  <2>1. UNCHANGED LinkVars /\ UNCHANGED <<radio, air>>
    BY <1>1 DEF SetStrobe, RaiseInterrupt, ClearResetPacketReceived, IgnoreStrobe,
         LinkVars, macVars, rxVars, txVars, seqVars, appVars, histVars
  <2>. QED BY <2>1, NothingRead
<1>2. CASE UNCHANGED vars
  <2>1. UNCHANGED LinkVars /\ UNCHANGED <<radio, air>>
    BY <1>2 DEF vars, LinkVars, macVars, rxVars, txVars, seqVars, appVars, histVars
  <2>. QED BY <2>1, NothingRead
<1>3. ASSUME NEW n \in Node, RadioLinkTxQueueReset(n)
      PROVE  FALSE
  BY <1>3 DEF RadioLinkTxQueueReset, Disciplined, TypeOK
<1>. QED
  BY <1>1, <1>2, <1>3, SendPacketKeeps, DoneWithPacketKeeps, InitiativeKeeps,
     BadCrcKeeps, NoiseKeeps, TxEventKeeps, RxResetKeeps, RxNoDataKeeps,
     RxAcceptKeeps, RxRefuseKeeps, RestartKeeps
  DEF Next, MainLoop, RfIsr, RxEvent

(* The inductive invariant of the protocol holds for every number of        *)
(* buffers, packets and restarts, whatever the radio loses, corrupts or     *)
(* repeats, when the programs queue nothing before radioLinkConnected() and *)
(* do not call radioLinkTxQueueReset.                                       *)
THEOREM ProtocolCorrect == Disciplined => (Spec => []ProtocolInv)
<1>. SUFFICES ASSUME Disciplined
              PROVE  Spec => []ProtocolInv
  OBVIOUS
<1>1. Init => ProtocolInv
  BY ProtocolInit
<1>2. TypeOK /\ TypeOK' /\ ProtocolInv /\ [Next]_vars => ProtocolInv'
  BY ProtocolStep
<1>. QED BY <1>1, <1>2, TypeCorrect, PTL DEF Spec

------------------------------------------------------------------------------
(* What the programs rely on. *)

(* An ACK that reaches a connected Wixel acknowledges a packet it holds, and *)
(* a packet leaves the TX queue only after the other Wixel has accepted it.  *)
THEOREM AcksCorrect == Disciplined => (Spec => []AcksAreRight)
<1>. SUFFICES ASSUME Disciplined
              PROVE  Spec => []AcksAreRight
  OBVIOUS
<1>1. TypeOK /\ ProtocolInv => AcksAreRight
  <2>. SUFFICES ASSUME TypeOK, ProtocolInv, NEW n \in Node
                PROVE  /\ radio[n] = "good" /\ RxCurrent(n).type = "ACK"
                            => sendingReset[n] \/ TxQueued(n) # 0
                       /\ Released(n) <= lastAcc[Peer(n)]
    BY DEF AcksAreRight, AckMeansQueued, ReleasedWasAccepted
  <2>1. SenderOK(n) /\ NodeTypes(n) /\ Peer(n) \in Node /\ Peer(Peer(n)) = n
    BY Parts, NodeTyped, PeerFacts
  <2>2. nSent[n] \in Int /\ Released(n) = nSent[n] - TxQueued(n) /\ TxQueued(n) \in Int
    BY <2>1, Counts DEF NodeTypes, Released
  <2>3. lastAcc[Peer(n)] \in Int
    BY <2>1, NodeTyped DEF NodeTypes
  <2>4. ASSUME radio[n] = "good", RxCurrent(n).type = "ACK", ~sendingReset[n]
        PROVE  TxQueued(n) # 0
    <3>1. lastAcc[Peer(n)] = Released(n) + 1
      BY <2>1, <2>4, HeardRight DEF AckOK
    <3>2. lastAcc[Peer(n)] <= nSent[n]
      BY <2>1, <2>4 DEF SenderOK, SequenceOK
    <3>. QED BY <2>2, <3>1, <3>2
  <2>5. CASE sendingReset[n]
    BY <2>1, <2>2, <2>4, <2>5 DEF SenderOK, ResetOK, NodeTypes
  <2>6. CASE ~sendingReset[n]
    BY <2>1, <2>2, <2>3, <2>4, <2>6 DEF SenderOK, SequenceOK
  <2>. QED BY <2>5, <2>6
<1>. QED BY <1>1, ProtocolCorrect, TypeCorrect, PTL

(* Only the main loop takes received packets away; it takes the oldest.      *)
LEMMA OnlyDoneTakes ==
  ASSUME TypeOK, [Next]_vars, NEW n \in Node, boots'[n] = boots[n],
         rxMainLoopIndex'[n] # rxMainLoopIndex[n]
  PROVE  RadioLinkRxDoneWithPacket(n)
<1>1. CASE UNCHANGED vars
  BY <1>1 DEF vars, rxVars
<1>2. ASSUME NEW m \in Node,
             RadioLinkTxSendPacket(m) \/ SetStrobe(m) \/ RaiseInterrupt(m)
               \/ ClearResetPacketReceived(m) \/ RadioLinkTxQueueReset(m)
               \/ RfIsr(m) \/ Noise(m)
      PROVE  rxMainLoopIndex' = rxMainLoopIndex
  BY <1>2 DEF RadioLinkTxSendPacket, SetStrobe, RaiseInterrupt,
       ClearResetPacketReceived, RadioLinkTxQueueReset, RfIsr, IgnoreStrobe,
       StrobeEvent, RxTimeoutEvent, TxEvent, RxEvent, RxBadCrcEvent, RxResetEvent,
       RxNoDataEvent, RxAcceptEvent, RxRefuseEvent, Noise, rxVars
<1>3. ASSUME NEW m \in Node, RadioLinkRxDoneWithPacket(m)
      PROVE  RadioLinkRxDoneWithPacket(n)
  BY <1>3 DEF RadioLinkRxDoneWithPacket, TypeOK
<1>4. ASSUME NEW m \in Node, Restart(m)
      PROVE  FALSE
  <2>1. boots[n] \in Nat
    BY Typed
  <2>. QED BY <1>4, <2>1 DEF Restart, TypeOK
<1>. QED BY <1>1, <1>2, <1>3, <1>4 DEF Next, MainLoop

(* Reliable, ordered delivery: each packet the main loop reads is the next   *)
(* one of the sender's, or the first one of a new life of the sender.        *)
THEOREM DeliveryInOrder == Disciplined => (Spec => InOrder)
<1>. SUFFICES ASSUME Disciplined
              PROVE  Spec => InOrder
  OBVIOUS
<1>1. ASSUME TypeOK, ProtocolInv, [Next]_vars, NEW n \in Node,
             rxMainLoopIndex'[n] # rxMainLoopIndex[n], boots'[n] = boots[n]
      PROVE  Follows(boots[n], taken[n], taken'[n])
  <2>. DEFINE m == rxMainLoopIndex[n]
  <2>1. RadioLinkRxDoneWithPacket(n)
    BY <1>1, OnlyDoneTakes
  <2>2. m # rxInterruptIndex[n] /\ taken'[n] = rxPacket[n][m].data
    BY <1>1, <2>1 DEF RadioLinkRxDoneWithPacket, TypeOK
  <2>3. ReceiverOK(n) /\ m \in 0 .. RX_PACKET_COUNT - 1
        /\ rxInterruptIndex[n] \in 0 .. RX_PACKET_COUNT - 1
    BY <1>1, Parts, NodeTyped DEF NodeTypes
  <2>4. MainLoopOwns(n, m)
    BY <2>2, <2>3, OwnsAfterPop DEF MainLoopOwns
  <2>. QED BY <2>2, <2>3, <2>4 DEF ReceiverOK, RxRingOK
<1>2. TypeOK /\ ProtocolInv /\ [Next]_vars =>
        [\A n \in Node :
           /\ rxMainLoopIndex'[n] # rxMainLoopIndex[n]
           /\ boots'[n] = boots[n]
           => Follows(boots[n], taken[n], taken'[n])]_vars
  BY <1>1
<1>. QED BY <1>2, ProtocolCorrect, TypeCorrect, PTL DEF Spec, InOrder

(* A Wixel stops sending its Reset packet only at an ACK, and then the other *)
(* one will accept the first packet it sends.                                *)
THEOREM ConnectionExpected == Disciplined => (Spec => ConnectsOnlyWhenExpected)
<1>. SUFFICES ASSUME Disciplined
              PROVE  Spec => ConnectsOnlyWhenExpected
  OBVIOUS
<1>1. ASSUME TypeOK, ProtocolInv, [Next]_vars, NEW n \in Node,
             sendingReset[n], ~sendingReset'[n]
      PROVE  rxSequenceBit'[Peer(n)] = 1 \/ acceptAnySequenceBit'[Peer(n)]
  <2>1. CASE UNCHANGED vars
    BY <1>1, <2>1 DEF vars, seqVars
  <2>2. ASSUME NEW m \in Node,
               \/ MainLoop(m) \/ IgnoreStrobe(m) \/ StrobeEvent(m) \/ RxTimeoutEvent(m)
               \/ TxEvent(m) \/ RxBadCrcEvent(m) \/ RxResetEvent(m) \/ Noise(m)
        PROVE  sendingReset' = sendingReset
    BY <2>2 DEF MainLoop, RadioLinkTxSendPacket, SetStrobe, RaiseInterrupt,
       RadioLinkRxDoneWithPacket, ClearResetPacketReceived, RadioLinkTxQueueReset,
       IgnoreStrobe, StrobeEvent, RxTimeoutEvent, TxEvent, RxBadCrcEvent,
       RxResetEvent, Noise, seqVars
  <2>3. ASSUME NEW m \in Node, Restart(m)
        PROVE  sendingReset'[n]
    BY <1>1, <2>3 DEF Restart, TypeOK
  <2>4. ASSUME NEW m \in Node,
               RxNoDataEvent(m) \/ RxAcceptEvent(m) \/ RxRefuseEvent(m)
        PROVE  rxSequenceBit'[Peer(n)] = 1 \/ acceptAnySequenceBit'[Peer(n)]
    <3>1. radio[m] = "good" /\ HandleAck(m)
      BY <2>4 DEF RxNoDataEvent, RxAcceptEvent, RxRefuseEvent, RxData
    <3>2. m = n /\ AcksReset(n)
      BY <1>1, <3>1 DEF HandleAck, AcksReset, TypeOK
    <3>3. AckOK(Peer(n)) /\ Peer(n) \in Node /\ Peer(Peer(n)) = n /\ Peer(n) # n
      BY <1>1, <3>1, <3>2, HeardRight, PeerFacts DEF AcksReset
    <3>4. rxSequenceBit[Peer(n)] = 1 \/ acceptAnySequenceBit[Peer(n)]
      BY <1>1, <3>3 DEF AckOK
    <3>5. UNCHANGED <<rxSequenceBit[Peer(n)], acceptAnySequenceBit[Peer(n)]>>
      <4>1. CASE UNCHANGED <<rxSequenceBit, acceptAnySequenceBit>>
        BY <4>1
      <4>2. CASE RxAcceptEvent(n)
        BY <3>3, <4>2 DEF RxAcceptEvent, TypeOK
      <4>. QED BY <2>4, <3>2, <4>1, <4>2 DEF RxNoDataEvent, RxRefuseEvent
    <3>. QED BY <3>4, <3>5
  <2>. QED BY <1>1, <2>1, <2>2, <2>3, <2>4 DEF Next, RfIsr, RxEvent
<1>2. TypeOK /\ ProtocolInv /\ [Next]_vars =>
        [\A n \in Node :
           sendingReset[n] /\ ~sendingReset'[n]
             => \/ rxSequenceBit'[Peer(n)] = 1
                \/ acceptAnySequenceBit'[Peer(n)]]_vars
  BY <1>1
<1>. QED BY <1>2, ProtocolCorrect, TypeCorrect, PTL DEF Spec, ConnectsOnlyWhenExpected

(* Ownership of the RX buffers, whatever the programs do: the radio never    *)
(* writes a buffer that the main loop may be reading, and never takes it     *)
(* back.                                                                     *)
LEMMA OwnedStep ==
  ASSUME TypeOK, [Next]_vars, NEW n \in Node, NEW i \in 0 .. RX_PACKET_COUNT - 1,
         MainLoopOwns(n, i), boots'[n] = boots[n]
  PROVE  \/ MainLoopOwns(n, i)' /\ rxPacket'[n][i] = rxPacket[n][i]
         \/ i = rxMainLoopIndex[n] /\ rxMainLoopIndex'[n] = NextRx(i)
<1>. DEFINE m == rxMainLoopIndex[n]
            j == rxInterruptIndex[n]
<1>0. /\ m \in 0 .. RX_PACKET_COUNT - 1 /\ j \in 0 .. RX_PACKET_COUNT - 1
      /\ m # j /\ i # j
  <2>1. m \in 0 .. RX_PACKET_COUNT - 1 /\ j \in 0 .. RX_PACKET_COUNT - 1
    BY NodeTyped DEF NodeTypes
  <2>. QED BY <2>1, Counts DEF MainLoopOwns, Ahead
<1>1. CASE UNCHANGED rxVars
  BY <1>1 DEF rxVars, MainLoopOwns
<1>2. ASSUME NEW x \in Node, RadioLinkRxDoneWithPacket(x)
      PROVE  \/ MainLoopOwns(n, i)' /\ rxPacket'[n][i] = rxPacket[n][i]
             \/ i = m /\ rxMainLoopIndex'[n] = NextRx(i)
  <2>1. CASE x = n
    <3>1. /\ rxMainLoopIndex'[n] = NextRx(m)
          /\ UNCHANGED <<rxPacket, rxInterruptIndex>>
      BY <1>2, <2>1 DEF RadioLinkRxDoneWithPacket, TypeOK
    <3>2. i # m => MainLoopOwns(n, i)'
      BY <1>0, <3>1, OwnsAfterPop DEF MainLoopOwns
    <3>. QED BY <3>1, <3>2
  <2>2. CASE x # n
    <3>1. /\ rxMainLoopIndex'[n] = rxMainLoopIndex[n]
          /\ UNCHANGED <<rxPacket, rxInterruptIndex>>
      BY <1>2, <2>2 DEF RadioLinkRxDoneWithPacket, TypeOK
    <3>. QED BY <3>1 DEF MainLoopOwns
  <2>. QED BY <2>1, <2>2
<1>3. ASSUME NEW x \in Node, RxAcceptEvent(x)
      PROVE  MainLoopOwns(n, i)' /\ rxPacket'[n][i] = rxPacket[n][i]
  <2>1. UNCHANGED <<rxPacket, rxMainLoopIndex>>
    BY <1>3 DEF RxAcceptEvent
  <2>2. CASE x = n
    <3>1. rxInterruptIndex'[n] = NextRx(j) /\ NextRx(j) # m
      BY <1>3, <2>2 DEF RxAcceptEvent, RxFull, TypeOK
    <3>. QED BY <1>0, <2>1, <3>1, OwnsAfterPush DEF MainLoopOwns
  <2>3. CASE x # n
    <3>1. rxInterruptIndex'[n] = j
      BY <1>3, <2>3 DEF RxAcceptEvent, TypeOK
    <3>. QED BY <2>1, <3>1 DEF MainLoopOwns
  <2>. QED BY <2>2, <2>3
<1>4. ASSUME NEW x \in Node, TxEvent(x)
      PROVE  MainLoopOwns(n, i)' /\ rxPacket'[n][i] = rxPacket[n][i]
  <2>1. /\ UNCHANGED <<rxMainLoopIndex, rxInterruptIndex>>
        /\ \/ rxPacket' = rxPacket
           \/ rxPacket' = [rxPacket EXCEPT
                             ![Peer(x)][rxInterruptIndex[Peer(x)]] = air[x]]
    BY <1>4 DEF TxEvent
  <2>2. rxPacket'[n][i] = rxPacket[n][i]
    <3>1. /\ rxPacket \in [Node -> [0 .. RX_PACKET_COUNT - 1 -> Packet]]
          /\ rxPacket[n] \in [0 .. RX_PACKET_COUNT - 1 -> Packet]
      BY DEF TypeOK
    <3>2. CASE rxPacket' = [rxPacket EXCEPT
                              ![Peer(x)][rxInterruptIndex[Peer(x)]] = air[x]]
      <4>1. CASE Peer(x) # n
        BY <3>1, <3>2, <4>1
      <4>2. CASE Peer(x) = n
        <5>1. rxPacket'[n] = [rxPacket[n] EXCEPT ![j] = air[x]]
          BY <3>1, <3>2, <4>2
        <5>. QED BY <1>0, <3>1, <5>1
      <4>. QED BY <4>1, <4>2
    <3>. QED BY <2>1, <3>2
  <2>. QED BY <2>1, <2>2 DEF MainLoopOwns
<1>5. ASSUME NEW x \in Node, Restart(x)
      PROVE  MainLoopOwns(n, i)' /\ rxPacket'[n][i] = rxPacket[n][i]
  <2>1. boots[n] \in Nat
    BY Typed
  <2>2. x # n
    BY <1>5, <2>1 DEF Restart, TypeOK
  <2>. QED BY <1>5, <2>2 DEF Restart, TypeOK, MainLoopOwns
<1>6. ASSUME NEW x \in Node,
             \/ RadioLinkTxSendPacket(x) \/ SetStrobe(x) \/ RaiseInterrupt(x)
             \/ ClearResetPacketReceived(x) \/ RadioLinkTxQueueReset(x)
             \/ IgnoreStrobe(x) \/ StrobeEvent(x) \/ RxTimeoutEvent(x)
             \/ RxBadCrcEvent(x) \/ RxResetEvent(x) \/ RxNoDataEvent(x)
             \/ RxRefuseEvent(x) \/ Noise(x)
      PROVE  UNCHANGED rxVars
  BY <1>6 DEF RadioLinkTxSendPacket, SetStrobe, RaiseInterrupt,
     ClearResetPacketReceived, RadioLinkTxQueueReset, IgnoreStrobe, StrobeEvent,
     RxTimeoutEvent, RxBadCrcEvent, RxResetEvent, RxNoDataEvent, RxRefuseEvent, Noise
<1>7. UNCHANGED vars => UNCHANGED rxVars
  BY DEF vars
<1>. QED BY <1>1, <1>2, <1>3, <1>4, <1>5, <1>6, <1>7
     DEF Next, MainLoop, RfIsr, RxEvent

THEOREM OwnedBuffersStable == Spec => OwnedBuffersAreStable
<1>1. TypeOK /\ [Next]_vars =>
        [\A n \in Node, i \in 0 .. RX_PACKET_COUNT - 1 :
           MainLoopOwns(n, i) /\ boots'[n] = boots[n]
             => \/ MainLoopOwns(n, i)' /\ rxPacket'[n][i] = rxPacket[n][i]
                \/ i = rxMainLoopIndex[n] /\ rxMainLoopIndex'[n] = NextRx(i)]_vars
  BY OwnedStep
<1>. QED BY <1>1, TypeCorrect, PTL DEF Spec, OwnedBuffersAreStable

------------------------------------------------------------------------------
(***************************************************************************)
(* radio_link implements ReliableLink: sequence bits, acknowledgments and  *)
(* retransmission over a lossy radio amount to two pairs of FIFO queues.   *)
(* Every step of RadioLink is one step of ReliableLink, or none.           *)
(***************************************************************************)

(* The queue in a ring. *)

(* The slot of the k-th element of a queue that starts at slot i. *)
Slot(c, i, k) == IF i + (k - 1) < c THEN i + (k - 1) ELSE i + (k - 1) - c

LEMMA SlotInRing ==
  ASSUME NEW c \in Nat, NEW i \in 0 .. c - 1, NEW j \in 0 .. c - 1,
         NEW k \in 1 .. Ahead(c, i, j)
  PROVE  /\ Slot(c, i, k) \in 0 .. c - 1 /\ Slot(c, i, k) # j
         /\ i # j => /\ Slot(c, i, 1) = i
                     /\ k # Ahead(c, i, j)
                          => Slot(c, Succ(c, i), k) = Slot(c, i, k + 1)
BY DEF Slot, Ahead, Succ

(* q holds the a elements of buf from slot i on. *)
QueueIn(q, S, buf, c, i, a) ==
  q \in Seq(S) /\ Len(q) = a /\ \A k \in 1 .. a : q[k] = buf[Slot(c, i, k)]

LEMMA ContentsSeq ==
  ASSUME NEW c \in Nat, NEW S, NEW buf \in [0 .. c - 1 -> S],
         NEW i \in 0 .. c - 1, NEW j \in 0 .. c - 1
  PROVE  QueueIn(Contents(buf, c, i, j), S, buf, c, i, Ahead(c, i, j))
<1>1. Ahead(c, i, j) \in Nat
  BY DEF Ahead
<1>2. ASSUME NEW k \in 1 .. Ahead(c, i, j)
      PROVE  /\ Contents(buf, c, i, j)[k] = buf[Slot(c, i, k)]
             /\ Slot(c, i, k) \in 0 .. c - 1
  BY SlotInRing DEF Contents, Slot
<1>3. Contents(buf, c, i, j) \in [1 .. Ahead(c, i, j) -> S]
  <2>1. /\ DOMAIN Contents(buf, c, i, j) = 1 .. Ahead(c, i, j)
        /\ Contents(buf, c, i, j) =
             [k \in 1 .. Ahead(c, i, j) |-> Contents(buf, c, i, j)[k]]
    BY DEF Contents
  <2>. QED BY <1>2, <2>1
<1>4. Contents(buf, c, i, j) \in Seq(S)
  BY <1>1, <1>3, SeqDef
<1>5. Len(Contents(buf, c, i, j)) = Ahead(c, i, j)
  BY <1>1, <1>3, <1>4, LenProperties
<1>. QED BY <1>2, <1>4, <1>5 DEF QueueIn

(* The producer has filled slot j and moves on. *)
LEMMA ContentsPush ==
  ASSUME NEW c \in Nat, NEW S, NEW buf \in [0 .. c - 1 -> S],
         NEW i \in 0 .. c - 1, NEW j \in 0 .. c - 1, Ahead(c, i, j) # c - 1
  PROVE  Contents(buf, c, i, Succ(c, j)) = Append(Contents(buf, c, i, j), buf[j])
<1>. DEFINE s == Contents(buf, c, i, Succ(c, j))
            t == Contents(buf, c, i, j)
            a == Ahead(c, i, j)
<1>1. /\ Ahead(c, i, Succ(c, j)) = a + 1 /\ Succ(c, j) \in 0 .. c - 1
      /\ a \in Nat /\ Slot(c, i, a + 1) = j
  BY DEF Ahead, Succ, Slot
<1>2. /\ s \in Seq(S) /\ Len(s) = a + 1
      /\ \A k \in 1 .. a + 1 : s[k] = buf[Slot(c, i, k)]
  <2>1. QueueIn(s, S, buf, c, i, a + 1)
    BY <1>1, ContentsSeq
  <2>. QED BY <2>1 DEF QueueIn
<1>3. /\ t \in Seq(S) /\ Len(t) = a
      /\ \A k \in 1 .. a : t[k] = buf[Slot(c, i, k)]
  <2>1. QueueIn(t, S, buf, c, i, a)
    BY ContentsSeq
  <2>. QED BY <2>1 DEF QueueIn
<1>. HIDE DEF s, t, a
<1>4. /\ Append(t, buf[j]) \in Seq(S) /\ Len(Append(t, buf[j])) = a + 1
      /\ Append(t, buf[j])[a + 1] = buf[j]
      /\ \A k \in 1 .. a : Append(t, buf[j])[k] = t[k]
  BY <1>1, <1>3, AppendProperties
<1>5. ASSUME NEW k \in 1 .. a
      PROVE  s[k] = t[k]
  <2>1. Slot(c, i, k) \in 0 .. c - 1 /\ Slot(c, i, k) # j
    BY SlotInRing DEF a
  <2>2. k \in 1 .. a + 1
    BY <1>1
  <2>. QED BY <1>2, <1>3, <2>1, <2>2
<1>6. ASSUME NEW k \in 1 .. Len(s)
      PROVE  s[k] = Append(t, buf[j])[k]
  <2>1. k = a + 1 \/ k \in 1 .. a
    BY <1>1, <1>2
  <2>2. s[a + 1] = buf[j]
    BY <1>1, <1>2
  <2>. QED BY <1>4, <1>5, <2>1, <2>2
<1>7. s = Append(t, buf[j])
  BY <1>2, <1>4, <1>6, SeqEqual
<1>. QED BY <1>7 DEF s, t

(* The consumer moves on from slot i. *)
LEMMA ContentsPop ==
  ASSUME NEW c \in Nat, NEW S, NEW buf \in [0 .. c - 1 -> S],
         NEW i \in 0 .. c - 1, NEW j \in 0 .. c - 1, i # j
  PROVE  /\ Contents(buf, c, i, j) # <<>>
         /\ Head(Contents(buf, c, i, j)) = buf[i]
         /\ Contents(buf, c, Succ(c, i), j) = Tail(Contents(buf, c, i, j))
<1>. DEFINE s == Contents(buf, c, Succ(c, i), j)
            t == Contents(buf, c, i, j)
            a == Ahead(c, i, j)
<1>1. /\ Ahead(c, Succ(c, i), j) = a - 1 /\ Succ(c, i) \in 0 .. c - 1
      /\ a \in Nat \ {0}
  BY DEF Ahead, Succ
<1>2. /\ s \in Seq(S) /\ Len(s) = a - 1
      /\ \A k \in 1 .. a - 1 : s[k] = buf[Slot(c, Succ(c, i), k)]
  <2>1. QueueIn(s, S, buf, c, Succ(c, i), a - 1)
    BY <1>1, ContentsSeq
  <2>. QED BY <2>1 DEF QueueIn
<1>3. /\ t \in Seq(S) /\ Len(t) = a
      /\ \A k \in 1 .. a : t[k] = buf[Slot(c, i, k)]
  <2>1. QueueIn(t, S, buf, c, i, a)
    BY ContentsSeq
  <2>. QED BY <2>1 DEF QueueIn
<1>4. ASSUME NEW k \in 1 .. a
      PROVE  /\ Slot(c, i, 1) = i
             /\ k # a => Slot(c, Succ(c, i), k) = Slot(c, i, k + 1)
  BY SlotInRing
<1>. HIDE DEF s, t, a
<1>5. t # <<>> /\ Head(t) = buf[i]
  <2>1. 1 \in 1 .. a
    BY <1>1
  <2>2. t[1] = buf[i]
    BY <1>3, <1>4, <2>1
  <2>. QED BY <1>1, <1>3, <2>2
<1>6. /\ Tail(t) \in Seq(S) /\ Len(Tail(t)) = a - 1
      /\ \A k \in 1 .. a - 1 : Tail(t)[k] = t[k + 1]
  BY <1>1, <1>3, <1>5, HeadTailProperties
<1>7. ASSUME NEW k \in 1 .. Len(s)
      PROVE  s[k] = Tail(t)[k]
  <2>1. k \in 1 .. a - 1 /\ k \in 1 .. a /\ k + 1 \in 1 .. a /\ k # a
    BY <1>1, <1>2
  <2>. QED BY <1>2, <1>3, <1>4, <1>6, <2>1
<1>8. s = Tail(t)
  BY <1>2, <1>6, <1>7, SeqEqual
<1>. QED BY <1>5, <1>8 DEF s, t

LEMMA ContentsEmpty ==
  ASSUME NEW c \in Nat, NEW S, NEW buf \in [0 .. c - 1 -> S], NEW i \in 0 .. c - 1
  PROVE  Contents(buf, c, i, i) = <<>>
<1>1. Contents(buf, c, i, i) \in Seq(S) /\ Len(Contents(buf, c, i, i)) = 0
  BY ContentsSeq DEF Ahead, QueueIn
<1>. QED BY <1>1, EmptySeq

(* The buffers are the same, except perhaps in slot j. *)
SameBut(new, buf, c, j) == \A k \in 0 .. c - 1 : k # j => new[k] = buf[k]

(* Only the slots in the queue count. *)
LEMMA ContentsSame ==
  ASSUME NEW c \in Nat, NEW S, NEW buf \in [0 .. c - 1 -> S],
         NEW new \in [0 .. c - 1 -> S],
         NEW i \in 0 .. c - 1, NEW j \in 0 .. c - 1,
         SameBut(new, buf, c, j)
  PROVE  Contents(new, c, i, j) = Contents(buf, c, i, j)
<1>. DEFINE s == Contents(new, c, i, j)
            t == Contents(buf, c, i, j)
            a == Ahead(c, i, j)
<1>1. /\ s \in Seq(S) /\ Len(s) = a
      /\ \A k \in 1 .. a : s[k] = new[Slot(c, i, k)]
  <2>1. QueueIn(s, S, new, c, i, a)
    BY ContentsSeq
  <2>. QED BY <2>1 DEF QueueIn
<1>2. /\ t \in Seq(S) /\ Len(t) = a
      /\ \A k \in 1 .. a : t[k] = buf[Slot(c, i, k)]
  <2>1. QueueIn(t, S, buf, c, i, a)
    BY ContentsSeq
  <2>. QED BY <2>1 DEF QueueIn
<1>3. \A k \in 1 .. a : Slot(c, i, k) \in 0 .. c - 1 /\ Slot(c, i, k) # j
  BY SlotInRing
<1>. HIDE DEF s, t, a
<1>4. s = t
  BY <1>1, <1>2, <1>3, SeqEqual DEF SameBut
<1>. QED BY <1>4 DEF s, t

------------------------------------------------------------------------------
(* The three variables of ReliableLink at one node, and the steps that      *)
(* change them.                                                             *)

Sent(n) == Contents(txPacket[n], TX_PACKET_COUNT,
                    txInterruptIndex[n], txMainLoopIndex[n])

SameLink(N) == \A m \in N : Sent(m)' = Sent(m) /\ Moved(m)' = Moved(m)
SameReceived(N) == \A m \in N : Received(m)' = Received(m)

LEMMA AbsStutter ==
  ASSUME SameLink(Node), SameReceived(Node)
  PROVE  UNCHANGED Abstract!vars
BY DEF SameLink, SameReceived, Sent, Abstract!vars

LEMMA AbsSend ==
  ASSUME NEW n \in Node, NEW d \in QueuedPayload,
         Sent(n)' = Append(Sent(n), d), Moved(n)' = Moved(n),
         SameLink(Node \ {n}), SameReceived(Node)
  PROVE  Abstract!Send(n)
BY DEF SameLink, SameReceived, Sent, Abstract!Send

LEMMA AbsTake ==
  ASSUME NEW n \in Node, Received(n) # <<>>, Received(n)' = Tail(Received(n)),
         SameLink(Node), SameReceived(Node \ {n})
  PROVE  Abstract!Take(n)
BY DEF SameLink, SameReceived, Sent, Abstract!Take

LEMMA AbsRelease ==
  ASSUME NEW n \in Node, Moved(n), Moved(n)' = FALSE, Sent(n)' = Tail(Sent(n)),
         SameLink(Node \ {n}), SameReceived(Node)
  PROVE  Abstract!Release(n)
BY DEF SameLink, SameReceived, Sent, Abstract!Release

LEMMA AbsMove ==
  ASSUME NEW n \in Node, ~Moved(n), Moved(n)' = TRUE, Sent(n) # <<>>, Sent(n)' = Sent(n),
         SameLink(Node \ {n}), SameReceived(Node \ {Peer(n)}),
         Received(Peer(n))' = Append(Received(Peer(n)), Head(Sent(n)))
  PROVE  Abstract!Move(n)
BY DEF SameLink, SameReceived, Sent, Abstract!Move, Abstract!Peer, Peer

LEMMA AbsReleaseAndMove ==
  ASSUME NEW n \in Node, Moved(n), Moved(n)' = FALSE, Sent(n)' = Tail(Sent(n)),
         ~Moved(Peer(n)), Moved(Peer(n))' = TRUE, Sent(Peer(n)) # <<>>,
         Sent(Peer(n))' = Sent(Peer(n)), SameReceived(Node \ {n}),
         Received(n)' = Append(Received(n), Head(Sent(Peer(n))))
  PROVE  Abstract!ReleaseAndMove(n)
<1>1. \A m \in Node : m = n \/ m = Peer(n)
  BY PeerFacts
<1>2. Peer(n) \in Node /\ Peer(n) # n
  BY PeerFacts
<1>. QED BY <1>1, <1>2
     DEF SameReceived, Sent, Abstract!ReleaseAndMove, Abstract!Peer, Peer

LEMMA AbsRestart ==
  ASSUME NEW n \in Node, Sent(n)' = <<>>, Received(n)' = <<>>,
         \A m \in Node : Moved(m)' = FALSE,
         \A m \in Node \ {n} : Sent(m)' = Sent(m), SameReceived(Node \ {n})
  PROVE  Abstract!Restart(n)
BY DEF SameReceived, Sent, Abstract!Restart

------------------------------------------------------------------------------
(* What the mapped variables read. *)

SentView(n) == <<txPacket[n], txInterruptIndex[n], txMainLoopIndex[n]>>
MovedView(n) ==
  <<sendingReset[n], txInterruptIndex[n], txMainLoopIndex[n], txSequenceBit[n],
    acceptAnySequenceBit[Peer(n)], rxSequenceBit[Peer(n)]>>
ReceivedView(n) == <<rxPacket[n], rxMainLoopIndex[n], rxInterruptIndex[n]>>

LEMMA ViewsSame ==
  ASSUME NEW n
  PROVE  /\ UNCHANGED SentView(n) => Sent(n)' = Sent(n)
         /\ UNCHANGED MovedView(n) => Moved(n)' = Moved(n)
         /\ UNCHANGED ReceivedView(n) => Received(n)' = Received(n)
BY DEF SentView, MovedView, ReceivedView, Sent, Moved, Received, TxQueued

(* Steps that leave the queues and the protocol's state alone. *)
LEMMA LinkStutters ==
  ASSUME UNCHANGED LinkVars
  PROVE  UNCHANGED Abstract!vars
<1>1. ASSUME NEW m \in Node
      PROVE  UNCHANGED <<SentView(m), MovedView(m), ReceivedView(m)>>
  BY DEF LinkVars, rxVars, txVars, SentView, MovedView, ReceivedView
<1>2. ASSUME NEW m \in Node
      PROVE  Sent(m)' = Sent(m) /\ Moved(m)' = Moved(m) /\ Received(m)' = Received(m)
  BY <1>1, ViewsSame
<1>. QED BY <1>2, AbsStutter DEF SameLink, SameReceived

(* The data in the RX buffers of n. *)
RxBuffer(n) == [i \in 0 .. RX_PACKET_COUNT - 1 |-> rxPacket[n][i].data]

LEMMA Buffers ==
  ASSUME TypeOK, NEW n \in Node
  PROVE  /\ RxBuffer(n) \in [0 .. RX_PACKET_COUNT - 1 -> Payload]
         /\ txPacket[n] \in [0 .. TX_PACKET_COUNT - 1 -> Payload]
         /\ Received(n) = Contents(RxBuffer(n), RX_PACKET_COUNT,
                                   rxMainLoopIndex[n], rxInterruptIndex[n])
<1>1. rxPacket[n] \in [0 .. RX_PACKET_COUNT - 1 -> Packet]
  BY NodeTyped DEF NodeTypes
<1>2. \A i \in 0 .. RX_PACKET_COUNT - 1 : rxPacket[n][i].data \in Payload
  BY <1>1 DEF Packet
<1>. QED BY <1>2, NodeTyped DEF NodeTypes, RxBuffer, Received

LEMMA BuffersNext ==
  ASSUME NEW n \in Node
  PROVE  (TypeOK => /\ RxBuffer(n) \in [0 .. RX_PACKET_COUNT - 1 -> Payload]
                    /\ txPacket[n] \in [0 .. TX_PACKET_COUNT - 1 -> Payload])'
<1>1. TypeOK => /\ RxBuffer(n) \in [0 .. RX_PACKET_COUNT - 1 -> Payload]
                /\ txPacket[n] \in [0 .. TX_PACKET_COUNT - 1 -> Payload]
  BY Buffers
<1>. QED BY <1>1, PTL

(* The radio writes the buffer behind the queue. *)
LEMMA TxEventStutters ==
  ASSUME TypeOK, TypeOK', NEW n \in Node, TxEvent(n)
  PROVE  UNCHANGED Abstract!vars
<1>1. /\ UNCHANGED <<rxMainLoopIndex, rxInterruptIndex, txVars, seqVars>>
      /\ \/ rxPacket' = rxPacket
         \/ rxPacket' = [rxPacket EXCEPT
                           ![Peer(n)][rxInterruptIndex[Peer(n)]] = air[n]]
  BY DEF TxEvent
<1>2. ASSUME NEW m \in Node
      PROVE  Sent(m)' = Sent(m) /\ Moved(m)' = Moved(m)
  <2>1. UNCHANGED <<SentView(m), MovedView(m)>>
    BY <1>1 DEF txVars, seqVars, SentView, MovedView
  <2>. QED BY <2>1, ViewsSame
<1>3. ASSUME NEW m \in Node
      PROVE  Received(m)' = Received(m)
  <2>1. /\ rxMainLoopIndex[m] \in 0 .. RX_PACKET_COUNT - 1
        /\ rxInterruptIndex[m] \in 0 .. RX_PACKET_COUNT - 1
        /\ rxPacket[m] \in [0 .. RX_PACKET_COUNT - 1 -> Packet]
        /\ rxPacket \in [Node -> [0 .. RX_PACKET_COUNT - 1 -> Packet]]
    BY NodeTyped DEF NodeTypes, TypeOK
  <2>2. rxPacket'[m] = rxPacket[m]
          \/ rxPacket'[m] = [rxPacket[m] EXCEPT ![rxInterruptIndex[m]] = air[n]]
    BY <1>1, <2>1
  <2>3. \A i \in 0 .. RX_PACKET_COUNT - 1 :
          i # rxInterruptIndex[m] => rxPacket'[m][i] = rxPacket[m][i]
    BY <2>1, <2>2
  <2>4. \A i \in 0 .. RX_PACKET_COUNT - 1 :
          i # rxInterruptIndex[m] => RxBuffer(m)'[i] = RxBuffer(m)[i]
    BY <2>3 DEF RxBuffer
  <2>5. /\ RxBuffer(m) \in [0 .. RX_PACKET_COUNT - 1 -> Payload]
        /\ RxBuffer(m)' \in [0 .. RX_PACKET_COUNT - 1 -> Payload]
        /\ RX_PACKET_COUNT \in Nat
    BY Buffers, BuffersNext, Counts
  <2>. DEFINE old == RxBuffer(m)
              new == RxBuffer(m)'
              i == rxMainLoopIndex[m]
              j == rxInterruptIndex[m]
  <2>. HIDE DEF old, new, i, j
  <2>6. Contents(new, RX_PACKET_COUNT, i, j) = Contents(old, RX_PACKET_COUNT, i, j)
    <3>1. /\ i \in 0 .. RX_PACKET_COUNT - 1 /\ j \in 0 .. RX_PACKET_COUNT - 1
          /\ old \in [0 .. RX_PACKET_COUNT - 1 -> Payload]
          /\ new \in [0 .. RX_PACKET_COUNT - 1 -> Payload]
          /\ SameBut(new, old, RX_PACKET_COUNT, j)
      BY <2>1, <2>4, <2>5 DEF old, new, i, j, SameBut
    <3>. QED BY <3>1, Counts, ContentsSame
  <2>. QED BY <1>1, <2>6 DEF Received, RxBuffer, old, new, i, j
<1>. QED BY <1>2, <1>3, AbsStutter DEF SameLink, SameReceived

(* A Reset packet comes from a Wixel that is not connected, so the bit it    *)
(* resets is not looked at.                                                 *)
LEMMA RxResetStutters ==
  ASSUME TypeOK, ProtocolInv, NEW n \in Node, RxResetEvent(n)
  PROVE  UNCHANGED Abstract!vars
<1>. DEFINE p == Peer(n)
<1>0. /\ p \in Node /\ p # n /\ Peer(p) = n
      /\ \A m \in Node : m = n \/ m = p
  BY PeerFacts
<1>1. /\ UNCHANGED <<rxVars, txVars, sendingReset, acceptAnySequenceBit,
                     txSequenceBit>>
      /\ rxSequenceBit'[p] = rxSequenceBit[p]
  BY <1>0 DEF RxResetEvent, TypeOK
<1>2. sendingReset[p]
  BY HeardRight DEF RxResetEvent, PacketOK
<1>3. Moved(p)' = Moved(p)
  BY <1>1, <1>2 DEF Moved
<1>4. Moved(n)' = Moved(n)
  <2>1. UNCHANGED MovedView(n)
    BY <1>1 DEF MovedView, txVars
  <2>. QED BY <2>1, ViewsSame
<1>5. ASSUME NEW m \in Node
      PROVE  Sent(m)' = Sent(m) /\ Received(m)' = Received(m)
  <2>1. UNCHANGED <<SentView(m), ReceivedView(m)>>
    BY <1>1 DEF SentView, ReceivedView, txVars, rxVars
  <2>. QED BY <2>1, ViewsSame
<1>. QED BY <1>0, <1>3, <1>4, <1>5, AbsStutter DEF SameLink, SameReceived

(* An ACK of data releases the packet, which was copied; any other packet   *)
(* leaves the sender's side alone.                                          *)
LEMMA HandleAckReleases ==
  ASSUME TypeOK, NEW n \in Node, SenderOK(n), HandleAck(n),
         RxCurrent(n).type = "ACK" => AckOK(Peer(n)),
         UNCHANGED <<txPacket, txMainLoopIndex, acceptAnySequenceBit[Peer(n)],
                     rxSequenceBit[Peer(n)]>>
  PROVE  \/ Sent(n)' = Sent(n) /\ Moved(n)' = Moved(n)
         \/ Moved(n) /\ Moved(n)' = FALSE /\ Sent(n)' = Tail(Sent(n))
<1>. DEFINE r == Released(n)
            i == txInterruptIndex[n]
            j == txMainLoopIndex[n]
<1>1. /\ NodeTypes(n) /\ NodeTypes(Peer(n)) /\ Peer(Peer(n)) = n
      /\ DOMAIN sendingReset = Node
      /\ DOMAIN txInterruptIndex = Node /\ DOMAIN txSequenceBit = Node
  BY NodeTyped, PeerFacts DEF TypeOK
<1>2. CASE ~AcksReset(n) /\ ~AcksData(n)
  <2>1. UNCHANGED <<SentView(n), MovedView(n)>>
    BY <1>2 DEF HandleAck, SentView, MovedView
  <2>. QED BY <2>1, ViewsSame
<1>3. CASE AcksReset(n)
  <2>1. sendingReset[n] /\ txInterruptIndex' = txInterruptIndex
    BY <1>3 DEF HandleAck, AcksReset, AcksData
  <2>2. i = j
    BY <2>1 DEF SenderOK, ResetOK
  <2>3. TxQueued(n) = 0 /\ TxQueued(n)' = 0
    BY <1>1, <2>1, <2>2 DEF TxQueued, NodeTypes
  <2>4. Sent(n)' = Sent(n)
    BY <2>1 DEF Sent
  <2>. QED BY <2>3, <2>4 DEF Moved
<1>4. CASE AcksData(n)
  <2>1. /\ ~sendingReset[n] /\ ~sendingReset'[n] /\ i # j
        /\ txInterruptIndex'[n] = NextTx(i)
        /\ txSequenceBit'[n] = 1 - txSequenceBit[n]
    BY <1>1, <1>4 DEF HandleAck, AcksReset, AcksData
  <2>2. lastAcc[Peer(n)] = r + 1 /\ ~acceptAnySequenceBit[Peer(n)] /\ r \in Nat
    BY <1>1, <1>4, <2>1 DEF AcksData, AckOK, SenderOK, SequenceOK, NodeTypes
  <2>3. /\ txSequenceBit[n] = r % 2
        /\ rxSequenceBit[Peer(n)] = (r + 2) % 2
    <3>1. /\ txSequenceBit[n] = r % 2
          /\ rxSequenceBit[Peer(n)] = (lastAcc[Peer(n)] + 1) % 2
      BY <2>1, <2>2 DEF SenderOK, SequenceOK
    <3>. QED BY <2>2, <3>1
  <2>4. /\ rxSequenceBit[Peer(n)] = txSequenceBit[n]
        /\ rxSequenceBit'[Peer(n)] # txSequenceBit'[n]
    BY <2>1, <2>2, <2>3, Parity
  <2>5. Moved(n) /\ Moved(n)' = FALSE
    BY <1>1, <2>1, <2>2, <2>4 DEF Moved, NodeTypes
  <2>6. Contents(txPacket[n], TX_PACKET_COUNT, Succ(TX_PACKET_COUNT, i), j) =
          Tail(Contents(txPacket[n], TX_PACKET_COUNT, i, j))
    <3>1. /\ i \in 0 .. TX_PACKET_COUNT - 1 /\ j \in 0 .. TX_PACKET_COUNT - 1
          /\ txPacket[n] \in [0 .. TX_PACKET_COUNT - 1 -> Payload]
      BY <1>1 DEF NodeTypes
    <3>. QED BY <2>1, <3>1, Counts, ContentsPop
  <2>7. Sent(n)' = Tail(Sent(n))
    BY <2>1, <2>6 DEF Sent, NextTx
  <2>. QED BY <2>5, <2>7
<1>. QED BY <1>2, <1>3, <1>4

(* A packet that brings no new data. *)
LEMMA RxOldReleases ==
  ASSUME TypeOK, ProtocolInv, NEW n \in Node, RxNoDataEvent(n) \/ RxRefuseEvent(n)
  PROVE  [Abstract!Next]_(Abstract!vars)
<1>. DEFINE p == Peer(n)
<1>0. /\ p \in Node /\ p # n /\ Peer(p) = n
      /\ \A m \in Node : m = n \/ m = p
  BY PeerFacts
<1>1. /\ radio[n] = "good" /\ HandleAck(n)
      /\ UNCHANGED <<rxVars, txPacket, txMainLoopIndex, acceptAnySequenceBit,
                     rxSequenceBit>>
  BY DEF RxNoDataEvent, RxRefuseEvent, RxData
<1>2. SenderOK(n) /\ (RxCurrent(n).type = "ACK" => AckOK(p))
  BY <1>1, HeardRight
<1>3. \/ Sent(n)' = Sent(n) /\ Moved(n)' = Moved(n)
      \/ Moved(n) /\ Moved(n)' = FALSE /\ Sent(n)' = Tail(Sent(n))
  BY <1>1, <1>2, HandleAckReleases
<1>4. Sent(p)' = Sent(p) /\ Moved(p)' = Moved(p)
  <2>1. UNCHANGED <<SentView(p), MovedView(p)>>
    BY <1>0, <1>1, HandleAckOther DEF SentView, MovedView
  <2>. QED BY <2>1, ViewsSame
<1>5. ASSUME NEW m \in Node
      PROVE  Received(m)' = Received(m)
  <2>1. UNCHANGED ReceivedView(m)
    BY <1>1 DEF ReceivedView, rxVars
  <2>. QED BY <2>1, ViewsSame
<1>6. CASE Sent(n)' = Sent(n) /\ Moved(n)' = Moved(n)
  BY <1>0, <1>4, <1>5, <1>6, AbsStutter DEF SameLink, SameReceived
<1>7. CASE Moved(n) /\ Moved(n)' = FALSE /\ Sent(n)' = Tail(Sent(n))
  <2>1. SameLink(Node \ {n}) /\ SameReceived(Node)
    BY <1>0, <1>4, <1>5 DEF SameLink, SameReceived
  <2>2. Abstract!Release(n)
    BY <1>7, <2>1, AbsRelease
  <2>. QED BY <2>2 DEF Abstract!Next
<1>. QED BY <1>3, <1>6, <1>7

(* New data is the oldest packet of the sender, which was not copied yet.   *)
LEMMA RxAcceptMoves ==
  ASSUME TypeOK, TypeOK', ProtocolInv, NEW n \in Node, RxAcceptEvent(n)
  PROVE  Abstract!Next
<1>. DEFINE p == Peer(n)
            k == RxCurrent(n)
            i == txInterruptIndex[p]
            j == txMainLoopIndex[p]
<1>0. /\ p \in Node /\ p # n /\ Peer(p) = n
      /\ \A m \in Node : m = n \/ m = p
  BY PeerFacts
<1>1. /\ radio[n] = "good" /\ k.data # NoData /\ HandleAck(n)
      /\ IsNew(n) /\ ~RxFull(n)
      /\ UNCHANGED <<rxPacket, rxMainLoopIndex, txPacket, txMainLoopIndex>>
  BY DEF RxAcceptEvent, RxData
<1>2. /\ rxSequenceBit'[n] = k.seq /\ ~acceptAnySequenceBit'[n]
      /\ rxInterruptIndex'[n] = NextRx(rxInterruptIndex[n])
      /\ UNCHANGED <<rxSequenceBit[p], acceptAnySequenceBit[p], rxInterruptIndex[p]>>
  BY <1>0 DEF RxAcceptEvent, TypeOK
<1>3. /\ k.type = "ACK" => AckOK(p)
      /\ PacketOK(p, k) /\ SenderOK(n) /\ SenderOK(p)
  BY <1>1, HeardRight
<1>4. /\ NodeTypes(n) /\ NodeTypes(p)
      /\ UNCHANGED <<sendingReset[p], txInterruptIndex[p], txSequenceBit[p]>>
  BY <1>0, <1>1, NodeTyped, HandleAckOther
<1>5. /\ ~sendingReset[p] /\ TxQueued(p) # 0 /\ k.seq = txSequenceBit[p] /\ i # j
      /\ k.data = [boot |-> boots[p], num |-> Released(p) + 1]
  BY <1>1, <1>3, <1>4 DEF PacketOK, NodeTypes
<1>6. ~Moved(p) /\ Moved(p)' = TRUE
  <2>1. ~Moved(p)
    BY <1>0, <1>1, <1>5 DEF Moved, IsNew
  <2>2. TxQueued(p)' # 0
    BY <1>1, <1>4, <1>5 DEF TxQueued
  <2>. QED BY <1>0, <1>2, <1>4, <1>5, <2>1, <2>2 DEF Moved
<1>7. Sent(p)' = Sent(p) /\ Sent(p) # <<>> /\ Head(Sent(p)) = k.data
  <2>1. UNCHANGED SentView(p)
    BY <1>1, <1>4 DEF SentView
  <2>2. /\ i \in 0 .. TX_PACKET_COUNT - 1 /\ j \in 0 .. TX_PACKET_COUNT - 1
        /\ txPacket[p] \in [0 .. TX_PACKET_COUNT - 1 -> Payload]
        /\ TxQueued(p) \in 0 .. TX_PACKET_COUNT - 1 /\ Released(p) \in Int
    BY <1>4 DEF NodeTypes
  <2>3. Sent(p) # <<>> /\ Head(Sent(p)) = txPacket[p][i]
    BY <1>5, <2>2, Counts, ContentsPop DEF Sent
  <2>4. Ahead(TX_PACKET_COUNT, i, i) = 0
    BY <2>2 DEF Ahead
  <2>5. txPacket[p][i] = [boot |-> boots[p], num |-> Released(p) + 1]
    BY <1>3, <1>5, <2>2, <2>4 DEF SenderOK, TxRingOK
  <2>. QED BY <1>5, <2>1, <2>3, <2>5, ViewsSame
<1>8. Received(n)' = Append(Received(n), k.data)
  <2>. DEFINE m == rxMainLoopIndex[n]
              x == rxInterruptIndex[n]
              b == RxBuffer(n)
  <2>1. /\ m \in 0 .. RX_PACKET_COUNT - 1 /\ x \in 0 .. RX_PACKET_COUNT - 1
        /\ b \in [0 .. RX_PACKET_COUNT - 1 -> Payload] /\ b[x] = k.data
    BY <1>4, Buffers DEF NodeTypes, RxCurrent, RxBuffer
  <2>2. Ahead(RX_PACKET_COUNT, m, x) # RX_PACKET_COUNT - 1
    BY <1>1, <2>1, Counts DEF RxFull, Ahead, NextRx, Succ
  <2>. HIDE DEF m, x, b
  <2>4. Contents(b, RX_PACKET_COUNT, m, Succ(RX_PACKET_COUNT, x))
          = Append(Contents(b, RX_PACKET_COUNT, m, x), b[x])
    BY <2>1, <2>2, Counts, ContentsPush
  <2>. QED BY <1>1, <1>2, <2>1, <2>4 DEF Received, RxBuffer, NextRx, m, x, b
<1>9. SameReceived(Node \ {n})
  <2>1. UNCHANGED ReceivedView(p)
    BY <1>1, <1>2 DEF ReceivedView
  <2>. QED BY <1>0, <2>1, ViewsSame DEF SameReceived
<1>10. \/ Sent(n)' = Sent(n) /\ Moved(n)' = Moved(n)
       \/ Moved(n) /\ Moved(n)' = FALSE /\ Sent(n)' = Tail(Sent(n))
  BY <1>1, <1>2, <1>3, HandleAckReleases
<1>11. CASE Sent(n)' = Sent(n) /\ Moved(n)' = Moved(n)
  <2>1. SameLink(Node \ {p})
    BY <1>0, <1>11 DEF SameLink
  <2>2. Abstract!Move(p)
    BY <1>0, <1>6, <1>7, <1>8, <1>9, <2>1, AbsMove
  <2>. QED BY <1>0, <2>2 DEF Abstract!Next
<1>12. CASE Moved(n) /\ Moved(n)' = FALSE /\ Sent(n)' = Tail(Sent(n))
  <2>1. Abstract!ReleaseAndMove(n)
    BY <1>6, <1>7, <1>8, <1>9, <1>12, AbsReleaseAndMove
  <2>. QED BY <2>1 DEF Abstract!Next
<1>. QED BY <1>10, <1>11, <1>12

(* The main loop queues a packet. *)
BootsInBound == \A n \in Node : boots[n] \in 1 .. MaxBoots[n]

LEMMA SendPacketSends ==
  ASSUME TypeOK, TypeOK', ProtocolInv, Disciplined, BootsInBound, NEW n \in Node,
         RadioLinkTxSendPacket(n)
  PROVE  Abstract!Next
<1>. DEFINE p == Peer(n)
            i == txInterruptIndex[n]
            j == txMainLoopIndex[n]
            d == [boot |-> boots[n], num |-> nSent[n] + 1]
<1>0. /\ p \in Node /\ p # n /\ Peer(p) = n
      /\ \A m \in Node : m = n \/ m = p
  BY PeerFacts
<1>1. /\ NodeTypes(n) /\ NodeTypes(p) /\ SenderOK(n) /\ ~sendingReset[n]
      /\ TxAvailable(n) # 0 /\ nSent[n] < MaxPackets[n]
      /\ UNCHANGED <<rxVars, txInterruptIndex, seqVars>>
  BY <1>0, NodeTyped, Parts DEF RadioLinkTxSendPacket, Disciplined
<1>2. /\ i \in 0 .. TX_PACKET_COUNT - 1 /\ j \in 0 .. TX_PACKET_COUNT - 1
      /\ txPacket[n] \in [0 .. TX_PACKET_COUNT - 1 -> Payload]
      /\ nSent[n] \in Nat /\ boots[n] \in Nat
      /\ TxQueued(n) \in 0 .. TX_PACKET_COUNT - 1 /\ Released(n) \in Int
      /\ TxQueued(n) = Ahead(TX_PACKET_COUNT, i, j)
  BY <1>1 DEF NodeTypes, TxQueued
<1>3. /\ txPacket'[n] = [txPacket[n] EXCEPT ![j] = d] /\ txPacket'[p] = txPacket[p]
      /\ txMainLoopIndex'[n] = NextTx(j) /\ txMainLoopIndex'[p] = txMainLoopIndex[p]
  BY <1>0 DEF RadioLinkTxSendPacket, TypeOK
<1>4. d \in QueuedPayload
  <2>1. MaxPackets[n] \in Nat /\ MaxBoots[n] \in Nat
    BY BoundAssumption DEF BoundAssumption
  <2>2. d \in [boot : 1 .. MaxBoots[n], num : 1 .. MaxPackets[n]]
    BY <1>1, <1>2, <2>1 DEF BootsInBound
  <2>. QED BY <2>2 DEF QueuedPayload
<1>5. TxQueued(n)' = TxQueued(n) + 1 /\ TxQueued(n) # TX_PACKET_COUNT - 1
  <2>1. TxQueued(n) # TX_PACKET_COUNT - 1
    BY <1>1, <1>2, Counts DEF TxAvailable
  <2>2. TxQueued(n)' = Ahead(TX_PACKET_COUNT, i, NextTx(j))
    BY <1>1, <1>3 DEF TxQueued
  <2>3. Ahead(TX_PACKET_COUNT, i, NextTx(j)) = Ahead(TX_PACKET_COUNT, i, j) + 1
    <3>1. /\ i \in 0 .. TX_PACKET_COUNT - 1 /\ j \in 0 .. TX_PACKET_COUNT - 1
          /\ Ahead(TX_PACKET_COUNT, i, j) # TX_PACKET_COUNT - 1
      BY <1>2, <2>1
    <3>. HIDE DEF i, j
    <3>. QED BY <3>1, Counts DEF Ahead, NextTx, Succ
  <2>. QED BY <1>2, <2>1, <2>2, <2>3
<1>6. Sent(n)' = Append(Sent(n), d)
  <2>. DEFINE old == txPacket[n]
              new == txPacket'[n]
  <2>1. /\ old \in [0 .. TX_PACKET_COUNT - 1 -> Payload]
        /\ new \in [0 .. TX_PACKET_COUNT - 1 -> Payload]
        /\ SameBut(new, old, TX_PACKET_COUNT, j)
    BY <1>2, <1>3, BuffersNext DEF SameBut
  <2>4. new[j] = d
    BY <1>2, <1>3
  <2>. HIDE DEF old, new
  <2>2. /\ i \in 0 .. TX_PACKET_COUNT - 1 /\ j \in 0 .. TX_PACKET_COUNT - 1
        /\ Ahead(TX_PACKET_COUNT, i, j) # TX_PACKET_COUNT - 1
    BY <1>2, <1>5
  <2>. HIDE DEF i, j
  <2>3. Contents(new, TX_PACKET_COUNT, i, Succ(TX_PACKET_COUNT, j))
          = Append(Contents(old, TX_PACKET_COUNT, i, j), new[j])
    <3>1. Contents(new, TX_PACKET_COUNT, i, Succ(TX_PACKET_COUNT, j))
            = Append(Contents(new, TX_PACKET_COUNT, i, j), new[j])
      BY <2>1, <2>2, Counts, ContentsPush
    <3>2. Contents(new, TX_PACKET_COUNT, i, j) = Contents(old, TX_PACKET_COUNT, i, j)
      BY <2>1, <2>2, Counts, ContentsSame
    <3>. QED BY <3>1, <3>2
  <2>. QED BY <1>1, <1>3, <2>3, <2>4 DEF Sent, NextTx, old, new, i, j
<1>7. Moved(n)' = Moved(n)
  <2>1. UNCHANGED <<sendingReset, acceptAnySequenceBit, rxSequenceBit, txSequenceBit>>
    BY <1>1 DEF seqVars
  <2>2. CASE TxQueued(n) # 0
    BY <1>2, <1>5, <2>1, <2>2 DEF Moved
  <2>3. CASE TxQueued(n) = 0 /\ ~acceptAnySequenceBit[p]
    <3>1. lastAcc[p] = Released(n) /\ Released(n) \in Nat
      <4>1. lastAcc[p] \in {Released(n), Released(n) + 1} /\ lastAcc[p] <= nSent[n]
            /\ Released(n) >= 0
        BY <1>1 DEF SenderOK, SequenceOK
      <4>. QED BY <1>2, <2>3, <4>1 DEF Released
    <3>2. rxSequenceBit[p] = (Released(n) + 1) % 2 /\ txSequenceBit[n] = Released(n) % 2
      BY <1>1, <2>3, <3>1 DEF SenderOK, SequenceOK
    <3>3. rxSequenceBit[p] # txSequenceBit[n]
      BY <3>1, <3>2, Parity
    <3>. QED BY <2>1, <3>3 DEF Moved
  <2>4. CASE acceptAnySequenceBit[p]
    BY <2>1, <2>4 DEF Moved
  <2>. QED BY <1>1, <2>2, <2>3, <2>4 DEF NodeTypes
<1>8. SameLink(Node \ {n}) /\ SameReceived(Node)
  <2>1. UNCHANGED <<SentView(p), MovedView(p), ReceivedView(n), ReceivedView(p)>>
    BY <1>1, <1>3 DEF SentView, MovedView, ReceivedView, rxVars, seqVars
  <2>. QED BY <1>0, <2>1, ViewsSame DEF SameLink, SameReceived
<1>9. Abstract!Send(n)
  BY <1>4, <1>6, <1>7, <1>8, AbsSend
<1>. QED BY <1>9 DEF Abstract!Next

(* The main loop takes a packet. *)
LEMMA DoneTakes ==
  ASSUME TypeOK, NEW n \in Node, RadioLinkRxDoneWithPacket(n)
  PROVE  Abstract!Next
<1>. DEFINE i == rxMainLoopIndex[n]
            j == rxInterruptIndex[n]
            b == RxBuffer(n)
<1>1. /\ i # j /\ rxMainLoopIndex'[n] = NextRx(i)
      /\ UNCHANGED <<rxPacket, rxInterruptIndex, txVars, seqVars>>
      /\ \A m \in Node \ {n} : rxMainLoopIndex'[m] = rxMainLoopIndex[m]
  BY DEF RadioLinkRxDoneWithPacket, TypeOK
<1>2. /\ i \in 0 .. RX_PACKET_COUNT - 1 /\ j \in 0 .. RX_PACKET_COUNT - 1
      /\ b \in [0 .. RX_PACKET_COUNT - 1 -> Payload]
  BY NodeTyped, Buffers DEF NodeTypes
<1>3. Received(n) # <<>> /\ Received(n)' = Tail(Received(n))
  <2>. HIDE DEF i, j, b
  <2>1. /\ Contents(b, RX_PACKET_COUNT, i, j) # <<>>
        /\ Contents(b, RX_PACKET_COUNT, Succ(RX_PACKET_COUNT, i), j)
             = Tail(Contents(b, RX_PACKET_COUNT, i, j))
    BY <1>1, <1>2, Counts, ContentsPop DEF i, j
  <2>. QED BY <1>1, <2>1 DEF Received, RxBuffer, NextRx, i, j, b
<1>4. SameReceived(Node \ {n})
  <2>1. \A m \in Node \ {n} : UNCHANGED ReceivedView(m)
    BY <1>1 DEF ReceivedView
  <2>. QED BY <2>1, ViewsSame DEF SameReceived
<1>5. SameLink(Node)
  <2>1. \A m \in Node : UNCHANGED <<SentView(m), MovedView(m)>>
    BY <1>1 DEF SentView, MovedView, txVars, seqVars
  <2>. QED BY <2>1, ViewsSame DEF SameLink
<1>6. Abstract!Take(n)
  BY <1>3, <1>4, <1>5, AbsTake
<1>. QED BY <1>6 DEF Abstract!Next

(* A restart empties both queues; the restarted node accepts anything, and  *)
(* it is not connected, so what was copied counts no more.                  *)
LEMMA RestartRestarts ==
  ASSUME TypeOK, TypeOK', NEW n \in Node, Restart(n)
  PROVE  Abstract!Next
<1>. DEFINE p == Peer(n)
<1>0. /\ p \in Node /\ p # n /\ Peer(p) = n
      /\ \A m \in Node : m = n \/ m = p
  BY PeerFacts
<1>1. /\ txMainLoopIndex'[n] = 0 /\ txInterruptIndex'[n] = 0
      /\ rxMainLoopIndex'[n] = 0 /\ rxInterruptIndex'[n] = 0
      /\ sendingReset'[n] /\ acceptAnySequenceBit'[n]
  BY DEF Restart, TypeOK
<1>2. UNCHANGED <<SentView(p), ReceivedView(p)>>
  BY <1>0 DEF Restart, TypeOK, SentView, ReceivedView
<1>3. \A m \in Node : Moved(m)' = FALSE
  BY <1>0, <1>1 DEF Moved
<1>4. Sent(n)' = <<>>
  <2>. DEFINE b == txPacket'[n]
  <2>1. b \in [0 .. TX_PACKET_COUNT - 1 -> Payload] /\ 0 \in 0 .. TX_PACKET_COUNT - 1
    BY BuffersNext, Counts
  <2>. HIDE DEF b
  <2>2. Contents(b, TX_PACKET_COUNT, 0, 0) = <<>>
    BY <2>1, Counts, ContentsEmpty
  <2>. QED BY <1>1, <2>2 DEF Sent, b
<1>5. Received(n)' = <<>>
  <2>. DEFINE b == RxBuffer(n)'
  <2>1. b \in [0 .. RX_PACKET_COUNT - 1 -> Payload] /\ 0 \in 0 .. RX_PACKET_COUNT - 1
    BY BuffersNext, Counts
  <2>. HIDE DEF b
  <2>2. Contents(b, RX_PACKET_COUNT, 0, 0) = <<>>
    BY <2>1, Counts, ContentsEmpty
  <2>. QED BY <1>1, <2>2 DEF Received, RxBuffer, b
<1>6. /\ \A m \in Node \ {n} : Sent(m)' = Sent(m)
      /\ SameReceived(Node \ {n})
  BY <1>0, <1>2, ViewsSame DEF SameReceived
<1>7. Abstract!Restart(n)
  BY <1>3, <1>4, <1>5, <1>6, AbsRestart
<1>. QED BY <1>7 DEF Abstract!Next

------------------------------------------------------------------------------
LEMMA BootsBounded == Spec => []BootsInBound
<1>1. Init => BootsInBound
  BY BoundAssumption DEF Init, BootsInBound, BoundAssumption
<1>2. TypeOK /\ BootsInBound /\ [Next]_vars => BootsInBound'
  <2>. SUFFICES ASSUME TypeOK, BootsInBound, [Next]_vars
                PROVE  BootsInBound'
    OBVIOUS
  <2>1. ASSUME NEW n \in Node, Restart(n)
        PROVE  BootsInBound'
    <3>1. \A m \in Node : boots'[m] = IF m = n THEN boots[m] + 1 ELSE boots[m]
      BY <2>1 DEF Restart, TypeOK
    <3>2. \A m \in Node : MaxBoots[m] \in Nat /\ boots[m] \in 1 .. MaxBoots[m]
      BY BoundAssumption DEF BoundAssumption, BootsInBound
    <3>3. boots[n] < MaxBoots[n]
      BY <2>1 DEF Restart
    <3>. QED BY <3>1, <3>2, <3>3 DEF BootsInBound
  <2>2. ASSUME NEW n \in Node,
               MainLoop(n) \/ RfIsr(n) \/ Noise(n) \/ UNCHANGED vars
        PROVE  boots' = boots
    BY <2>2 DEF MainLoop, RadioLinkTxSendPacket, SetStrobe, RaiseInterrupt,
       RadioLinkRxDoneWithPacket, ClearResetPacketReceived, RadioLinkTxQueueReset,
       RfIsr, IgnoreStrobe, StrobeEvent, RxTimeoutEvent, TxEvent, RxEvent,
       RxBadCrcEvent, RxResetEvent, RxNoDataEvent, RxAcceptEvent, RxRefuseEvent,
       Noise, appVars, vars
  <2>3. UNCHANGED vars => boots' = boots
    BY DEF vars, appVars
  <2>. QED BY <2>1, <2>2, <2>3 DEF Next, BootsInBound
<1>. QED BY <1>1, <1>2, TypeCorrect, PTL DEF Spec

LEMMA RefinementInit ==
  ASSUME Init
  PROVE  Abstract!Init
<1>1. ASSUME NEW n \in Node
      PROVE  Sent(n) = <<>> /\ Moved(n) = FALSE /\ Received(n) = <<>>
  <2>1. TypeOK
    BY TypeInit
  <2>. DEFINE b == txPacket[n]
              x == RxBuffer(n)
  <2>2. /\ b \in [0 .. TX_PACKET_COUNT - 1 -> Payload] /\ 0 \in 0 .. TX_PACKET_COUNT - 1
        /\ x \in [0 .. RX_PACKET_COUNT - 1 -> Payload] /\ 0 \in 0 .. RX_PACKET_COUNT - 1
    BY <2>1, Buffers, Counts
  <2>. HIDE DEF b, x
  <2>3. /\ Contents(b, TX_PACKET_COUNT, 0, 0) = <<>>
        /\ Contents(x, RX_PACKET_COUNT, 0, 0) = <<>>
    BY <2>2, Counts, ContentsEmpty
  <2>4. /\ txInterruptIndex[n] = 0 /\ txMainLoopIndex[n] = 0
        /\ rxInterruptIndex[n] = 0 /\ rxMainLoopIndex[n] = 0 /\ sendingReset[n]
    BY DEF Init
  <2>. QED BY <2>3, <2>4 DEF Sent, Moved, Received, RxBuffer, b, x
<1>. QED BY <1>1 DEF Abstract!Init, Sent

LEMMA RefinementStep ==
  ASSUME TypeOK, TypeOK', ProtocolInv, Disciplined, BootsInBound, [Next]_vars
  PROVE  [Abstract!Next]_(Abstract!vars)
<1>1. ASSUME NEW n \in Node,
             \/ SetStrobe(n) \/ RaiseInterrupt(n) \/ ClearResetPacketReceived(n)
             \/ IgnoreStrobe(n) \/ StrobeEvent(n) \/ RxTimeoutEvent(n)
             \/ RxBadCrcEvent(n) \/ Noise(n)
      PROVE  UNCHANGED Abstract!vars
  <2>1. UNCHANGED LinkVars
    BY <1>1 DEF SetStrobe, RaiseInterrupt, ClearResetPacketReceived, IgnoreStrobe,
         StrobeEvent, RxTimeoutEvent, RxBadCrcEvent, Noise, LinkVars, rxVars,
         txVars, seqVars, appVars, histVars
  <2>. QED BY <2>1, LinkStutters
<1>2. CASE UNCHANGED vars
  <2>1. UNCHANGED LinkVars
    BY <1>2 DEF vars, LinkVars, rxVars, txVars, seqVars, appVars, histVars
  <2>. QED BY <2>1, LinkStutters
<1>3. ASSUME NEW n \in Node, RadioLinkTxQueueReset(n)
      PROVE  FALSE
  BY <1>3 DEF RadioLinkTxQueueReset, Disciplined, TypeOK
<1>. QED
  BY <1>1, <1>2, <1>3, SendPacketSends, DoneTakes, TxEventStutters, RxResetStutters,
     RxOldReleases, RxAcceptMoves, RestartRestarts
  DEF Next, MainLoop, RfIsr, RxEvent

(* Reliable, ordered delivery, as the header promises it: what two programs  *)
(* see of radio_link is two pairs of FIFO queues, in which each packet is    *)
(* copied once and released after that, whatever the radio does, for every   *)
(* number of buffers, packets and restarts.                                  *)
THEOREM LinkIsReliable == Disciplined => (Spec => ImplementsReliableLink)
<1>. SUFFICES ASSUME Disciplined
              PROVE  Spec => ImplementsReliableLink
  OBVIOUS
<1>1. Init => Abstract!Init
  BY RefinementInit
<1>2. TypeOK /\ TypeOK' /\ ProtocolInv /\ BootsInBound /\ [Next]_vars
        => [Abstract!Next]_(Abstract!vars)
  BY RefinementStep
<1>. QED BY <1>1, <1>2, ProtocolCorrect, TypeCorrect, BootsBounded, PTL
     DEF Spec, ImplementsReliableLink, Abstract!Spec

=============================================================================

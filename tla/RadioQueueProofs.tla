--------------------------- MODULE RadioQueueProofs ---------------------------
(***************************************************************************)
(* Proofs about RadioQueue, for any number of Wixels, buffers and packets: *)
(* type correctness, no lost wakeup, and the order of the packets on the   *)
(* air, in the RX buffers and in the programs.                             *)
(***************************************************************************)
EXTENDS RadioQueue, RingProofs

LEMMA Counts ==
  /\ TX_PACKET_COUNT \in Nat /\ TX_PACKET_COUNT > 1
  /\ RX_PACKET_COUNT \in Nat /\ RX_PACKET_COUNT > 1
BY CountAssumption DEF CountAssumption

LEMMA RingFacts ==
  /\ \A i \in 0 .. TX_PACKET_COUNT - 1 : NextTx(i) \in 0 .. TX_PACKET_COUNT - 1
  /\ \A i \in 0 .. RX_PACKET_COUNT - 1 : NextRx(i) \in 0 .. RX_PACKET_COUNT - 1
BY Counts, SuccInRing DEF NextTx, NextRx

------------------------------------------------------------------------------
(* Types *)

(* TypeOK by the parts of the program: the radio, the wakeup, the two rings *)
(* and the program.                                                         *)
RadioTyped ==
  /\ radio \in [Node -> {"off", "tx", "listen", "sync", "good", "bad"}]
  /\ hears \in [Node -> Node] /\ timeout \in [Node -> BOOLEAN]
  /\ \A n \in Node : radio[n] = "sync" => radio[hears[n]] = "tx"
WakeTyped == /\ strobe \in [Node -> BOOLEAN] /\ s1con \in [Node -> BOOLEAN]
             /\ pc \in [Node -> {"idle", "strobe", "irq"}]
RxTyped ==
  /\ rxPacket \in [Node -> [0 .. RX_PACKET_COUNT - 1 -> Packet]]
  /\ rxMainLoopIndex \in [Node -> 0 .. RX_PACKET_COUNT - 1]
  /\ rxInterruptIndex \in [Node -> 0 .. RX_PACKET_COUNT - 1]
TxTyped ==
  /\ txPacket \in [Node -> [0 .. TX_PACKET_COUNT - 1 -> Packet]]
  /\ txMainLoopIndex \in [Node -> 0 .. TX_PACKET_COUNT - 1]
  /\ txInterruptIndex \in [Node -> 0 .. TX_PACKET_COUNT - 1]
AppTyped == /\ nSent \in [Node -> Nat] /\ aired \in [Node -> Nat]
            /\ taken \in [Node -> [Node -> Nat]]

LEMMA TypeParts ==
  TypeOK <=> RadioTyped /\ WakeTyped /\ RxTyped /\ TxTyped /\ AppTyped
BY DEF TypeOK, RadioTyped, WakeTyped, RxTyped, TxTyped, AppTyped

LEMMA TypeInit == Init => TypeOK
<1>. SUFFICES ASSUME Init
              PROVE  TypeOK
  OBVIOUS
<1>1. \A n \in Node : Empty(n) \in Packet
  BY DEF Empty, Packet
<1>2. RadioTyped /\ WakeTyped /\ AppTyped
  BY DEF Init, RadioTyped, WakeTyped, AppTyped
<1>3. RxTyped /\ TxTyped
  BY <1>1, Counts DEF Init, RxTyped, TxTyped
<1>. QED BY <1>2, <1>3, TypeParts

LEMMA RadioMacTxType ==
  ASSUME RadioTyped, NEW n \in Node, RadioMacTx(n), radio[n] # "tx"
  PROVE  RadioTyped'
<1>. PICK H \in SUBSET {m \in Node \ {n} : radio[m] = "listen"} :
       /\ radio' = [m \in Node |-> IF m = n THEN "tx"
                                   ELSE IF m \in H THEN "sync" ELSE radio[m]]
       /\ hears' = [m \in Node |-> IF m \in H THEN n ELSE hears[m]]
       /\ timeout' = [timeout EXCEPT ![n] = FALSE]
  BY DEF RadioMacTx
<1>1. \A m \in Node : radio'[m] = "sync" => radio'[hears'[m]] = "tx"
  BY DEF RadioTyped
<1>. QED BY <1>1 DEF RadioTyped

LEMMA RadioMacRxType ==
  ASSUME RadioTyped, NEW n \in Node, NEW t \in BOOLEAN, RadioMacRx(n, t),
         radio[n] # "tx"
  PROVE  RadioTyped'
BY DEF RadioTyped, RadioMacRx

LEMMA TakeInitiativeType ==
  ASSUME RadioTyped, NEW n \in Node, TakeInitiative(n), radio[n] # "tx"
  PROVE  RadioTyped'
BY RadioMacTxType, RadioMacRxType DEF TakeInitiative

(* Each part keeps its type while its variables do not change. *)
LEMMA TypeSame ==
  ASSUME TypeOK
  PROVE  /\ UNCHANGED radioVars => RadioTyped'
         /\ UNCHANGED <<wakeVars, pc>> => WakeTyped'
         /\ UNCHANGED rxVars => RxTyped'
         /\ UNCHANGED txVars => TxTyped'
         /\ UNCHANGED <<nSent, aired, taken>> => AppTyped'
<1>1. UNCHANGED radioVars => RadioTyped'
  BY TypeParts DEF RadioTyped, radioVars
<1>2. UNCHANGED <<wakeVars, pc>> => WakeTyped'
  BY TypeParts DEF WakeTyped, wakeVars
<1>3. UNCHANGED rxVars => RxTyped'
  BY TypeParts DEF RxTyped, rxVars
<1>4. UNCHANGED txVars => TxTyped'
  BY TypeParts DEF TxTyped, txVars
<1>5. UNCHANGED <<nSent, aired, taken>> => AppTyped'
  BY TypeParts DEF AppTyped
<1>. QED BY <1>1, <1>2, <1>3, <1>4, <1>5

LEMMA TypePartsNext ==
  TypeOK' <=> RadioTyped' /\ WakeTyped' /\ RxTyped' /\ TxTyped' /\ AppTyped'
BY TypeParts, PTL

LEMMA EventDoneType ==
  ASSUME WakeTyped, NEW n \in Node, EventDone(n), pc' = pc
  PROVE  WakeTyped'
BY DEF WakeTyped, EventDone

LEMMA TypeStep ==
  ASSUME TypeOK, [Next]_vars
  PROVE  TypeOK'
<1>0. RadioTyped /\ WakeTyped /\ RxTyped /\ TxTyped /\ AppTyped
  BY TypeParts
<1>1. CASE UNCHANGED vars
  <2>1. UNCHANGED <<radioVars, wakeVars, pc, rxVars, txVars, nSent, aired, taken>>
    BY <1>1 DEF vars, appVars
  <2>. QED BY <2>1, TypeSame, TypePartsNext
<1>2. ASSUME NEW n \in Node, TxSendPacket(n)
      PROVE  TypeOK'
  <2>1. [from |-> n, num |-> nSent[n] + 1] \in Packet
    BY <1>0 DEF Packet, AppTyped
  <2>2. TxTyped'
    BY <1>0, <1>2, <2>1, RingFacts DEF TxSendPacket, TxTyped
  <2>3. WakeTyped'
    BY <1>0, <1>2 DEF TxSendPacket, WakeTyped, wakeVars
  <2>4. AppTyped'
    BY <1>0, <1>2 DEF TxSendPacket, AppTyped
  <2>5. UNCHANGED <<radioVars, rxVars>>
    BY <1>2 DEF TxSendPacket
  <2>. QED BY <2>2, <2>3, <2>4, <2>5, TypeSame, TypePartsNext
<1>3. ASSUME NEW n \in Node, RadioMacStrobe(n)
      PROVE  TypeOK'
  <2>1. WakeTyped'
    BY <1>0, <1>3 DEF RadioMacStrobe, WakeTyped
  <2>2. UNCHANGED <<radioVars, rxVars, txVars, nSent, aired, taken>>
    BY <1>3 DEF RadioMacStrobe
  <2>. QED BY <2>1, <2>2, TypeSame, TypePartsNext
<1>4. ASSUME NEW n \in Node, RxDoneWithPacket(n)
      PROVE  TypeOK'
  <2>1. RxTyped'
    BY <1>0, <1>4, RingFacts DEF RxDoneWithPacket, RxTyped
  <2>2. AppTyped'
    <3>1. rxPacket[n][rxMainLoopIndex[n]] \in Packet
      BY <1>0 DEF RxTyped
    <3>. QED BY <1>0, <1>4, <3>1 DEF RxDoneWithPacket, AppTyped, Packet
  <2>3. UNCHANGED <<radioVars, wakeVars, pc, txVars>>
    BY <1>4 DEF RxDoneWithPacket
  <2>. QED BY <2>1, <2>2, <2>3, TypeSame, TypePartsNext
<1>5. ASSUME NEW n \in Node, IgnoreStrobe(n)
      PROVE  TypeOK'
  <2>1. WakeTyped'
    BY <1>0, <1>5 DEF IgnoreStrobe, WakeTyped, appVars
  <2>2. UNCHANGED <<radioVars, rxVars, txVars, nSent, aired, taken>>
    BY <1>5 DEF IgnoreStrobe, appVars
  <2>. QED BY <2>1, <2>2, TypeSame, TypePartsNext
<1>6. ASSUME NEW n \in Node, StrobeEvent(n) \/ RxTimeoutEvent(n) \/ RxBadCrcEvent(n)
      PROVE  TypeOK'
  <2>1. RadioTyped'
    BY <1>0, <1>6, TakeInitiativeType, RadioMacRxType
    DEF StrobeEvent, RxTimeoutEvent, RxBadCrcEvent
  <2>2. EventDone(n) /\ UNCHANGED <<rxVars, txVars, pc, nSent, aired, taken>>
    BY <1>6 DEF StrobeEvent, RxTimeoutEvent, RxBadCrcEvent, appVars
  <2>. QED BY <1>0, <2>1, <2>2, EventDoneType, TypeSame, TypePartsNext
<1>7. ASSUME NEW n \in Node, TxEvent(n)
      PROVE  TypeOK'
  <2>. DEFINE k == txPacket[n][txInterruptIndex[n]]
  <2>0. PICK bad \in IF Corruption THEN SUBSET Hearers(n) ELSE {{}} :
       /\ radio' = [m \in Node |-> IF m = n THEN "listen"
                                   ELSE IF m \in bad THEN "bad"
                                   ELSE IF m \in Hearers(n) THEN "good"
                                   ELSE radio[m]]
       /\ rxPacket' = [m \in Node |-> IF m \in Hearers(n)
                         THEN [rxPacket[m] EXCEPT ![rxInterruptIndex[m]] =
                                 IF m \in bad THEN Damaged ELSE k]
                         ELSE rxPacket[m]]
    BY <1>7 DEF TxEvent
  <2>1. k \in Packet /\ Damaged \in Packet
    BY <1>0 DEF TxTyped, Packet
  <2>2. RadioTyped'
    BY <1>0, <1>7, <2>0 DEF TxEvent, RadioTyped, Hearers
  <2>3. RxTyped'
    BY <1>0, <1>7, <2>0, <2>1 DEF TxEvent, RxTyped
  <2>4. TxTyped'
    BY <1>0, <1>7, RingFacts DEF TxEvent, TxTyped
  <2>5. AppTyped' /\ WakeTyped'
    <3>1. k.num \in Nat
      BY <2>1 DEF Packet, Damaged
    <3>. QED BY <1>0, <1>7, <3>1, EventDoneType DEF TxEvent, AppTyped
  <2>. QED BY <2>2, <2>3, <2>4, <2>5, TypePartsNext
<1>8. ASSUME NEW n \in Node, RxPacketEvent(n)
      PROVE  TypeOK'
  <2>1. RadioTyped'
    BY <1>0, <1>8, TakeInitiativeType DEF RxPacketEvent
  <2>2. RxTyped'
    BY <1>0, <1>8, RingFacts DEF RxPacketEvent, RxTyped
  <2>3. EventDone(n) /\ UNCHANGED <<txVars, pc, nSent, aired, taken>>
    BY <1>8 DEF RxPacketEvent, appVars
  <2>. QED BY <1>0, <2>1, <2>2, <2>3, EventDoneType, TypeSame, TypePartsNext
<1>9. ASSUME NEW n \in Node, Noise(n)
      PROVE  TypeOK'
  <2>1. Damaged \in Packet
    BY DEF Packet
  <2>2. RxTyped'
    BY <1>0, <1>9, <2>1 DEF Noise, RxTyped
  <2>3. RadioTyped'
    BY <1>0, <1>9 DEF Noise, RadioTyped
  <2>4. UNCHANGED <<wakeVars, pc, txVars, nSent, aired, taken>>
    BY <1>9 DEF Noise, appVars
  <2>. QED BY <2>2, <2>3, <2>4, TypeSame, TypePartsNext
<1>. QED BY <1>1, <1>2, <1>3, <1>4, <1>5, <1>6, <1>7, <1>8, <1>9
         DEF Next, MainLoop, RfIsr, RxEvent

(* Every variable keeps its type, the indices stay inside the rings, and a  *)
(* Wixel receives only while the one it hears is sending.                   *)
THEOREM TypeCorrect == Spec => []TypeOK
<1>1. TypeOK /\ [Next]_vars => TypeOK'
  BY TypeStep
<1>. QED BY <1>1, TypeInit, PTL DEF Spec

------------------------------------------------------------------------------
(* No lost wakeup.  radioQueueTxSendPacket and radioMacStrobe take three    *)
(* steps, and the RF interrupt runs between any two of them; WakeupInv says *)
(* which of them are still to come when the radio would sleep on a queue    *)
(* that is not empty.                                                       *)

Sleeping(n) == radio[n] = "off" \/ (radio[n] = "listen" /\ ~timeout[n])
Queued(n) == txInterruptIndex[n] # txMainLoopIndex[n]
WillWake(n) == pc[n] = "strobe" \/ (strobe[n] /\ (s1con[n] \/ pc[n] = "irq"))

WakeupInv == \A n \in Node : Sleeping(n) /\ Queued(n) => WillWake(n)

(* An event at n: only n's radio can fall asleep, and not with a queue.     *)
EventAt(n) ==
  /\ ~(Sleeping(n)' /\ Queued(n)')
  /\ \A m \in Node \ {n} :
       /\ Sleeping(m)' => Sleeping(m)
       /\ UNCHANGED <<strobe[m], s1con[m], txInterruptIndex[m], txMainLoopIndex[m],
                      pc[m]>>

LEMMA TakeInitiativeLooks ==
  ASSUME TypeOK, NEW n \in Node, TakeInitiative(n), UNCHANGED txVars
  PROVE  /\ ~(Sleeping(n)' /\ Queued(n)')
         /\ \A m \in Node \ {n} : Sleeping(m)' => Sleeping(m)
<1>1. RadioTyped
  BY TypeParts
<1>2. CASE RadioMacTx(n)
  BY <1>1, <1>2 DEF RadioMacTx, RadioTyped, Sleeping
<1>3. CASE RadioMacRx(n, FALSE) /\ txInterruptIndex[n] = txMainLoopIndex[n]
  BY <1>1, <1>3 DEF RadioMacRx, RadioTyped, Sleeping, Queued, txVars
<1>. QED BY <1>2, <1>3 DEF TakeInitiative

LEMMA EventLooks ==
  ASSUME TypeOK, NEW n \in Node,
         \/ StrobeEvent(n) \/ RxTimeoutEvent(n) \/ TxEvent(n) \/ RxBadCrcEvent(n)
         \/ RxPacketEvent(n) \/ Noise(n)
  PROVE  EventAt(n)
<1>0. RadioTyped /\ WakeTyped /\ TxTyped
  BY TypeParts
<1>1. CASE StrobeEvent(n) \/ RxTimeoutEvent(n) \/ RxPacketEvent(n)
  <2>1. TakeInitiative(n) /\ EventDone(n) /\ UNCHANGED <<txVars, pc>>
    BY <1>1 DEF StrobeEvent, RxTimeoutEvent, RxPacketEvent, appVars
  <2>2. \A m \in Node \ {n} :
          UNCHANGED <<strobe[m], s1con[m], txInterruptIndex[m], txMainLoopIndex[m],
                      pc[m]>>
    BY <1>0, <2>1 DEF EventDone, WakeTyped, txVars
  <2>. QED BY <2>1, <2>2, TakeInitiativeLooks DEF EventAt
<1>2. CASE TxEvent(n)
  <2>1. \A m \in Node \ {n} :
          UNCHANGED <<strobe[m], s1con[m], txInterruptIndex[m], txMainLoopIndex[m],
                      pc[m]>>
    BY <1>0, <1>2 DEF TxEvent, EventDone, WakeTyped, TxTyped
  <2>2. /\ radio'[n] = "listen" /\ timeout'[n]
        /\ \A m \in Node \ {n} : /\ radio'[m] \in {radio[m], "good", "bad"}
                                 /\ timeout'[m] = timeout[m]
    BY <1>0, <1>2 DEF TxEvent, RadioTyped
  <2>. QED BY <2>1, <2>2 DEF EventAt, Sleeping
<1>3. CASE RxBadCrcEvent(n)
  <2>1. \A m \in Node \ {n} :
          UNCHANGED <<strobe[m], s1con[m], txInterruptIndex[m], txMainLoopIndex[m],
                      pc[m], radio[m], timeout[m]>>
    BY <1>0, <1>3 DEF RxBadCrcEvent, RadioMacRx, EventDone, WakeTyped, RadioTyped,
         txVars, appVars
  <2>2. /\ radio'[n] = "listen" /\ UNCHANGED txVars
        /\ timeout'[n] = (txInterruptIndex[n] # txMainLoopIndex[n])
    BY <1>0, <1>3 DEF RxBadCrcEvent, RadioMacRx, RadioTyped
  <2>. QED BY <2>1, <2>2 DEF EventAt, Sleeping, Queued, txVars
<1>4. CASE Noise(n)
  BY <1>0, <1>4 DEF Noise, RadioTyped, EventAt, Sleeping, wakeVars, txVars, appVars
<1>. QED BY <1>1, <1>2, <1>3, <1>4

LEMMA WakeupStep ==
  ASSUME TypeOK, WakeupInv, [Next]_vars
  PROVE  WakeupInv'
<1>0. WakeTyped /\ TxTyped
  BY TypeParts
<1>1. CASE UNCHANGED vars
  BY <1>1 DEF WakeupInv, Sleeping, Queued, WillWake, vars, radioVars, wakeVars,
     txVars, appVars
<1>2. ASSUME NEW n \in Node, EventAt(n)
      PROVE  WakeupInv'
  <2>1. ASSUME NEW m \in Node \ {n}, Sleeping(m)', Queued(m)'
        PROVE  WillWake(m)'
    BY <1>2, <2>1 DEF EventAt, WakeupInv, Queued, WillWake
  <2>. QED BY <1>2, <2>1 DEF EventAt, WakeupInv
<1>3. ASSUME NEW n \in Node, IgnoreStrobe(n)
      PROVE  WakeupInv'
  BY <1>0, <1>3 DEF IgnoreStrobe, WakeupInv, Sleeping, Queued, WillWake, WakeTyped,
     radioVars, txVars, appVars
<1>4. ASSUME NEW n \in Node, TxSendPacket(n)
      PROVE  WakeupInv'
  BY <1>0, <1>4 DEF TxSendPacket, WakeupInv, Sleeping, Queued, WillWake, WakeTyped,
     TxTyped, radioVars, wakeVars
<1>5. ASSUME NEW n \in Node, RadioMacStrobe(n)
      PROVE  WakeupInv'
  BY <1>0, <1>5 DEF RadioMacStrobe, WakeupInv, Sleeping, Queued, WillWake, WakeTyped,
     radioVars, txVars
<1>6. ASSUME NEW n \in Node, RxDoneWithPacket(n)
      PROVE  WakeupInv'
  BY <1>6 DEF RxDoneWithPacket, WakeupInv, Sleeping, Queued, WillWake, radioVars,
     wakeVars, txVars
<1>. QED BY <1>1, <1>2, <1>3, <1>4, <1>5, <1>6, EventLooks
         DEF Next, MainLoop, RfIsr, RxEvent

(* While a packet is queued the radio never sleeps without an interrupt on  *)
(* its way that will look at the queue, wherever the RF interrupt hits the  *)
(* main loop.                                                               *)
THEOREM NoLostWakeup == Spec => []QueuedDataIsNotForgotten
<1>1. Init => WakeupInv
  BY DEF Init, WakeupInv, Queued
<1>2. TypeOK /\ WakeupInv /\ [Next]_vars => WakeupInv'
  BY WakeupStep
<1>3. TypeOK /\ WakeupInv => QueuedDataIsNotForgotten
  <2>. SUFFICES ASSUME TypeOK, WakeupInv, NEW n \in Node, TxQueued(n) # 0,
                       Sleeping(n)
                PROVE  (s1con[n] /\ strobe[n]) \/ pc[n] # "idle"
    BY DEF QueuedDataIsNotForgotten, Sleeping
  <2>1. Queued(n)
    <3>1. txInterruptIndex[n] \in Nat
      BY TypeParts DEF TxTyped
    <3>. QED BY <3>1 DEF TxQueued, Queued, Ahead
  <2>. QED BY <2>1 DEF WakeupInv, WillWake
<1>. QED BY <1>1, <1>2, <1>3, TypeCorrect, PTL DEF Spec

------------------------------------------------------------------------------
(* The order of the packets.  SendOK: the TX buffers hold the packets after  *)
(* the last one transmitted.  ReadOK: the packets of each sender lie in the  *)
(* RX buffers in the order of their numbers, after those read and up to the  *)
(* last one transmitted; the buffer of the radio counts once its packet is   *)
(* complete.                                                                 *)

SendOK(n) ==
  /\ radio[n] = "tx" => Queued(n)
  /\ aired[n] = nSent[n] - TxQueued(n)
  /\ \A i \in 0 .. TX_PACKET_COUNT - 1 :
       Ahead(TX_PACKET_COUNT, txInterruptIndex[n], i) < TxQueued(n) =>
         txPacket[n][i] =
           [from |-> n,
            num |-> aired[n] + 1 + Ahead(TX_PACKET_COUNT, txInterruptIndex[n], i)]

Live(n, i) ==
  /\ rxPacket[n][i] # Damaged
  /\ \/ MainLoopOwns(n, i)
     \/ i = rxInterruptIndex[n] /\ radio[n] \in {"good", "bad"}

Before(n, i, j) == Ahead(RX_PACKET_COUNT, rxMainLoopIndex[n], i)
                     < Ahead(RX_PACKET_COUNT, rxMainLoopIndex[n], j)

IsFresh(n, k) == k.num > taken[n][k.from] /\ k.num <= aired[k.from]

ReadOK(n) ==
  /\ \A m \in Node : taken[n][m] <= aired[m]
  /\ \A i \in 0 .. RX_PACKET_COUNT - 1 : Live(n, i) => IsFresh(n, rxPacket[n][i])
  /\ \A i, j \in 0 .. RX_PACKET_COUNT - 1 :
       /\ Live(n, i) /\ Live(n, j) /\ Before(n, i, j)
       /\ rxPacket[n][i].from = rxPacket[n][j].from
       => rxPacket[n][i].num < rxPacket[n][j].num

OrderInv == \A n \in Node : SendOK(n) /\ ReadOK(n)

(* The variables of one node. *)
LEMMA NodeTyped ==
  ASSUME TypeOK, NEW n \in Node
  PROVE  /\ txPacket[n] \in [0 .. TX_PACKET_COUNT - 1 -> Packet]
         /\ txMainLoopIndex[n] \in 0 .. TX_PACKET_COUNT - 1
         /\ txInterruptIndex[n] \in 0 .. TX_PACKET_COUNT - 1
         /\ rxPacket[n] \in [0 .. RX_PACKET_COUNT - 1 -> Packet]
         /\ rxMainLoopIndex[n] \in 0 .. RX_PACKET_COUNT - 1
         /\ rxInterruptIndex[n] \in 0 .. RX_PACKET_COUNT - 1
         /\ nSent[n] \in Nat /\ aired[n] \in Nat
         /\ taken[n] \in [Node -> Nat]
         /\ TxQueued(n) \in 0 .. TX_PACKET_COUNT - 1
         /\ TxQueued(n) = 0 <=> ~Queued(n)
<1>1. TxTyped /\ RxTyped /\ AppTyped
  BY TypeParts
<1>2. /\ txMainLoopIndex[n] \in 0 .. TX_PACKET_COUNT - 1
      /\ txInterruptIndex[n] \in 0 .. TX_PACKET_COUNT - 1
  BY <1>1 DEF TxTyped
<1>3. /\ TxQueued(n) \in 0 .. TX_PACKET_COUNT - 1
      /\ TxQueued(n) = 0 <=> ~Queued(n)
  BY <1>2, Counts DEF TxQueued, Ahead, Queued
<1>. QED BY <1>1, <1>2, <1>3 DEF TxTyped, RxTyped, AppTyped

LEMMA PacketTyped ==
  ASSUME NEW k \in Packet, k # Damaged
  PROVE  k.from \in Node /\ k.num \in Nat
BY DEF Packet

LEMMA OwnedInRing ==
  ASSUME TypeOK, NEW n \in Node, NEW i \in 0 .. RX_PACKET_COUNT - 1
  PROVE  /\ MainLoopOwns(n, i) => /\ i # rxInterruptIndex[n]
                                  /\ Before(n, i, rxInterruptIndex[n])
                                  /\ rxMainLoopIndex[n] # rxInterruptIndex[n]
         /\ Before(n, rxInterruptIndex[n], i) => ~MainLoopOwns(n, i)
         /\ ~Before(n, i, i)
<1>1. /\ rxMainLoopIndex[n] \in 0 .. RX_PACKET_COUNT - 1
      /\ rxInterruptIndex[n] \in 0 .. RX_PACKET_COUNT - 1
  BY NodeTyped
<1>. QED BY <1>1, Counts DEF MainLoopOwns, Before, Ahead

LEMMA SendSame ==
  ASSUME NEW n \in Node, SendOK(n),
         UNCHANGED <<txPacket[n], txMainLoopIndex[n], txInterruptIndex[n], nSent[n],
                     aired[n]>>,
         radio'[n] = "tx" => radio[n] = "tx" \/ Queued(n)
  PROVE  SendOK(n)'
BY DEF SendOK, Queued, TxQueued

(* No new packet in the buffers, and no packet read. *)
LEMMA ReadSame ==
  ASSUME TypeOK, TypeOK', NEW n \in Node, ReadOK(n),
         UNCHANGED <<rxMainLoopIndex[n], taken[n]>>,
         \A m \in Node : aired[m] <= aired'[m],
         \A i \in 0 .. RX_PACKET_COUNT - 1 :
           Live(n, i)' => Live(n, i) /\ rxPacket'[n][i] = rxPacket[n][i]
  PROVE  ReadOK(n)'
<1>1. \A m \in Node : aired[m] \in Nat /\ aired'[m] \in Nat
  <2>1. AppTyped /\ AppTyped'
    BY TypeParts, TypePartsNext
  <2>. QED BY <2>1 DEF AppTyped
<1>2. taken[n] \in [Node -> Nat]
  BY NodeTyped
<1>3. \A m \in Node : taken'[n][m] <= aired'[m]
  BY <1>1, <1>2 DEF ReadOK
<1>4. ASSUME NEW i \in 0 .. RX_PACKET_COUNT - 1, Live(n, i)'
      PROVE  IsFresh(n, rxPacket[n][i])'
  <2>1. Live(n, i) /\ IsFresh(n, rxPacket[n][i]) /\ rxPacket'[n][i] = rxPacket[n][i]
    BY <1>4 DEF ReadOK
  <2>2. rxPacket[n][i].from \in Node /\ rxPacket[n][i].num \in Nat
    BY <2>1, NodeTyped, PacketTyped DEF Live
  <2>. QED BY <1>1, <2>1, <2>2 DEF IsFresh
<1>5. ASSUME NEW i \in 0 .. RX_PACKET_COUNT - 1, NEW j \in 0 .. RX_PACKET_COUNT - 1,
             Live(n, i)', Live(n, j)', Before(n, i, j)',
             rxPacket'[n][i].from = rxPacket'[n][j].from
      PROVE  rxPacket'[n][i].num < rxPacket'[n][j].num
  <2>1. Live(n, i) /\ Live(n, j) /\ Before(n, i, j)
    BY <1>5 DEF Before
  <2>2. rxPacket'[n][i] = rxPacket[n][i] /\ rxPacket'[n][j] = rxPacket[n][j]
    BY <1>5
  <2>. QED BY <1>5, <2>1, <2>2 DEF ReadOK
<1>. QED BY <1>3, <1>4, <1>5 DEF ReadOK

------------------------------------------------------------------------------
(* The steps that leave the packets in the buffers alone. *)

(* A step of the radio: it sends only what is queued, and completes no      *)
(* packet.                                                                  *)
RadioOnly ==
  \A m \in Node : /\ radio'[m] = "tx" => radio[m] = "tx" \/ Queued(m)
                  /\ radio'[m] \in {"good", "bad"} => radio'[m] = radio[m]

LEMMA RadioKeeps ==
  ASSUME TypeOK, TypeOK', OrderInv, RadioOnly, UNCHANGED <<rxVars, txVars, nSent,
         aired, taken>>
  PROVE  OrderInv'
<1>. SUFFICES ASSUME NEW n \in Node
              PROVE  SendOK(n)' /\ ReadOK(n)'
  BY DEF OrderInv
<1>1. SendOK(n)'
  BY SendSame DEF OrderInv, RadioOnly, txVars
<1>2. \A m \in Node : aired[m] \in Nat /\ aired[m] <= aired'[m]
  BY NodeTyped
<1>3. \A i \in 0 .. RX_PACKET_COUNT - 1 :
        Live(n, i)' => Live(n, i) /\ rxPacket'[n][i] = rxPacket[n][i]
  BY DEF Live, MainLoopOwns, RadioOnly, rxVars
<1>4. ReadOK(n)'
  BY <1>2, <1>3, ReadSame DEF OrderInv, rxVars
<1>. QED BY <1>1, <1>4

LEMMA TakeInitiativeOnly ==
  ASSUME TypeOK, NEW n \in Node, TakeInitiative(n)
  PROVE  RadioOnly
<1>0. RadioTyped
  BY TypeParts
<1>1. CASE RadioMacTx(n) /\ txInterruptIndex[n] # txMainLoopIndex[n]
  BY <1>0, <1>1 DEF RadioMacTx, RadioOnly, RadioTyped, Queued
<1>2. CASE RadioMacRx(n, FALSE)
  BY <1>0, <1>2 DEF RadioMacRx, RadioOnly, RadioTyped
<1>. QED BY <1>1, <1>2 DEF TakeInitiative

LEMMA NothingQueuedOrRead ==
  ASSUME TypeOK, TypeOK', OrderInv, NEW n \in Node,
         \/ RadioMacStrobe(n) \/ IgnoreStrobe(n) \/ StrobeEvent(n)
         \/ RxTimeoutEvent(n) \/ RxBadCrcEvent(n)
  PROVE  OrderInv'
<1>0. RadioTyped
  BY TypeParts
<1>1. UNCHANGED <<rxVars, txVars, nSent, aired, taken>>
  BY DEF RadioMacStrobe, IgnoreStrobe, StrobeEvent, RxTimeoutEvent, RxBadCrcEvent,
     appVars
<1>2. CASE RadioMacStrobe(n) \/ IgnoreStrobe(n)
  <2>1. RadioOnly
    BY <1>2 DEF RadioMacStrobe, IgnoreStrobe, radioVars, RadioOnly
  <2>. QED BY <1>1, <2>1, RadioKeeps
<1>3. CASE StrobeEvent(n) \/ RxTimeoutEvent(n)
  BY <1>1, <1>3, TakeInitiativeOnly, RadioKeeps DEF StrobeEvent, RxTimeoutEvent
<1>4. CASE RxBadCrcEvent(n)
  <2>1. RadioOnly
    BY <1>0, <1>4 DEF RxBadCrcEvent, RadioMacRx, RadioOnly, RadioTyped
  <2>. QED BY <1>1, <2>1, RadioKeeps
<1>. QED BY <1>2, <1>3, <1>4

(* A complete packet becomes the main loop's, or its buffer is used again.  *)
LEMMA RxPacketKeeps ==
  ASSUME TypeOK, TypeOK', OrderInv, NEW n \in Node, RxPacketEvent(n)
  PROVE  OrderInv'
<1>. SUFFICES ASSUME NEW m \in Node
              PROVE  SendOK(m)' /\ ReadOK(m)'
  BY DEF OrderInv
<1>0. /\ RadioTyped /\ RxTyped /\ RadioOnly
      /\ UNCHANGED <<rxPacket, rxMainLoopIndex, txVars, nSent, aired, taken>>
  BY TypeParts, TakeInitiativeOnly DEF RxPacketEvent, appVars
<1>1. SendOK(m)'
  BY <1>0, SendSame DEF OrderInv, RadioOnly, txVars
<1>2. \A x \in Node : aired[x] \in Nat /\ aired[x] <= aired'[x]
  BY <1>0, NodeTyped
<1>3. \A i \in 0 .. RX_PACKET_COUNT - 1 : Live(m, i)' => Live(m, i)
  <2>1. CASE rxInterruptIndex'[m] = rxInterruptIndex[m]
    BY <1>0, <2>1 DEF Live, MainLoopOwns, RadioOnly
  <2>2. CASE m = n /\ ~RxFull(n) /\ rxInterruptIndex'[n] = NextRx(rxInterruptIndex[n])
    <3>1. /\ radio[n] \in {"good", "bad"} /\ radio'[n] \notin {"good", "bad"}
      BY <1>0 DEF RxPacketEvent, TakeInitiative, RadioMacTx, RadioMacRx, RadioTyped
    <3>2. \A i \in 0 .. RX_PACKET_COUNT - 1 :
            MainLoopOwns(n, i)' => MainLoopOwns(n, i) \/ i = rxInterruptIndex[n]
      <4>. DEFINE x == rxMainLoopIndex[n]
                  j == rxInterruptIndex[n]
      <4>1. x \in 0 .. RX_PACKET_COUNT - 1 /\ j \in 0 .. RX_PACKET_COUNT - 1
            /\ NextRx(j) # x
        BY <2>2, NodeTyped DEF RxFull
      <4>2. ASSUME NEW i \in 0 .. RX_PACKET_COUNT - 1,
                   Ahead(RX_PACKET_COUNT, x, i) < Ahead(RX_PACKET_COUNT, x, NextRx(j))
            PROVE  Ahead(RX_PACKET_COUNT, x, i) < Ahead(RX_PACKET_COUNT, x, j) \/ i = j
        <5>. HIDE DEF x, j
        <5>. QED BY <4>1, <4>2, Counts DEF Ahead, NextRx, Succ
      <4>. QED BY <1>0, <2>2, <4>2 DEF MainLoopOwns
    <3>. QED BY <1>0, <2>2, <3>1, <3>2 DEF Live
  <2>. QED BY <1>0, <2>1, <2>2 DEF RxPacketEvent, RxTyped
<1>4. ReadOK(m)'
  BY <1>0, <1>2, <1>3, ReadSame DEF OrderInv
<1>. QED BY <1>1, <1>4

(* Noise leaves a damaged packet in the radio's buffer. *)
LEMMA NoiseKeeps ==
  ASSUME TypeOK, TypeOK', OrderInv, NEW n \in Node, Noise(n)
  PROVE  OrderInv'
<1>. SUFFICES ASSUME NEW m \in Node
              PROVE  SendOK(m)' /\ ReadOK(m)'
  BY DEF OrderInv
<1>0. /\ RadioTyped /\ RxTyped
      /\ UNCHANGED <<rxMainLoopIndex, rxInterruptIndex, txVars, nSent, aired, taken>>
  BY TypeParts DEF Noise, appVars
<1>1. /\ radio'[m] = radio[m] \/ (m = n /\ radio'[m] = "bad")
      /\ \A i \in 0 .. RX_PACKET_COUNT - 1 :
           \/ rxPacket'[m][i] = rxPacket[m][i] /\ (m # n \/ i # rxInterruptIndex[m])
           \/ rxPacket'[m][i] = Damaged
  BY <1>0 DEF Noise, RadioTyped, RxTyped
<1>2. SendOK(m)'
  BY <1>0, <1>1, SendSame DEF OrderInv, txVars
<1>3. \A x \in Node : aired[x] \in Nat /\ aired[x] <= aired'[x]
  BY <1>0, NodeTyped
<1>4. \A i \in 0 .. RX_PACKET_COUNT - 1 :
        Live(m, i)' => Live(m, i) /\ rxPacket'[m][i] = rxPacket[m][i]
  BY <1>0, <1>1 DEF Live, MainLoopOwns
<1>5. ReadOK(m)'
  BY <1>0, <1>3, <1>4, ReadSame DEF OrderInv
<1>. QED BY <1>2, <1>5

------------------------------------------------------------------------------
(* The steps that move a packet. *)

(* The TX ring after a push at j and after a pop at i. *)
LEMMA TxPush ==
  ASSUME NEW i \in 0 .. TX_PACKET_COUNT - 1, NEW j \in 0 .. TX_PACKET_COUNT - 1,
         NEW x \in 0 .. TX_PACKET_COUNT - 1,
         Ahead(TX_PACKET_COUNT, i, j) # TX_PACKET_COUNT - 1
  PROVE  /\ Ahead(TX_PACKET_COUNT, i, NextTx(j)) = Ahead(TX_PACKET_COUNT, i, j) + 1
         /\ Ahead(TX_PACKET_COUNT, i, x) < Ahead(TX_PACKET_COUNT, i, j) + 1
              => x = j \/ Ahead(TX_PACKET_COUNT, i, x) < Ahead(TX_PACKET_COUNT, i, j)
         /\ Ahead(TX_PACKET_COUNT, i, x) \in Nat
BY Counts DEF Ahead, NextTx, Succ

LEMMA TxPop ==
  ASSUME NEW i \in 0 .. TX_PACKET_COUNT - 1, NEW j \in 0 .. TX_PACKET_COUNT - 1,
         NEW x \in 0 .. TX_PACKET_COUNT - 1, i # j
  PROVE  /\ Ahead(TX_PACKET_COUNT, NextTx(i), j) = Ahead(TX_PACKET_COUNT, i, j) - 1
         /\ Ahead(TX_PACKET_COUNT, NextTx(i), x) < Ahead(TX_PACKET_COUNT, i, j) - 1
              => Ahead(TX_PACKET_COUNT, i, x)
                   = Ahead(TX_PACKET_COUNT, NextTx(i), x) + 1
         /\ Ahead(TX_PACKET_COUNT, i, i) = 0
         /\ Ahead(TX_PACKET_COUNT, i, x) \in Nat
         /\ Ahead(TX_PACKET_COUNT, NextTx(i), x) \in Nat
BY Counts DEF Ahead, NextTx, Succ

(* The RX ring after a pop at m and after a push at j. *)
LEMMA RxPop ==
  ASSUME NEW m \in 0 .. RX_PACKET_COUNT - 1, NEW j \in 0 .. RX_PACKET_COUNT - 1,
         NEW i \in 0 .. RX_PACKET_COUNT - 1, NEW k \in 0 .. RX_PACKET_COUNT - 1,
         m # j
  PROVE  /\ Ahead(RX_PACKET_COUNT, NextRx(m), i) < Ahead(RX_PACKET_COUNT, NextRx(m), j)
              <=> Ahead(RX_PACKET_COUNT, m, i) < Ahead(RX_PACKET_COUNT, m, j) /\ i # m
         /\ Ahead(RX_PACKET_COUNT, m, m) < Ahead(RX_PACKET_COUNT, m, j)
         /\ i # m => Ahead(RX_PACKET_COUNT, m, m) < Ahead(RX_PACKET_COUNT, m, i)
         /\ i # m /\ k # m
              => (Ahead(RX_PACKET_COUNT, NextRx(m), i)
                    < Ahead(RX_PACKET_COUNT, NextRx(m), k)
                  <=> Ahead(RX_PACKET_COUNT, m, i) < Ahead(RX_PACKET_COUNT, m, k))
BY Counts DEF Ahead, NextRx, Succ

LEMMA RxPush ==
  ASSUME NEW m \in 0 .. RX_PACKET_COUNT - 1, NEW j \in 0 .. RX_PACKET_COUNT - 1,
         NEW i \in 0 .. RX_PACKET_COUNT - 1, NextRx(j) # m,
         Ahead(RX_PACKET_COUNT, m, i) < Ahead(RX_PACKET_COUNT, m, j)
  PROVE  Ahead(RX_PACKET_COUNT, m, i) < Ahead(RX_PACKET_COUNT, m, NextRx(j))
BY Counts DEF Ahead, NextRx, Succ

(* A packet is queued behind those that are waiting. *)
LEMMA TxSendPacketKeeps ==
  ASSUME TypeOK, TypeOK', OrderInv, NEW n \in Node, TxSendPacket(n)
  PROVE  OrderInv'
<1>. SUFFICES ASSUME NEW m \in Node
              PROVE  SendOK(m)' /\ ReadOK(m)'
  BY DEF OrderInv
<1>0. /\ TxTyped /\ AppTyped /\ SendOK(m) /\ ReadOK(m)
      /\ UNCHANGED <<radioVars, rxVars, txInterruptIndex, aired, taken>>
  BY TypeParts DEF TxSendPacket, OrderInv
<1>1. ReadOK(m)'
  <2>1. \A x \in Node : aired[x] \in Nat /\ aired[x] <= aired'[x]
    BY <1>0, NodeTyped
  <2>2. \A i \in 0 .. RX_PACKET_COUNT - 1 :
          Live(m, i)' => Live(m, i) /\ rxPacket'[m][i] = rxPacket[m][i]
    BY <1>0 DEF Live, MainLoopOwns, rxVars, radioVars
  <2>. QED BY <1>0, <2>1, <2>2, ReadSame DEF rxVars
<1>2. CASE m # n
  <2>1. UNCHANGED <<txPacket[m], txMainLoopIndex[m], nSent[m]>>
    BY <1>0, <1>2 DEF TxSendPacket, TxTyped, AppTyped
  <2>. QED BY <1>0, <1>1, <2>1, SendSame DEF radioVars
<1>3. CASE m = n
  <2>. DEFINE i0 == txInterruptIndex[n]
              j == txMainLoopIndex[n]
              q == TxQueued(n)
              d == [from |-> n, num |-> nSent[n] + 1]
  <2>1. /\ i0 \in 0 .. TX_PACKET_COUNT - 1 /\ j \in 0 .. TX_PACKET_COUNT - 1
        /\ q = Ahead(TX_PACKET_COUNT, i0, j) /\ q \in Nat /\ q # TX_PACKET_COUNT - 1
        /\ nSent[n] \in Nat /\ aired[n] \in Nat
        /\ txPacket[n] \in [0 .. TX_PACKET_COUNT - 1 -> Packet]
    <3>1. TxAvailable(n) # 0
      BY DEF TxSendPacket
    <3>2. q \in 0 .. TX_PACKET_COUNT - 1
      BY NodeTyped
    <3>3. q \in Nat /\ q # TX_PACKET_COUNT - 1
      BY <3>1, <3>2, Counts DEF TxAvailable
    <3>. QED BY <3>3, NodeTyped DEF TxQueued
  <2>2. /\ txPacket'[n] = [txPacket[n] EXCEPT ![j] = d]
        /\ txMainLoopIndex'[n] = NextTx(j) /\ nSent'[n] = nSent[n] + 1
    BY <1>0 DEF TxSendPacket, TxTyped, AppTyped
  <2>3. Ahead(TX_PACKET_COUNT, i0, NextTx(j)) = q + 1
    BY <2>1, TxPush
  <2>4. TxQueued(n)' = q + 1
    BY <1>0, <2>2, <2>3 DEF TxQueued
  <2>5. aired[n] = nSent[n] - q
    BY <1>0, <1>3 DEF SendOK
  <2>6. radio'[n] = "tx" => Queued(n)'
    <3>1. Ahead(TX_PACKET_COUNT, i0, i0) = 0
      BY <2>1 DEF Ahead
    <3>2. i0 # NextTx(j)
      BY <2>1, <2>3, <3>1
    <3>. QED BY <1>0, <2>2, <3>2 DEF Queued
  <2>7. ASSUME NEW i \in 0 .. TX_PACKET_COUNT - 1,
               Ahead(TX_PACKET_COUNT, i0, i) < q + 1
        PROVE  txPacket'[n][i] = [from |-> n,
                 num |-> aired[n] + 1 + Ahead(TX_PACKET_COUNT, i0, i)]
    <3>1. CASE i = j
      <4>1. aired[n] + 1 + Ahead(TX_PACKET_COUNT, i0, i) = nSent[n] + 1
        BY <2>1, <2>5, <3>1
      <4>. QED BY <2>1, <2>2, <3>1, <4>1
    <3>2. CASE i # j
      <4>1. Ahead(TX_PACKET_COUNT, i0, i) < q
        BY <2>1, <2>7, <3>2, TxPush
      <4>2. txPacket[n][i] = [from |-> n,
              num |-> aired[n] + 1 + Ahead(TX_PACKET_COUNT, i0, i)]
        BY <1>0, <1>3, <4>1 DEF SendOK
      <4>. QED BY <2>1, <2>2, <3>2, <4>2
    <3>. QED BY <3>1, <3>2
  <2>8. aired'[n] = nSent'[n] - TxQueued(n)'
    BY <1>0, <2>1, <2>2, <2>4, <2>5
  <2>9. SendOK(n)'
    BY <1>0, <2>4, <2>6, <2>7, <2>8 DEF SendOK
  <2>. QED BY <1>1, <1>3, <2>9
<1>. QED BY <1>2, <1>3

(* The main loop has read the packet at the main loop index. *)
LEMMA RxDoneKeeps ==
  ASSUME TypeOK, TypeOK', OrderInv, NEW n \in Node, RxDoneWithPacket(n)
  PROVE  OrderInv'
<1>. SUFFICES ASSUME NEW m \in Node
              PROVE  SendOK(m)' /\ ReadOK(m)'
  BY DEF OrderInv
<1>0. /\ RxTyped /\ AppTyped /\ SendOK(m) /\ ReadOK(m)
      /\ UNCHANGED <<radioVars, rxPacket, rxInterruptIndex, txVars, nSent, aired>>
  BY TypeParts DEF RxDoneWithPacket, OrderInv
<1>1. SendOK(m)'
  BY <1>0, SendSame DEF radioVars, txVars
<1>2. CASE m # n
  <2>1. UNCHANGED <<rxMainLoopIndex[m], taken[m]>>
    BY <1>0, <1>2 DEF RxDoneWithPacket, RxTyped, AppTyped
  <2>2. \A x \in Node : aired[x] \in Nat /\ aired[x] <= aired'[x]
    BY <1>0, NodeTyped
  <2>3. \A i \in 0 .. RX_PACKET_COUNT - 1 :
          Live(m, i)' => Live(m, i) /\ rxPacket'[m][i] = rxPacket[m][i]
    BY <1>0, <2>1 DEF Live, MainLoopOwns, radioVars
  <2>. QED BY <1>0, <1>1, <2>1, <2>2, <2>3, ReadSame
<1>3. CASE m = n
  <2>. DEFINE h == rxMainLoopIndex[n]
              j == rxInterruptIndex[n]
              k == rxPacket[n][h]
  <2>1. /\ h \in 0 .. RX_PACKET_COUNT - 1 /\ j \in 0 .. RX_PACKET_COUNT - 1 /\ h # j
        /\ rxMainLoopIndex'[n] = NextRx(h) /\ k \in Packet
        /\ taken[n] \in [Node -> Nat]
        /\ \A x \in Node : aired[x] \in Nat
    BY <1>0, NodeTyped DEF RxDoneWithPacket, RxTyped
  <2>3. \A i \in 0 .. RX_PACKET_COUNT - 1 :
          Live(n, i)' => Live(n, i) /\ i # h
    <3>1. ASSUME NEW i \in 0 .. RX_PACKET_COUNT - 1
          PROVE  MainLoopOwns(n, i)' <=> MainLoopOwns(n, i) /\ i # h
      <4>1. Ahead(RX_PACKET_COUNT, NextRx(h), i) < Ahead(RX_PACKET_COUNT, NextRx(h), j)
              <=> Ahead(RX_PACKET_COUNT, h, i) < Ahead(RX_PACKET_COUNT, h, j) /\ i # h
        BY <2>1, RxPop
      <4>. QED BY <1>0, <2>1, <4>1 DEF MainLoopOwns
    <3>. QED BY <1>0, <2>1, <3>1 DEF Live, radioVars
  <2>4. \A i, x \in 0 .. RX_PACKET_COUNT - 1 :
          i # h /\ x # h => (Before(n, i, x)' <=> Before(n, i, x))
    BY <1>0, <2>1, RxPop DEF Before
  <2>5. k # Damaged => Live(n, h) /\ IsFresh(n, k) /\ k.from \in Node /\ k.num \in Nat
    <3>1. MainLoopOwns(n, h)
      BY <2>1, RxPop DEF MainLoopOwns
    <3>. QED BY <1>0, <1>3, <2>1, <3>1, PacketTyped DEF Live, ReadOK
  <2>6. \A x \in Node : IF k # Damaged /\ x = k.from THEN taken'[n][x] = k.num
                        ELSE taken'[n][x] = taken[n][x]
    <3>1. CASE k = Damaged
      BY <1>0, <3>1 DEF RxDoneWithPacket
    <3>2. CASE k # Damaged
      <4>1. taken' = [taken EXCEPT ![n][k.from] = k.num]
        BY <3>2 DEF RxDoneWithPacket
      <4>2. taken'[n] = [taken[n] EXCEPT ![k.from] = k.num]
        BY <1>0, <4>1 DEF AppTyped
      <4>. QED BY <2>1, <2>5, <3>2, <4>2
    <3>. QED BY <3>1, <3>2
  <2>7. \A x \in Node : taken'[n][x] <= aired'[x]
    BY <1>0, <1>3, <2>5, <2>6 DEF ReadOK, IsFresh
  <2>8. ASSUME NEW i \in 0 .. RX_PACKET_COUNT - 1, Live(n, i)'
        PROVE  IsFresh(n, rxPacket[n][i])'
    <3>1. Live(n, i) /\ i # h /\ IsFresh(n, rxPacket[n][i])
      BY <1>0, <1>3, <2>3, <2>8 DEF ReadOK
    <3>2. rxPacket[n][i].from \in Node /\ rxPacket[n][i].num \in Nat
      BY <3>1, NodeTyped, PacketTyped DEF Live
    <3>3. CASE k # Damaged /\ k.from = rxPacket[n][i].from
      <4>1. Before(n, h, i)
        BY <2>1, <3>1, RxPop DEF Before
      <4>2. k.num < rxPacket[n][i].num
        BY <1>0, <1>3, <2>1, <2>5, <3>1, <3>3, <4>1 DEF ReadOK
      <4>. QED BY <1>0, <2>6, <3>1, <3>2, <3>3, <4>2 DEF IsFresh
    <3>4. CASE ~(k # Damaged /\ k.from = rxPacket[n][i].from)
      BY <1>0, <2>6, <3>1, <3>2, <3>4 DEF IsFresh
    <3>. QED BY <3>3, <3>4
  <2>9. ASSUME NEW i \in 0 .. RX_PACKET_COUNT - 1, NEW x \in 0 .. RX_PACKET_COUNT - 1,
               Live(n, i)', Live(n, x)', Before(n, i, x)',
               rxPacket'[n][i].from = rxPacket'[n][x].from
        PROVE  rxPacket'[n][i].num < rxPacket'[n][x].num
    <3>1. /\ Live(n, i) /\ Live(n, x) /\ Before(n, i, x)
          /\ rxPacket[n][i].from = rxPacket[n][x].from
      BY <1>0, <2>3, <2>4, <2>9
    <3>. QED BY <1>0, <1>3, <3>1 DEF ReadOK
  <2>10. ReadOK(n)'
    BY <1>0, <2>7, <2>8, <2>9 DEF ReadOK
  <2>. QED BY <1>1, <1>3, <2>10
<1>. QED BY <1>2, <1>3

(* The packet at the interrupt index is off the air; those who heard it have *)
(* it, or a damaged one, in the buffer of their radio.                       *)
LEMMA TxEventFacts ==
  ASSUME TypeOK, OrderInv, NEW n \in Node, TxEvent(n)
  PROVE  /\ txPacket[n][txInterruptIndex[n]] = [from |-> n, num |-> aired[n] + 1]
         /\ aired'[n] = aired[n] + 1
         /\ \A m \in Node : m # n => aired'[m] = aired[m]
         /\ \A m \in Node : /\ aired[m] \in Nat /\ aired'[m] \in Nat
                            /\ aired[m] <= aired'[m]
         /\ TxQueued(n) # 0 /\ radio'[n] = "listen"
<1>. DEFINE i0 == txInterruptIndex[n]
<1>0. RadioTyped /\ AppTyped /\ SendOK(n)
  BY TypeParts DEF OrderInv
<1>1. Queued(n) /\ TxQueued(n) # 0 /\ TxQueued(n) \in Nat
  BY <1>0, NodeTyped DEF SendOK, TxEvent
<1>2. i0 \in 0 .. TX_PACKET_COUNT - 1 /\ aired[n] \in Nat
  BY NodeTyped
<1>3. Ahead(TX_PACKET_COUNT, i0, i0) = 0
  BY <1>2 DEF Ahead
<1>4. txPacket[n][i0] = [from |-> n, num |-> aired[n] + 1]
  <2>1. txPacket[n][i0] =
          [from |-> n, num |-> aired[n] + 1 + Ahead(TX_PACKET_COUNT, i0, i0)]
    BY <1>0, <1>1, <1>2, <1>3 DEF SendOK
  <2>2. aired[n] + 1 + Ahead(TX_PACKET_COUNT, i0, i0) = aired[n] + 1
    BY <1>2, <1>3
  <2>. QED BY <2>1, <2>2
<1>5. aired' = [aired EXCEPT ![n] = aired[n] + 1]
  BY <1>4 DEF TxEvent
<1>6. radio'[n] = "listen"
  BY DEF TxEvent
<1>. QED BY <1>0, <1>1, <1>2, <1>4, <1>5, <1>6 DEF AppTyped

LEMMA TxEventSends ==
  ASSUME TypeOK, TypeOK', OrderInv, NEW n \in Node, TxEvent(n), NEW m \in Node
  PROVE  SendOK(m)'
<1>0. /\ TxTyped /\ RadioTyped /\ SendOK(m)
      /\ UNCHANGED <<txPacket, txMainLoopIndex, nSent>>
      /\ txInterruptIndex' = [txInterruptIndex EXCEPT ![n] = NextTx(@)]
  BY TypeParts DEF TxEvent, OrderInv
<1>1. CASE m # n
  <2>1. radio'[m] = "tx" => radio[m] = "tx"
    BY <1>0, <1>1 DEF TxEvent, RadioTyped
  <2>2. txInterruptIndex'[m] = txInterruptIndex[m] /\ aired'[m] = aired[m]
    BY <1>0, <1>1, TxEventFacts DEF TxTyped
  <2>. QED BY <1>0, <2>1, <2>2, SendSame
<1>2. CASE m = n
  <2>. DEFINE i0 == txInterruptIndex[n]
              j == txMainLoopIndex[n]
              q == TxQueued(n)
  <2>0. q # 0 /\ radio'[n] = "listen" /\ aired'[n] = aired[n] + 1
    BY TxEventFacts
  <2>1. /\ i0 \in 0 .. TX_PACKET_COUNT - 1 /\ j \in 0 .. TX_PACKET_COUNT - 1
        /\ q = Ahead(TX_PACKET_COUNT, i0, j) /\ q \in Nat /\ i0 # j
        /\ nSent[n] \in Nat /\ aired[n] \in Nat
    <3>1. /\ q \in 0 .. TX_PACKET_COUNT - 1 /\ (q = 0 <=> ~Queued(n))
          /\ i0 \in 0 .. TX_PACKET_COUNT - 1 /\ j \in 0 .. TX_PACKET_COUNT - 1
          /\ nSent[n] \in Nat /\ aired[n] \in Nat
      BY NodeTyped
    <3>2. i0 # j /\ q \in Nat
      BY <2>0, <3>1 DEF Queued
    <3>. QED BY <3>1, <3>2 DEF TxQueued
  <2>2. txInterruptIndex'[n] = NextTx(i0)
    BY <1>0 DEF TxTyped
  <2>3. TxQueued(n)' = q - 1
    <3>1. Ahead(TX_PACKET_COUNT, NextTx(i0), j) = q - 1
      BY <2>1, TxPop
    <3>. QED BY <1>0, <2>2, <3>1 DEF TxQueued
  <2>4. aired'[n] = nSent'[n] - TxQueued(n)'
    <3>1. aired[n] = nSent[n] - q
      BY <1>0, <1>2 DEF SendOK
    <3>. QED BY <1>0, <2>0, <2>1, <2>3, <3>1
  <2>5. ASSUME NEW i \in 0 .. TX_PACKET_COUNT - 1,
               Ahead(TX_PACKET_COUNT, NextTx(i0), i) < q - 1
        PROVE  txPacket'[n][i] = [from |-> n,
                 num |-> aired'[n] + 1 + Ahead(TX_PACKET_COUNT, NextTx(i0), i)]
    <3>1. /\ Ahead(TX_PACKET_COUNT, i0, i)
               = Ahead(TX_PACKET_COUNT, NextTx(i0), i) + 1
          /\ Ahead(TX_PACKET_COUNT, NextTx(i0), i) \in Nat
      BY <2>1, <2>5, TxPop
    <3>2. txPacket[n][i] = [from |-> n,
            num |-> aired[n] + 1 + Ahead(TX_PACKET_COUNT, i0, i)]
      BY <1>0, <1>2, <2>1, <2>5, <3>1 DEF SendOK
    <3>3. aired[n] + 1 + Ahead(TX_PACKET_COUNT, i0, i)
            = aired'[n] + 1 + Ahead(TX_PACKET_COUNT, NextTx(i0), i)
      BY <2>0, <2>1, <3>1
    <3>. QED BY <1>0, <3>2, <3>3
  <2>6. radio'[n] # "tx"
    BY <2>0
  <2>7. SendOK(n)'
    BY <2>2, <2>3, <2>4, <2>5, <2>6 DEF SendOK
  <2>. QED BY <1>2, <2>7
<1>. QED BY <1>1, <1>2

LEMMA TxEventReads ==
  ASSUME TypeOK, TypeOK', OrderInv, NEW n \in Node, TxEvent(n), NEW m \in Node
  PROVE  ReadOK(m)'
<1>. PICK bad \in IF Corruption THEN SUBSET Hearers(n) ELSE {{}} :
       /\ radio' = [x \in Node |-> IF x = n THEN "listen"
                                   ELSE IF x \in bad THEN "bad"
                                   ELSE IF x \in Hearers(n) THEN "good"
                                   ELSE radio[x]]
       /\ rxPacket' = [x \in Node |-> IF x \in Hearers(n)
                         THEN [rxPacket[x] EXCEPT ![rxInterruptIndex[x]] =
                                 IF x \in bad THEN Damaged
                                 ELSE txPacket[n][txInterruptIndex[n]]]
                         ELSE rxPacket[x]]
  BY DEF TxEvent
<1>0. /\ ReadOK(m) /\ UNCHANGED <<rxMainLoopIndex, rxInterruptIndex, taken>>
      /\ radio[n] = "tx" /\ bad \subseteq Hearers(n)
  BY DEF TxEvent, OrderInv
<1>1. CASE m \notin Hearers(n)
  <2>1. rxPacket'[m] = rxPacket[m] /\ (radio'[m] = radio[m] \/ radio'[m] = "listen")
    BY <1>0, <1>1
  <2>2. \A i \in 0 .. RX_PACKET_COUNT - 1 :
          Live(m, i)' => Live(m, i) /\ rxPacket'[m][i] = rxPacket[m][i]
    BY <1>0, <2>1 DEF Live, MainLoopOwns
  <2>. QED BY <1>0, <2>2, TxEventFacts, ReadSame
<1>2. CASE m \in Hearers(n)
  <2>. DEFINE j == rxInterruptIndex[m]
              d == [from |-> n, num |-> aired[n] + 1]
  <2>1. /\ rxPacket[m] \in [0 .. RX_PACKET_COUNT - 1 -> Packet]
        /\ j \in 0 .. RX_PACKET_COUNT - 1 /\ taken[m] \in [Node -> Nat]
        /\ aired[n] \in Nat
    BY NodeTyped
  <2>2. rxPacket'[m] = [rxPacket[m] EXCEPT ![j] = IF m \in bad THEN Damaged ELSE d]
    BY <1>2, TxEventFacts
  <2>3. ASSUME NEW i \in 0 .. RX_PACKET_COUNT - 1, Live(m, i)'
        PROVE  \/ /\ MainLoopOwns(m, i) /\ i # j /\ Live(m, i)
                  /\ rxPacket'[m][i] = rxPacket[m][i]
                  /\ rxPacket[m][i].from \in Node /\ rxPacket[m][i].num \in Nat
                  /\ IsFresh(m, rxPacket[m][i])
               \/ i = j /\ rxPacket'[m][i] = d
    <3>1. MainLoopOwns(m, i)' <=> MainLoopOwns(m, i)
      BY <1>0 DEF MainLoopOwns
    <3>2. CASE i = j
      BY <2>1, <2>2, <2>3, <3>2 DEF Live
    <3>3. CASE i # j
      <4>1. rxPacket'[m][i] = rxPacket[m][i]
        BY <2>1, <2>2, <3>3
      <4>2. MainLoopOwns(m, i) /\ Live(m, i)
        BY <1>0, <2>3, <3>1, <3>3, <4>1 DEF Live
      <4>3. rxPacket[m][i].from \in Node /\ rxPacket[m][i].num \in Nat
        BY <2>1, <4>2, PacketTyped DEF Live
      <4>. QED BY <1>0, <3>3, <4>1, <4>2, <4>3 DEF ReadOK
    <3>. QED BY <3>2, <3>3
  <2>4. \A x \in Node : taken'[m][x] <= aired'[x]
    <3>1. \A x \in Node : taken[m][x] <= aired[x] /\ taken[m][x] \in Nat
      BY <1>0, <2>1 DEF ReadOK
    <3>2. \A x \in Node : /\ aired[x] \in Nat /\ aired'[x] \in Nat
                          /\ aired[x] <= aired'[x]
      BY TxEventFacts
    <3>. QED BY <1>0, <3>1, <3>2
  <2>5. ASSUME NEW i \in 0 .. RX_PACKET_COUNT - 1, Live(m, i)'
        PROVE  IsFresh(m, rxPacket[m][i])'
    <3>1. CASE i = j /\ rxPacket'[m][i] = d
      <4>1. taken[m][n] <= aired[n] /\ taken[m][n] \in Nat
        BY <1>0, <2>1 DEF ReadOK
      <4>2. aired'[n] = aired[n] + 1
        BY TxEventFacts
      <4>3. rxPacket'[m][i].from = n /\ rxPacket'[m][i].num = aired[n] + 1
        BY <3>1
      <4>. QED BY <1>0, <2>1, <4>1, <4>2, <4>3 DEF IsFresh
    <3>2. CASE /\ rxPacket'[m][i] = rxPacket[m][i] /\ IsFresh(m, rxPacket[m][i])
               /\ rxPacket[m][i].from \in Node /\ rxPacket[m][i].num \in Nat
      <4>1. /\ aired[rxPacket[m][i].from] \in Nat
            /\ aired'[rxPacket[m][i].from] \in Nat
            /\ aired[rxPacket[m][i].from] <= aired'[rxPacket[m][i].from]
        BY <3>2, TxEventFacts
      <4>. QED BY <1>0, <3>2, <4>1 DEF IsFresh
    <3>. QED BY <2>3, <2>5, <3>1, <3>2
  <2>6. ASSUME NEW i \in 0 .. RX_PACKET_COUNT - 1, NEW x \in 0 .. RX_PACKET_COUNT - 1,
               Live(m, i)', Live(m, x)', Before(m, i, x)',
               rxPacket'[m][i].from = rxPacket'[m][x].from
        PROVE  rxPacket'[m][i].num < rxPacket'[m][x].num
    <3>1. Before(m, i, x)
      BY <1>0, <2>6 DEF Before
    <3>2. i # j
      BY <2>1, <2>3, <2>6, <3>1, OwnedInRing
    <3>3. CASE x = j
      <4>1. rxPacket'[m][x] = d
        BY <2>3, <2>6, <3>3
      <4>2. /\ rxPacket'[m][i] = rxPacket[m][i] /\ IsFresh(m, rxPacket[m][i])
            /\ rxPacket[m][i].num \in Nat
        BY <2>3, <2>6, <3>2
      <4>3. rxPacket[m][i].from = n
        BY <2>6, <4>1, <4>2
      <4>4. rxPacket[m][i].num <= aired[n]
        BY <4>2, <4>3 DEF IsFresh
      <4>. QED BY <2>1, <4>1, <4>2, <4>4
    <3>4. CASE x # j
      BY <1>0, <2>3, <2>6, <3>1, <3>2, <3>4 DEF ReadOK
    <3>. QED BY <3>3, <3>4
  <2>. QED BY <2>4, <2>5, <2>6 DEF ReadOK
<1>. QED BY <1>1, <1>2

LEMMA OrderInit == Init => OrderInv
<1>. SUFFICES ASSUME Init, NEW n \in Node
              PROVE  SendOK(n) /\ ReadOK(n)
  BY DEF OrderInv
<1>1. TypeOK
  BY TypeInit
<1>2. /\ radio[n] = "off" /\ rxMainLoopIndex[n] = 0 /\ rxInterruptIndex[n] = 0
      /\ txMainLoopIndex[n] = 0 /\ txInterruptIndex[n] = 0
      /\ nSent[n] = 0 /\ aired = [m \in Node |-> 0] /\ taken[n] = [m \in Node |-> 0]
  BY DEF Init
<1>3. TxQueued(n) = 0
  BY <1>2 DEF TxQueued, Ahead
<1>4. \A i \in 0 .. TX_PACKET_COUNT - 1 : ~(Ahead(TX_PACKET_COUNT, 0, i) < 0)
  BY Counts DEF Ahead
<1>5. SendOK(n)
  BY <1>2, <1>3, <1>4 DEF SendOK
<1>6. \A i \in 0 .. RX_PACKET_COUNT - 1 : ~MainLoopOwns(n, i)
  BY <1>2, Counts DEF MainLoopOwns, Ahead
<1>7. ReadOK(n)
  BY <1>2, <1>6 DEF ReadOK, Live
<1>. QED BY <1>5, <1>7

LEMMA OrderSame ==
  ASSUME TypeOK, TypeOK', OrderInv, UNCHANGED vars
  PROVE  OrderInv'
<1>1. RadioOnly /\ UNCHANGED <<rxVars, txVars, nSent, aired, taken>>
  BY DEF RadioOnly, vars, radioVars, appVars
<1>. QED BY <1>1, RadioKeeps

LEMMA OrderStep ==
  ASSUME TypeOK, TypeOK', OrderInv, [Next]_vars
  PROVE  OrderInv'
<1>1. ASSUME NEW n \in Node, TxEvent(n)
      PROVE  OrderInv'
  BY <1>1, TxEventSends, TxEventReads DEF OrderInv
<1>. QED BY <1>1, OrderSame, NothingQueuedOrRead, TxSendPacketKeeps, RxDoneKeeps,
            RxPacketKeeps, NoiseKeeps
         DEF Next, MainLoop, RfIsr, RxEvent

(* The TX buffers hold what is still to be sent, and the RX buffers what was *)
(* sent and not yet read, in the order of the calls.                         *)
THEOREM OrderInvariant == Spec => []OrderInv
<1>1. TypeOK /\ TypeOK' /\ OrderInv /\ [Next]_vars => OrderInv'
  BY OrderStep
<1>. QED BY <1>1, OrderInit, TypeCorrect, PTL DEF Spec

------------------------------------------------------------------------------
(* What the steps do. *)

LEMMA AirStep ==
  ASSUME TypeOK, OrderInv, [Next]_vars, NEW n \in Node,
         radio[n] = "tx", radio'[n] # "tx"
  PROVE  aired'[n] = aired[n] + 1
<1>0. RadioTyped
  BY TypeParts
<1>1. ASSUME NEW x \in Node, TxEvent(x)
      PROVE  x = n
  <2>. PICK bad \in IF Corruption THEN SUBSET Hearers(x) ELSE {{}} :
         radio' = [m \in Node |-> IF m = x THEN "listen"
                                  ELSE IF m \in bad THEN "bad"
                                  ELSE IF m \in Hearers(x) THEN "good"
                                  ELSE radio[m]]
    BY <1>1 DEF TxEvent
  <2>1. n \notin Hearers(x) /\ n \notin bad
    BY DEF Hearers
  <2>. QED BY <2>1
<1>2. ASSUME NEW x \in Node,
             \/ StrobeEvent(x) \/ RxTimeoutEvent(x) \/ RxPacketEvent(x)
      PROVE  FALSE
  <2>1. x # n /\ TakeInitiative(x)
    BY <1>2 DEF StrobeEvent, RxTimeoutEvent, RxPacketEvent
  <2>. QED BY <1>0, <2>1 DEF TakeInitiative, RadioMacTx, RadioMacRx, RadioTyped
<1>3. ASSUME NEW x \in Node, RxBadCrcEvent(x) \/ Noise(x)
      PROVE  FALSE
  BY <1>0, <1>3 DEF RxBadCrcEvent, RadioMacRx, Noise, RadioTyped
<1>4. ASSUME NEW x \in Node,
             \/ TxSendPacket(x) \/ RadioMacStrobe(x) \/ RxDoneWithPacket(x)
             \/ IgnoreStrobe(x)
      PROVE  FALSE
  BY <1>4 DEF TxSendPacket, RadioMacStrobe, RxDoneWithPacket, IgnoreStrobe, radioVars
<1>5. ~UNCHANGED vars
  BY DEF vars, radioVars
<1>6. TxEvent(n)
  BY <1>1, <1>2, <1>3, <1>4, <1>5 DEF Next, MainLoop, RfIsr, RxEvent
<1>. QED BY <1>6, TxEventFacts

LEMMA ReadStep ==
  ASSUME TypeOK, OrderInv, [Next]_vars, NEW n \in Node,
         rxMainLoopIndex'[n] # rxMainLoopIndex[n]
  PROVE  LET packet == rxPacket[n][rxMainLoopIndex[n]] IN
           packet # Damaged => IsFresh(n, packet)
<1>1. ASSUME NEW x \in Node, RxDoneWithPacket(x)
      PROVE  x = n
  <2>1. RxTyped
    BY TypeParts
  <2>. QED BY <1>1, <2>1 DEF RxDoneWithPacket, RxTyped
<1>2. RxDoneWithPacket(n)
  BY <1>1 DEF Next, MainLoop, RfIsr, RxEvent, TxSendPacket, RadioMacStrobe,
     IgnoreStrobe, StrobeEvent, RxTimeoutEvent, TxEvent, RxBadCrcEvent,
     RxPacketEvent, Noise, vars, rxVars
<1>3. /\ rxMainLoopIndex[n] \in 0 .. RX_PACKET_COUNT - 1
      /\ rxInterruptIndex[n] \in 0 .. RX_PACKET_COUNT - 1
      /\ rxMainLoopIndex[n] # rxInterruptIndex[n]
  BY <1>2, NodeTyped DEF RxDoneWithPacket
<1>4. MainLoopOwns(n, rxMainLoopIndex[n])
  BY <1>3, RxPop DEF MainLoopOwns
<1>. QED BY <1>3, <1>4 DEF OrderInv, ReadOK, Live

LEMMA OwnedStep ==
  ASSUME TypeOK, [Next]_vars, NEW n \in Node, NEW i \in 0 .. RX_PACKET_COUNT - 1,
         MainLoopOwns(n, i)
  PROVE  \/ MainLoopOwns(n, i)' /\ rxPacket'[n][i] = rxPacket[n][i]
         \/ i = rxMainLoopIndex[n] /\ rxMainLoopIndex'[n] = NextRx(i)
<1>. DEFINE m == rxMainLoopIndex[n]
            j == rxInterruptIndex[n]
<1>0. /\ m \in 0 .. RX_PACKET_COUNT - 1 /\ j \in 0 .. RX_PACKET_COUNT - 1
      /\ m # j /\ i # j
      /\ rxPacket[n] \in [0 .. RX_PACKET_COUNT - 1 -> Packet]
  BY NodeTyped, OwnedInRing
<1>t. RxTyped
  BY TypeParts
<1>1. CASE UNCHANGED rxVars
  BY <1>1 DEF rxVars, MainLoopOwns
<1>2. ASSUME NEW x \in Node, RxDoneWithPacket(x)
      PROVE  \/ MainLoopOwns(n, i)' /\ rxPacket'[n][i] = rxPacket[n][i]
             \/ i = m /\ rxMainLoopIndex'[n] = NextRx(i)
  <2>0. UNCHANGED <<rxPacket, rxInterruptIndex>>
    BY <1>2 DEF RxDoneWithPacket
  <2>1. CASE x = n
    <3>1. rxMainLoopIndex'[n] = NextRx(m)
      BY <1>t, <1>2, <2>1 DEF RxDoneWithPacket, RxTyped
    <3>2. i # m => MainLoopOwns(n, i)'
      <4>1. Ahead(RX_PACKET_COUNT, NextRx(m), i) < Ahead(RX_PACKET_COUNT, NextRx(m), j)
              <=> Ahead(RX_PACKET_COUNT, m, i) < Ahead(RX_PACKET_COUNT, m, j) /\ i # m
        BY <1>0, RxPop
      <4>. QED BY <2>0, <3>1, <4>1 DEF MainLoopOwns
    <3>. QED BY <2>0, <3>1, <3>2
  <2>2. CASE x # n
    <3>1. rxMainLoopIndex'[n] = rxMainLoopIndex[n]
      BY <1>t, <1>2, <2>2 DEF RxDoneWithPacket, RxTyped
    <3>. QED BY <2>0, <3>1 DEF MainLoopOwns
  <2>. QED BY <2>1, <2>2
<1>3. ASSUME NEW x \in Node, RxPacketEvent(x)
      PROVE  MainLoopOwns(n, i)' /\ rxPacket'[n][i] = rxPacket[n][i]
  <2>1. UNCHANGED <<rxPacket, rxMainLoopIndex>>
    BY <1>3 DEF RxPacketEvent
  <2>2. \/ rxInterruptIndex'[n] = j
        \/ rxInterruptIndex'[n] = NextRx(j) /\ NextRx(j) # m
    BY <1>t, <1>3 DEF RxPacketEvent, RxFull, RxTyped
  <2>3. MainLoopOwns(n, i)'
    BY <1>0, <2>1, <2>2, RxPush DEF MainLoopOwns
  <2>. QED BY <2>1, <2>3
<1>4. ASSUME NEW x \in Node, TxEvent(x) \/ Noise(x)
      PROVE  MainLoopOwns(n, i)' /\ rxPacket'[n][i] = rxPacket[n][i]
  <2>1. UNCHANGED <<rxMainLoopIndex, rxInterruptIndex>>
    BY <1>4 DEF TxEvent, Noise
  <2>2. ASSUME TxEvent(x)
        PROVE  \/ rxPacket'[n] = rxPacket[n]
               \/ \E k : rxPacket'[n] = [rxPacket[n] EXCEPT ![j] = k]
    BY <2>2 DEF TxEvent
  <2>3. ASSUME Noise(x)
        PROVE  \/ rxPacket'[n] = rxPacket[n]
               \/ \E k : rxPacket'[n] = [rxPacket[n] EXCEPT ![j] = k]
    BY <1>t, <2>3 DEF Noise, RxTyped
  <2>4. rxPacket'[n][i] = rxPacket[n][i]
    BY <1>0, <1>4, <2>2, <2>3
  <2>. QED BY <2>1, <2>4 DEF MainLoopOwns
<1>5. ASSUME NEW x \in Node,
             \/ TxSendPacket(x) \/ RadioMacStrobe(x) \/ IgnoreStrobe(x)
             \/ StrobeEvent(x) \/ RxTimeoutEvent(x) \/ RxBadCrcEvent(x)
      PROVE  UNCHANGED rxVars
  BY <1>5 DEF TxSendPacket, RadioMacStrobe, IgnoreStrobe, StrobeEvent,
     RxTimeoutEvent, RxBadCrcEvent
<1>6. UNCHANGED vars => UNCHANGED rxVars
  BY DEF vars
<1>. QED BY <1>1, <1>2, <1>3, <1>4, <1>5, <1>6 DEF Next, MainLoop, RfIsr, RxEvent

(* Every packet is transmitted once and in order, every program reads what   *)
(* was transmitted in order and at most once, and the radio does not write   *)
(* into a buffer that the main loop owns: for every number of Wixels,        *)
(* packets and buffers, with packets lost, damaged or refused.               *)
THEOREM OrderKept == Spec => OrderIsKept
<1>1. TypeOK /\ OrderInv /\ [Next]_vars =>
        [\A n \in Node : radio[n] = "tx" /\ radio'[n] # "tx"
                           => aired'[n] = aired[n] + 1]_vars
  BY AirStep
<1>2. TypeOK /\ OrderInv /\ [Next]_vars =>
        [\A n \in Node : rxMainLoopIndex'[n] # rxMainLoopIndex[n]
           => LET packet == rxPacket[n][rxMainLoopIndex[n]] IN
                packet # Damaged => /\ packet.num > taken[n][packet.from]
                                    /\ packet.num <= aired[packet.from]]_vars
  BY ReadStep DEF IsFresh
<1>3. TypeOK /\ [Next]_vars =>
        [\A n \in Node, i \in 0 .. RX_PACKET_COUNT - 1 :
           MainLoopOwns(n, i)
             => \/ MainLoopOwns(n, i)' /\ rxPacket'[n][i] = rxPacket[n][i]
                \/ i = rxMainLoopIndex[n] /\ rxMainLoopIndex'[n] = NextRx(i)]_vars
  BY OwnedStep
<1>4. Spec => AirInOrder
  BY <1>1, TypeCorrect, OrderInvariant, PTL DEF Spec, AirInOrder
<1>5. Spec => ReadsInOrder
  BY <1>2, TypeCorrect, OrderInvariant, PTL DEF Spec, ReadsInOrder
<1>6. Spec => OwnedBuffersAreStable
  BY <1>3, TypeCorrect, PTL DEF Spec, OwnedBuffersAreStable
<1>. QED BY <1>4, <1>5, <1>6 DEF OrderIsKept

=============================================================================

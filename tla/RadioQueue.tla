----------------------------- MODULE RadioQueue -----------------------------
(***************************************************************************)
(* Wixels that run libraries/src/radio_queue over libraries/src/radio_mac  *)
(* on one channel: packets are queued, sent once each and never            *)
(* acknowledged; every other Wixel may hear them, lose them, hear them     *)
(* damaged, or have no buffer for them.                                    *)
(*                                                                         *)
(* As in RadioLink, an activation of the RF interrupt is one action and    *)
(* radioQueueTxSendPacket is three.                                        *)
(***************************************************************************)
EXTENDS Ring

CONSTANTS
  Node,                      \* the Wixels on the channel
  TX_PACKET_COUNT,           \* number of TX buffers (16 in the code)
  RX_PACKET_COUNT,           \* number of RX buffers (3 in the code)
  radioQueueAllowCrcErrors,  \* [n]: n's program accepts damaged packets
  Corruption,                \* TRUE if the radio damages packets
  MaxPackets                 \* bound: packets node n queues

ASSUME CountAssumption == /\ TX_PACKET_COUNT \in Nat /\ TX_PACKET_COUNT > 1
                          /\ RX_PACKET_COUNT \in Nat /\ RX_PACKET_COUNT > 1
ASSUME BoundAssumption ==
  /\ radioQueueAllowCrcErrors \in [Node -> BOOLEAN] /\ Corruption \in BOOLEAN
  /\ MaxPackets \in [Node -> Nat]

\* Packet number num of node from; num 0 is a packet of length 0.  Damaged is
\* what the receiver holds when the CRC does not pass.
Damaged == [from |-> "nobody", num |-> 1]
Packet == [from : Node, num : Nat] \cup {Damaged}
Empty(n) == [from |-> n, num |-> 0]

VARIABLES
  radio,      \* "off", "tx", "listen", "sync" (receiving), "good", "bad"
  hears,      \* hears[n]: the node whose packet n is receiving, if "sync"
  timeout,    \* timeout[n]: the radio listens for a limited time
  strobe, s1con,
  rxPacket, rxMainLoopIndex, rxInterruptIndex,
  txPacket, txMainLoopIndex, txInterruptIndex,
  pc,         \* "idle", or inside radioMacStrobe: "strobe", "irq"
  nSent,      \* packets n has queued
  aired,      \* number of the last packet n has transmitted
  taken       \* taken[n][m]: the last packet of m that n's program has read

radioVars == <<radio, hears, timeout>>
wakeVars == <<strobe, s1con>>
rxVars == <<rxPacket, rxMainLoopIndex, rxInterruptIndex>>
txVars == <<txPacket, txMainLoopIndex, txInterruptIndex>>
appVars == <<pc, nSent, aired, taken>>
vars == <<radioVars, wakeVars, rxVars, txVars, appVars>>

\* radioQueueInit ends with radioMacStrobe.
Init ==
  /\ radio = [n \in Node |-> "off"] /\ hears = [n \in Node |-> n]
  /\ timeout = [n \in Node |-> FALSE]
  /\ strobe = [n \in Node |-> TRUE] /\ s1con = [n \in Node |-> TRUE]
  /\ rxPacket = [n \in Node |-> [i \in 0 .. RX_PACKET_COUNT - 1 |-> Empty(n)]]
  /\ rxMainLoopIndex = [n \in Node |-> 0]
  /\ rxInterruptIndex = [n \in Node |-> 0]
  /\ txPacket = [n \in Node |-> [i \in 0 .. TX_PACKET_COUNT - 1 |-> Empty(n)]]
  /\ txMainLoopIndex = [n \in Node |-> 0]
  /\ txInterruptIndex = [n \in Node |-> 0]
  /\ pc = [n \in Node |-> "idle"]
  /\ nSent = [n \in Node |-> 0] /\ aired = [n \in Node |-> 0]
  /\ taken = [n \in Node |-> [m \in Node |-> 0]]

------------------------------------------------------------------------------
(* The main loop *)

NextTx(i) == Succ(TX_PACKET_COUNT, i)
NextRx(i) == Succ(RX_PACKET_COUNT, i)

TxQueued(n) == Ahead(TX_PACKET_COUNT, txInterruptIndex[n], txMainLoopIndex[n])

\* Mutant: the last buffer is given away, so that full looks like empty.
TxAvailableAll(n) == TX_PACKET_COUNT - TxQueued(n)
TxAvailable(n) == TX_PACKET_COUNT - 1 - TxQueued(n)

\* radioQueueTxCurrentPacket did not return 0.
TxSendPacket(n) ==
  /\ pc[n] = "idle" /\ TxAvailable(n) # 0
  /\ nSent[n] < MaxPackets[n]
  /\ txPacket' = [txPacket EXCEPT ![n][txMainLoopIndex[n]] =
                    [from |-> n, num |-> nSent[n] + 1]]
  /\ txMainLoopIndex' = [txMainLoopIndex EXCEPT ![n] = NextTx(@)]
  /\ nSent' = [nSent EXCEPT ![n] = @ + 1]
  /\ pc' = [pc EXCEPT ![n] = "strobe"]
  /\ UNCHANGED <<radioVars, wakeVars, rxVars, txInterruptIndex, aired, taken>>

\* radioMacStrobe.  Mutant: the interrupt is raised before the bit is set.
SetStrobeSecond(n) ==
  \/ /\ pc[n] = "strobe" /\ pc' = [pc EXCEPT ![n] = "irq"]
     /\ s1con' = [s1con EXCEPT ![n] = TRUE]
     /\ UNCHANGED <<radioVars, strobe, rxVars, txVars, nSent, aired, taken>>
  \/ /\ pc[n] = "irq" /\ pc' = [pc EXCEPT ![n] = "idle"]
     /\ strobe' = [strobe EXCEPT ![n] = TRUE]
     /\ UNCHANGED <<radioVars, s1con, rxVars, txVars, nSent, aired, taken>>

RadioMacStrobe(n) ==
  \/ /\ pc[n] = "strobe" /\ pc' = [pc EXCEPT ![n] = "irq"]
     /\ strobe' = [strobe EXCEPT ![n] = TRUE]
     /\ UNCHANGED <<radioVars, s1con, rxVars, txVars, nSent, aired, taken>>
  \/ /\ pc[n] = "irq" /\ pc' = [pc EXCEPT ![n] = "idle"]
     /\ s1con' = [s1con EXCEPT ![n] = TRUE]
     /\ UNCHANGED <<radioVars, strobe, rxVars, txVars, nSent, aired, taken>>

\* radioQueueRxCurrentPacket returned a packet; radioQueueRxDoneWithPacket.
RxDoneWithPacket(n) ==
  /\ rxMainLoopIndex[n] # rxInterruptIndex[n]
  /\ LET packet == rxPacket[n][rxMainLoopIndex[n]] IN
       taken' = IF packet = Damaged THEN taken
                ELSE [taken EXCEPT ![n][packet.from] = packet.num]
  /\ rxMainLoopIndex' = [rxMainLoopIndex EXCEPT ![n] = NextRx(@)]
  /\ UNCHANGED <<radioVars, wakeVars, rxPacket, rxInterruptIndex, txVars, pc,
                 nSent, aired>>

------------------------------------------------------------------------------
(* radioMacEventHandler, between radioMacEvent's entry and exit *)

EventDone(n) == /\ strobe' = [strobe EXCEPT ![n] = FALSE]
                /\ s1con' = [s1con EXCEPT ![n] = FALSE]

\* radioMacTx and STX: any listener may see the start of the frame.
RadioMacTx(n) ==
  \E H \in SUBSET {m \in Node \ {n} : radio[m] = "listen"} :
    /\ radio' = [m \in Node |-> IF m = n THEN "tx"
                                ELSE IF m \in H THEN "sync" ELSE radio[m]]
    /\ hears' = [m \in Node |-> IF m \in H THEN n ELSE hears[m]]
    /\ timeout' = [timeout EXCEPT ![n] = FALSE]

\* radioMacRx and SRX; randomTxDelay() is 1 to 4.
RadioMacRx(n, limited) == /\ radio' = [radio EXCEPT ![n] = "listen"]
                          /\ timeout' = [timeout EXCEPT ![n] = limited]
                          /\ UNCHANGED hears

\* It runs after the RX index was advanced and never moves the TX index.
TakeInitiative(n) ==
  \/ txInterruptIndex[n] # txMainLoopIndex[n] /\ RadioMacTx(n)
  \/ txInterruptIndex[n] = txMainLoopIndex[n] /\ RadioMacRx(n, FALSE)

IgnoreStrobe(n) ==
  /\ s1con[n]
  /\ ~strobe[n] \/ radio[n] \in {"tx", "sync"} \/ (radio[n] = "listen" /\ timeout[n])
  /\ s1con' = [s1con EXCEPT ![n] = FALSE]
  /\ UNCHANGED <<radioVars, strobe, rxVars, txVars, appVars>>

\* Also while the radio is calibrating, or a packet is just done (RadioLink).
StrobeEvent(n) ==
  /\ s1con[n] /\ strobe[n] /\ radio[n] \notin {"tx", "sync"}
  /\ TakeInitiative(n)
  /\ EventDone(n)
  /\ UNCHANGED <<rxVars, txVars, appVars>>

RxTimeoutEvent(n) ==
  /\ radio[n] = "listen" /\ timeout[n]
  /\ TakeInitiative(n)
  /\ EventDone(n)
  /\ UNCHANGED <<rxVars, txVars, appVars>>

\* What those who heard all of n's packet have now; a packet of length 0
\* cannot be queued, so num is not 0.
Hearers(n) == {m \in Node : radio[m] = "sync" /\ hears[m] = n}

\* Mutant: the packet is not given back, so it is sent again.
TxEventRepeats(n) ==
  /\ radio[n] = "tx"
  /\ radio' = [m \in Node |-> IF m = n THEN "listen"
                              ELSE IF m \in Hearers(n) THEN "good" ELSE radio[m]]
  /\ rxPacket' = [m \in Node |-> IF m \in Hearers(n)
                    THEN [rxPacket[m] EXCEPT ![rxInterruptIndex[m]] =
                            txPacket[n][txInterruptIndex[n]]]
                    ELSE rxPacket[m]]
  /\ aired' = [aired EXCEPT ![n] = txPacket[n][txInterruptIndex[n]].num]
  /\ timeout' = [timeout EXCEPT ![n] = TRUE]
  /\ EventDone(n)
  /\ UNCHANGED <<hears, rxMainLoopIndex, rxInterruptIndex, txVars, pc, nSent, taken>>

TxEvent(n) ==
  /\ radio[n] = "tx"
  /\ \E bad \in IF Corruption THEN SUBSET Hearers(n) ELSE {{}} :
       /\ radio' = [m \in Node |-> IF m = n THEN "listen"
                                   ELSE IF m \in bad THEN "bad"
                                   ELSE IF m \in Hearers(n) THEN "good"
                                   ELSE radio[m]]
       /\ rxPacket' = [m \in Node |-> IF m \in Hearers(n)
                         THEN [rxPacket[m] EXCEPT ![rxInterruptIndex[m]] =
                                 IF m \in bad THEN Damaged
                                 ELSE txPacket[n][txInterruptIndex[n]]]
                         ELSE rxPacket[m]]
  /\ aired' = [aired EXCEPT ![n] = txPacket[n][txInterruptIndex[n]].num]
  /\ txInterruptIndex' = [txInterruptIndex EXCEPT ![n] = NextTx(@)]
  /\ timeout' = [timeout EXCEPT ![n] = TRUE]
  /\ EventDone(n)
  /\ UNCHANGED <<hears, rxMainLoopIndex, rxInterruptIndex, txPacket,
                 txMainLoopIndex, pc, nSent, taken>>

\* Mutant: a bad packet always ends the pause before the next transmission.
RxBadCrcEventForgets(n) ==
  /\ radio[n] = "bad" /\ ~radioQueueAllowCrcErrors[n]
  /\ RadioMacRx(n, FALSE)
  /\ EventDone(n)
  /\ UNCHANGED <<rxVars, txVars, appVars>>

RxBadCrcEvent(n) ==
  /\ radio[n] = "bad" /\ ~radioQueueAllowCrcErrors[n]
  /\ RadioMacRx(n, txInterruptIndex[n] # txMainLoopIndex[n])
  /\ EventDone(n)
  /\ UNCHANGED <<rxVars, txVars, appVars>>

\* Mutant: the buffers the main loop holds are not counted.
RxFullNever(n) == FALSE
RxFull(n) == NextRx(rxInterruptIndex[n]) = rxMainLoopIndex[n]

\* A damaged length byte may be 0, and the packet is then discarded.
RxPacketEvent(n) ==
  /\ radio[n] = "good" \/ (radio[n] = "bad" /\ radioQueueAllowCrcErrors[n])
  /\ \/ /\ ~RxFull(n)
        /\ rxInterruptIndex' = [rxInterruptIndex EXCEPT ![n] = NextRx(@)]
     \/ /\ RxFull(n) \/ radio[n] = "bad"
        /\ UNCHANGED rxInterruptIndex
  /\ TakeInitiative(n)
  /\ EventDone(n)
  /\ UNCHANGED <<rxPacket, rxMainLoopIndex, txVars, appVars>>

------------------------------------------------------------------------------

\* Something that is not a packet fills the receiver.
Noise(n) ==
  /\ Corruption /\ radio[n] = "listen"
  /\ radio' = [radio EXCEPT ![n] = "bad"]
  /\ rxPacket' = [rxPacket EXCEPT ![n][rxInterruptIndex[n]] = Damaged]
  /\ UNCHANGED <<hears, timeout, wakeVars, rxMainLoopIndex, rxInterruptIndex,
                 txVars, appVars>>

MainLoop(n) == TxSendPacket(n) \/ RadioMacStrobe(n) \/ RxDoneWithPacket(n)
RxEvent(n) == RxBadCrcEvent(n) \/ RxPacketEvent(n)
RfIsr(n) == \/ IgnoreStrobe(n) \/ StrobeEvent(n) \/ RxTimeoutEvent(n)
            \/ TxEvent(n) \/ RxEvent(n)

Next == \E n \in Node : MainLoop(n) \/ RfIsr(n) \/ Noise(n)

Spec == Init /\ [][Next]_vars

------------------------------------------------------------------------------
(* Properties *)

\* Type correctness; a packet that is being received has a sender.
TypeOK ==
  /\ radio \in [Node -> {"off", "tx", "listen", "sync", "good", "bad"}]
  /\ hears \in [Node -> Node]
  /\ \A n \in Node : radio[n] = "sync" => radio[hears[n]] = "tx"
  /\ timeout \in [Node -> BOOLEAN]
  /\ strobe \in [Node -> BOOLEAN] /\ s1con \in [Node -> BOOLEAN]
  /\ rxPacket \in [Node -> [0 .. RX_PACKET_COUNT - 1 -> Packet]]
  /\ rxMainLoopIndex \in [Node -> 0 .. RX_PACKET_COUNT - 1]
  /\ rxInterruptIndex \in [Node -> 0 .. RX_PACKET_COUNT - 1]
  /\ txPacket \in [Node -> [0 .. TX_PACKET_COUNT - 1 -> Packet]]
  /\ txMainLoopIndex \in [Node -> 0 .. TX_PACKET_COUNT - 1]
  /\ txInterruptIndex \in [Node -> 0 .. TX_PACKET_COUNT - 1]
  /\ pc \in [Node -> {"idle", "strobe", "irq"}]
  /\ nSent \in [Node -> Nat] /\ aired \in [Node -> Nat]
  /\ taken \in [Node -> [Node -> Nat]]

\* No lost wakeup ("Make sure that radioMacEventHandler runs soon so it can
\* see this new data and send it"): the radio never listens without a
\* timeout while a packet is queued, unless an interrupt is on its way.
QueuedDataIsNotForgotten ==
  \A n \in Node :
    /\ TxQueued(n) # 0
    /\ radio[n] = "off" \/ (radio[n] = "listen" /\ ~timeout[n])
    => (s1con[n] /\ strobe[n]) \/ pc[n] # "idle"

\* Every packet queued is transmitted once, in the order of the calls.
AirInOrder ==
  [][\A n \in Node : radio[n] = "tx" /\ radio'[n] # "tx"
                       => aired'[n] = aired[n] + 1]_vars

\* A program reads the packets of another Wixel in the order they were
\* queued there, each at most once, and none that was not transmitted.
ReadsInOrder ==
  [][\A n \in Node : rxMainLoopIndex'[n] # rxMainLoopIndex[n]
       => LET packet == rxPacket[n][rxMainLoopIndex[n]] IN
            packet # Damaged => /\ packet.num > taken[n][packet.from]
                                /\ packet.num <= aired[packet.from]]_vars

\* Buffer i of n belongs to the main loop.
MainLoopOwns(n, i) ==
  Ahead(RX_PACKET_COUNT, rxMainLoopIndex[n], i)
    < Ahead(RX_PACKET_COUNT, rxMainLoopIndex[n], rxInterruptIndex[n])

\* "The main loop owns all the buffers from radioQueueRxMainLoopIndex to
\* radioQueueRxInterruptIndex-1": the radio does not write into them.
OwnedBuffersAreStable ==
  [][\A n \in Node, i \in 0 .. RX_PACKET_COUNT - 1 :
       MainLoopOwns(n, i)
         => \/ MainLoopOwns(n, i)' /\ rxPacket'[n][i] = rxPacket[n][i]
            \/ i = rxMainLoopIndex[n] /\ rxMainLoopIndex'[n] = NextRx(i)]_vars

\* Packets go out and are read in the order of the calls, and the radio does
\* not write into a buffer that the main loop owns.
OrderIsKept == AirInOrder /\ ReadsInOrder /\ OwnedBuffersAreStable

------------------------------------------------------------------------------
(* Liveness: the interrupt and the strobe are never held up, and noise does *)
(* not fill every pause.                                                   *)

Fairness ==
  \A n \in Node :
    /\ WF_vars(IgnoreStrobe(n) \/ StrobeEvent(n)) /\ WF_vars(RadioMacStrobe(n))
    /\ WF_vars(TxEvent(n)) /\ WF_vars(RxEvent(n)) /\ SF_vars(RxTimeoutEvent(n))

FairSpec == Spec /\ Fairness

\* Whatever is queued is transmitted, however busy the channel is.
QueuedIsAired ==
  \A n \in Node : (nSent[n] = MaxPackets[n]) ~> (aired[n] = MaxPackets[n])

=============================================================================

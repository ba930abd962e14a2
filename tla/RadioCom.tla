------------------------------ MODULE RadioCom ------------------------------
(***************************************************************************)
(* libraries/src/radio_com on two Wixels: a stream of bytes and the state  *)
(* of control signals, cut into packets and given to a link that keeps the *)
(* promises of ReliableLink.  radio_com runs in the main loop only, so a   *)
(* call is one action; the link moves packets between any two calls.       *)
(***************************************************************************)
EXTENDS Integers, Sequences

CONSTANTS
  Node,                     \* the two Wixels
  RADIO_LINK_PAYLOAD_SIZE,  \* bytes in a full packet (18 in the code)
  TX_QUEUE_THRESHOLD,       \* non-full packets are sent up to it (1)
  TxCapacity,               \* packets the link queues: TX_PACKET_COUNT - 1
  RxCapacity,               \* packets it holds for us: RX_PACKET_COUNT - 1
  UINT8,                    \* number of values of a uint8 (256)
  Signals,                  \* values of the control signals; 0 is the default
  EnforceOrdering,          \* radioComRxEnforceOrdering
  MaxBytes,                 \* bound: bytes node n sends between restarts
  MaxChanges,               \* bound: changes of its control signals
  MaxBoots,                 \* bound: number of times node n starts up
  ResetCopies               \* bound: times one Reset packet is received

ASSUME NodeAssumption == \E x, y \in Node : x # y /\ Node = {x, y}
ASSUME SizeAssumption ==
  /\ RADIO_LINK_PAYLOAD_SIZE \in Nat \ {0} /\ TX_QUEUE_THRESHOLD \in Nat
  /\ TxCapacity \in Nat \ {0} /\ RxCapacity \in Nat \ {0} /\ UINT8 \in Nat \ {0}
ASSUME BoundAssumption ==
  /\ 0 \in Signals /\ EnforceOrdering \in BOOLEAN
  /\ MaxBytes \in [Node -> Nat] /\ MaxChanges \in [Node -> Nat]
  /\ MaxBoots \in [Node -> Nat] /\ ResetCopies \in Nat

\* A byte is identified by its number; sentUnder is the state of the control
\* signals when the program handed it over, for the properties.
Byte == [num : Nat, sentUnder : Signals]
DataPacket(bytes) == [type |-> "DATA", bytes |-> bytes]
SignalsPacket(s) == [type |-> "CONTROL_SIGNALS", signals |-> s]
Payload == {bytes \in Seq(Byte) : Len(bytes) \in 1 .. RADIO_LINK_PAYLOAD_SIZE}
Packet == [type : {"DATA"}, bytes : Payload]
            \cup [type : {"CONTROL_SIGNALS"}, signals : Signals]

VARIABLES
  out, moved, in,    \* the link (ReliableLink)
  resetOnAir,        \* resetOnAir[n]: copies of the peer's Reset still to come
  resetReceived,     \* radioLinkResetPacketReceived
  txBytes,           \* the data packet being filled; txBytesLoaded is its length
  txSignals,         \* radioComTxSignals
  sendSignalsSoon,
  rxBytesLeft,       \* bytes of Head(in[n]) not read yet, if it is being read
  rxSignals,         \* radioComRxSignals
  lastRxSignals,
  nBytes, nChanges, boots,   \* what the program has done since it started
  lastByte           \* lastByte[n]: the last byte n's program has read

linkVars == <<out, moved, in, resetOnAir>>
txVars == <<resetReceived, txBytes, txSignals, sendSignalsSoon>>
rxVars == <<rxBytesLeft, rxSignals, lastRxSignals, lastByte>>
appVars == <<nBytes, nChanges, boots>>
vars == <<linkVars, txVars, rxVars, appVars>>

Link == INSTANCE ReliableLink WITH Payload <- Packet

NoByte == [num |-> 0, sentUnder |-> 0]

Init == /\ Link!Init
        /\ resetOnAir = [n \in Node |-> ResetCopies]
        /\ resetReceived = [n \in Node |-> FALSE]
        /\ txBytes = [n \in Node |-> <<>>]
        /\ txSignals = [n \in Node |-> 0]
        /\ sendSignalsSoon = [n \in Node |-> FALSE]
        /\ rxBytesLeft = [n \in Node |-> 0]
        /\ rxSignals = [n \in Node |-> 0]
        /\ lastRxSignals = [n \in Node |-> 0]
        /\ nBytes = [n \in Node |-> 0]
        /\ nChanges = [n \in Node |-> 0]
        /\ boots = [n \in Node |-> 1]
        /\ lastByte = [n \in Node |-> NoByte]

------------------------------------------------------------------------------
(* Sending *)

LinkTxQueued(n) == Len(out[n])
LinkTxAvailable(n) == TxCapacity - Len(out[n])

\* Mutant: a Reset of the peer does not bring back the signals.
SignalsDueForgetsReset(n, soon) == soon
SignalsDue(n, soon) == soon \/ resetReceived[n]

\* Mutant: the comparison is the other way round.
MaySendPartAbove(n) == LinkTxQueued(n) > TX_QUEUE_THRESHOLD
MaySendPart(n) == LinkTxQueued(n) <= TX_QUEUE_THRESHOLD

\* The bytes that are waiting, as a packet.
DataDue(n) == IF txBytes[n] = <<>> THEN <<>> ELSE <<DataPacket(txBytes[n])>>

\* Mutant: the room is looked at before the data packet is queued.
RoomForSignalsBefore(n) == LinkTxAvailable(n) > 0
RoomForSignals(n) == LinkTxAvailable(n) > Len(DataDue(n))

\* Mutant: the signals overtake the bytes.
PacketsDueSwapped(n, signals) ==
  (IF RoomForSignals(n) THEN <<SignalsPacket(signals)>> ELSE <<>>) \o DataDue(n)
PacketsDue(n, signals) ==
  DataDue(n) \o (IF RoomForSignals(n) THEN <<SignalsPacket(signals)>> ELSE <<>>)

\* Mutant: txBytesLoaded is not reset after a packet that is not full.
ServiceKeepsBytes(n, signals, soon) ==
  /\ resetReceived' = [resetReceived EXCEPT ![n] = FALSE]
  /\ out' = [out EXCEPT ![n] = @ \o (IF SignalsDue(n, soon) THEN PacketsDue(n, signals)
                                     ELSE IF MaySendPart(n) THEN DataDue(n) ELSE <<>>)]
  /\ sendSignalsSoon' = [sendSignalsSoon EXCEPT
                           ![n] = SignalsDue(n, soon) /\ ~RoomForSignals(n)]
  /\ UNCHANGED txBytes

\* radioComTxService.  It is also the last thing radioComTxControlSignals
\* does, with the new state of the signals, so both are parameters.
Service(n, signals, soon) ==
  /\ resetReceived' = [resetReceived EXCEPT ![n] = FALSE]
  /\ \/ /\ SignalsDue(n, soon)
        /\ out' = [out EXCEPT ![n] = @ \o PacketsDue(n, signals)]
        /\ txBytes' = [txBytes EXCEPT ![n] = <<>>]
        /\ sendSignalsSoon' = [sendSignalsSoon EXCEPT ![n] = ~RoomForSignals(n)]
     \/ /\ ~SignalsDue(n, soon) /\ MaySendPart(n)
        /\ out' = [out EXCEPT ![n] = @ \o DataDue(n)]
        /\ txBytes' = [txBytes EXCEPT ![n] = <<>>]
        /\ UNCHANGED sendSignalsSoon
     \/ /\ ~SignalsDue(n, soon) /\ ~MaySendPart(n)
        /\ UNCHANGED <<out, txBytes, sendSignalsSoon>>

TxService(n) ==
  /\ Service(n, txSignals[n], sendSignalsSoon[n])
  /\ UNCHANGED <<moved, in, resetOnAir, txSignals, rxVars, appVars>>

TxControlSignals(n, signals) ==
  /\ nChanges[n] < MaxChanges[n]
  /\ signals # txSignals[n]
  /\ txSignals' = [txSignals EXCEPT ![n] = signals]
  /\ Service(n, signals, TRUE)
  /\ nChanges' = [nChanges EXCEPT ![n] = @ + 1]
  /\ UNCHANGED <<moved, in, resetOnAir, rxVars, nBytes, boots>>

\* The room in the packets of the link, before it is cut to a uint8.
Room(n) == LinkTxAvailable(n) * RADIO_LINK_PAYLOAD_SIZE - Len(txBytes[n])

TxAvailable(n) == IF sendSignalsSoon[n] THEN 0 ELSE Room(n) % UINT8

PacketFull(bytes) == Len(bytes) = RADIO_LINK_PAYLOAD_SIZE

\* The program has seen radioComTxAvailable return something.
TxSendByte(n) ==
  /\ TxAvailable(n) # 0
  /\ nBytes[n] < MaxBytes[n]
  /\ nBytes' = [nBytes EXCEPT ![n] = @ + 1]
  /\ LET bytes == Append(txBytes[n], [num |-> nBytes[n] + 1,
                                      sentUnder |-> txSignals[n]])
     IN IF PacketFull(bytes)
        THEN /\ out' = [out EXCEPT ![n] = Append(@, DataPacket(bytes))]
             /\ txBytes' = [txBytes EXCEPT ![n] = <<>>]
        ELSE /\ txBytes' = [txBytes EXCEPT ![n] = bytes]
             /\ UNCHANGED out
  /\ UNCHANGED <<moved, in, resetOnAir, resetReceived, txSignals,
                 sendSignalsSoon, rxVars, nChanges, boots>>

------------------------------------------------------------------------------
(* Receiving *)

WaitingToReportRxSignals(n) ==
  EnforceOrdering /\ rxSignals[n] # lastRxSignals[n]

\* receiveMorePackets reads on through packets the program need not hear of:
\* those that repeat the signals or, without ordering, all that set them.
StopsAt(n, k) ==
  in[n][k] \notin {SignalsPacket(s) :
                   s \in IF EnforceOrdering THEN {lastRxSignals[n]} ELSE Signals}

ReceiveMorePackets(n) ==
  IF rxBytesLeft[n] # 0 \/ WaitingToReportRxSignals(n)
  THEN UNCHANGED <<in, rxBytesLeft, rxSignals>>
  ELSE \E k \in 0 .. Len(in[n]) :
    /\ \A i \in 1 .. k : ~StopsAt(n, i)
    /\ k < Len(in[n]) => StopsAt(n, k + 1)
    /\ LET data == k < Len(in[n]) /\ in[n][k + 1].type = "DATA"
           read == IF k < Len(in[n]) /\ ~data THEN k + 1 ELSE k
       IN /\ in' = [in EXCEPT ![n] = SubSeq(@, read + 1, Len(@))]
          /\ rxSignals' = [rxSignals EXCEPT
                             ![n] = IF read = 0 THEN @ ELSE in[n][read].signals]
          /\ rxBytesLeft' = [rxBytesLeft EXCEPT
                               ![n] = IF data THEN Len(in[n][k + 1].bytes) ELSE 0]

RxAvailable(n) ==
  /\ ReceiveMorePackets(n)
  /\ UNCHANGED <<out, moved, resetOnAir, txVars, lastRxSignals, lastByte, appVars>>

RxControlSignals(n) ==
  /\ ReceiveMorePackets(n)
  /\ lastRxSignals' = [lastRxSignals EXCEPT ![n] = rxSignals'[n]]
  /\ UNCHANGED <<out, moved, resetOnAir, txVars, lastByte, appVars>>

LastByteOfPacket(n) == rxBytesLeft[n] = 1

\* The program has seen radioComRxAvailable return something.
RxReceiveByte(n) ==
  /\ rxBytesLeft[n] # 0
  /\ LET bytes == Head(in[n]).bytes IN
       lastByte' = [lastByte EXCEPT ![n] = bytes[Len(bytes) - rxBytesLeft[n] + 1]]
  /\ rxBytesLeft' = [rxBytesLeft EXCEPT ![n] = @ - 1]
  /\ in' = IF LastByteOfPacket(n) THEN [in EXCEPT ![n] = Tail(@)] ELSE in
  /\ UNCHANGED <<out, moved, resetOnAir, txVars, rxSignals, lastRxSignals, appVars>>

------------------------------------------------------------------------------
(* The link and the world *)

LinkStep(n) ==
  /\ \/ Link!Move(n) /\ Len(in[Link!Peer(n)]) < RxCapacity
     \/ Link!Release(n)
     \/ Link!ReleaseAndMove(n) /\ Len(in[n]) < RxCapacity
  /\ UNCHANGED <<resetOnAir, txVars, rxVars, appVars>>

\* The peer's Reset reaches n, perhaps more than once.
ResetArrives(n) ==
  /\ resetOnAir[n] > 0
  /\ resetOnAir' = [resetOnAir EXCEPT ![n] = @ - 1]
  /\ resetReceived' = [resetReceived EXCEPT ![n] = TRUE]
  /\ UNCHANGED <<out, moved, in, txBytes, txSignals, sendSignalsSoon, rxVars,
                 appVars>>

Restart(n) ==
  /\ boots[n] < MaxBoots[n]
  /\ Link!Restart(n)
  /\ resetOnAir' = [resetOnAir EXCEPT ![Link!Peer(n)] = ResetCopies]
  /\ resetReceived' = [resetReceived EXCEPT ![n] = FALSE]
  /\ txBytes' = [txBytes EXCEPT ![n] = <<>>]
  /\ txSignals' = [txSignals EXCEPT ![n] = 0]
  /\ sendSignalsSoon' = [sendSignalsSoon EXCEPT ![n] = FALSE]
  /\ rxBytesLeft' = [rxBytesLeft EXCEPT ![n] = 0]
  /\ rxSignals' = [rxSignals EXCEPT ![n] = 0]
  /\ lastRxSignals' = [lastRxSignals EXCEPT ![n] = 0]
  /\ lastByte' = [lastByte EXCEPT ![n] = NoByte]
  /\ nBytes' = [nBytes EXCEPT ![n] = 0]
  /\ nChanges' = [nChanges EXCEPT ![n] = 0]
  /\ boots' = [boots EXCEPT ![n] = @ + 1]

Next == \E n \in Node :
  \/ TxService(n) \/ TxSendByte(n)
  \/ \E s \in Signals : TxControlSignals(n, s)
  \/ RxAvailable(n) \/ RxControlSignals(n) \/ RxReceiveByte(n)
  \/ LinkStep(n) \/ ResetArrives(n) \/ Restart(n)

Spec == Init /\ [][Next]_vars

------------------------------------------------------------------------------
(* Properties *)

\* Type correctness, with the limits of the buffers.
TypeOK ==
  /\ out \in [Node -> Seq(Packet)] /\ in \in [Node -> Seq(Packet)]
  /\ txBytes \in [Node -> Seq(Byte)]
  /\ moved \in [Node -> BOOLEAN]
  /\ resetOnAir \in [Node -> 0 .. ResetCopies]
  /\ resetReceived \in [Node -> BOOLEAN] /\ sendSignalsSoon \in [Node -> BOOLEAN]
  /\ txSignals \in [Node -> Signals] /\ rxSignals \in [Node -> Signals]
  /\ lastRxSignals \in [Node -> Signals]
  /\ rxBytesLeft \in [Node -> 0 .. RADIO_LINK_PAYLOAD_SIZE]
  /\ nBytes \in [Node -> Nat] /\ nChanges \in [Node -> Nat] /\ boots \in [Node -> Nat]
  /\ lastByte \in [Node -> Byte]

\* The room promised to the program is there, down to the last byte, and the
\* packet being filled has a buffer of the link ("If txBytesLoaded is
\* non-zero, radioLinkTxAvailable will be non-zero"): radioLinkTxCurrentPacket
\* never returns 0 to radioComTxSendByte, whatever the uint8 does.
RoomIsReal ==
  \A n \in Node : /\ LinkTxAvailable(n) >= 0
                  /\ txBytes[n] # <<>> => LinkTxAvailable(n) > 0
                  /\ Len(txBytes[n]) < RADIO_LINK_PAYLOAD_SIZE
                  /\ TxAvailable(n) <= Room(n)

\* "The multiplication below does not overflow ever" (radioComTxAvailable).
RoomIsExact == \A n \in Node : ~sendSignalsSoon[n] => TxAvailable(n) = Room(n)

\* rxBytesLeft counts bytes of the packet at the head of the link's queue.
RxPointerInPacket ==
  \A n \in Node : rxBytesLeft[n] # 0 =>
    /\ in[n] # <<>> /\ Head(in[n]).type = "DATA"
    /\ rxBytesLeft[n] <= Len(Head(in[n]).bytes)

\* n's program has just called radioComRxReceiveByte.
Reads(n) == rxBytesLeft'[n] < rxBytesLeft[n] /\ boots'[n] = boots[n]

\* "Reliable, ordered delivery and reception of a stream of bytes"
\* (radio_com.h): the program reads byte k + 1 right after byte k.
ReadsNextByte == \A n \in Node : Reads(n) => lastByte'[n].num = lastByte[n].num + 1

\* With radioComRxEnforceOrdering a program reads a byte under the control
\* signals that were set when it was sent (radio_com.h: "in the same order").
ReadsUnderItsSignals ==
  EnforceOrdering => \A n \in Node : Reads(n) => lastByte'[n].sentUnder = lastRxSignals[n]

\* As long as no Wixel has restarted, the bytes are read in their order, none
\* is lost and none is read twice, each under the control signals it was sent
\* under.
NoRestarts == \A n \in Node : boots[n] = 1
StreamIsKept == [][NoRestarts => ReadsNextByte /\ ReadsUnderItsSignals]_vars

------------------------------------------------------------------------------
(* Liveness: main loops that call the library regularly (radio_com.h), over *)
(* a link that does deliver.                                               *)

Fairness ==
  \A n \in Node : /\ WF_vars(TxService(n)) /\ WF_vars(RxAvailable(n))
                  /\ WF_vars(RxControlSignals(n)) /\ WF_vars(RxReceiveByte(n))
                  /\ WF_vars(LinkStep(n)) /\ WF_vars(ResetArrives(n))

FairSpec == Spec /\ Fairness

\* Every byte sent is read at the other side in the end, in a packet that is
\* full or not.
BytesArrive ==
  \A n \in Node :
    (nBytes[n] = MaxBytes[n]) ~> (lastByte[Link!Peer(n)].num = MaxBytes[n])

\* The program sees the peer's control signals in the end, even when it was
\* restarted after they had been sent (radioComTxService: "We should send
\* the state of the control signals to it").
SignalsArrive ==
  \A n \in Node : <>[](lastRxSignals[Link!Peer(n)] = txSignals[n])

=============================================================================

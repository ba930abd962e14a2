---------------------------- MODULE RadioComProofs ----------------------------
(***************************************************************************)
(* Proofs about RadioCom, for every size of the packets, the queues and    *)
(* the uint8: the room that the program is told of exists, and the stream  *)
(* of bytes and control signals is kept.                                   *)
(***************************************************************************)
EXTENDS RadioCom, SequenceTheorems, TLAPS

LEMMA Sizes ==
  /\ RADIO_LINK_PAYLOAD_SIZE \in Nat \ {0} /\ TX_QUEUE_THRESHOLD \in Nat
  /\ TxCapacity \in Nat \ {0} /\ RxCapacity \in Nat \ {0} /\ UINT8 \in Nat \ {0}
  /\ 0 \in Signals /\ EnforceOrdering \in BOOLEAN
BY SizeAssumption, BoundAssumption DEF SizeAssumption, BoundAssumption

LEMMA PeerFacts ==
  ASSUME NEW n \in Node
  PROVE  /\ Link!Peer(n) \in Node /\ Link!Peer(n) # n /\ Link!Peer(Link!Peer(n)) = n
         /\ \A m \in Node : m = n \/ m = Link!Peer(n)
<1>1. PICK x \in Node, y \in Node : x # y /\ Node = {x, y}
  BY NodeAssumption DEF NodeAssumption
<1>2. \A m \in Node : Link!Peer(m) \in Node /\ Link!Peer(m) # m
  <2>1. SUFFICES ASSUME NEW m \in Node
                 PROVE Link!Peer(m) \in Node /\ Link!Peer(m) # m
    OBVIOUS
  <2>2. \E k \in Node : k # m
    BY <1>1
  <2>. QED BY <2>2 DEF Link!Peer
<1>. QED BY <1>1, <1>2

(* The two kinds of packets. *)
LEMMA PacketKinds ==
  /\ \A d \in Packet : d.type = "DATA" => d.bytes \in Payload
  /\ \A d \in Packet : d.type # "DATA" => d.signals \in Signals
  /\ \A bytes \in Payload : /\ DataPacket(bytes) \in Packet
                            /\ DataPacket(bytes).type = "DATA"
                            /\ DataPacket(bytes).bytes = bytes
  /\ \A s \in Signals : /\ SignalsPacket(s) \in Packet
                        /\ SignalsPacket(s).type # "DATA"
                        /\ SignalsPacket(s).signals = s
BY DEF Packet, DataPacket, SignalsPacket

LEMMA PayloadFacts ==
  \A bytes \in Payload : bytes \in Seq(Byte) /\ Len(bytes) \in 1 .. RADIO_LINK_PAYLOAD_SIZE
BY DEF Payload

LEMMA Joined ==
  ASSUME NEW S, NEW s \in Seq(S), NEW t \in Seq(S), NEW x \in S
  PROVE  s \o (t \o <<x>>) = Append(s \o t, x)
<1>1. <<x>> \in Seq(S) /\ s \o t \in Seq(S)
  BY ConcatProperties
<1>2. (s \o t) \o <<x>> = s \o (t \o <<x>>)
  BY <1>1, ConcatAssociative
<1>. QED BY <1>1, <1>2, AppendIsConcat

------------------------------------------------------------------------------
(* The invariant of the buffers. *)

LinkTyped ==
  /\ out \in [Node -> Seq(Packet)] /\ in \in [Node -> Seq(Packet)]
  /\ moved \in [Node -> BOOLEAN] /\ resetOnAir \in [Node -> 0 .. ResetCopies]
TxTyped ==
  /\ txBytes \in [Node -> Seq(Byte)] /\ txSignals \in [Node -> Signals]
  /\ resetReceived \in [Node -> BOOLEAN] /\ sendSignalsSoon \in [Node -> BOOLEAN]
RxTyped ==
  /\ rxBytesLeft \in [Node -> 0 .. RADIO_LINK_PAYLOAD_SIZE]
  /\ rxSignals \in [Node -> Signals] /\ lastRxSignals \in [Node -> Signals]
  /\ lastByte \in [Node -> Byte]
AppTyped ==
  nBytes \in [Node -> Nat] /\ nChanges \in [Node -> Nat] /\ boots \in [Node -> Nat]

LEMMA TypeParts == TypeOK <=> LinkTyped /\ TxTyped /\ RxTyped /\ AppTyped
BY DEF TypeOK, LinkTyped, TxTyped, RxTyped, AppTyped

LEMMA TypePartsNext == TypeOK' <=> LinkTyped' /\ TxTyped' /\ RxTyped' /\ AppTyped'
BY TypeParts, PTL

(* What is queued fits, together with the packet that is being filled. *)
Fits(n) == /\ Len(out[n]) <= TxCapacity
           /\ txBytes[n] # <<>> => Len(out[n]) < TxCapacity
           /\ Len(txBytes[n]) < RADIO_LINK_PAYLOAD_SIZE

(* The packet copied is still there. *)
MovedOK(n) == moved[n] => out[n] # <<>>

(* rxBytesLeft counts bytes of the packet at the head, and with ordering    *)
(* they were sent under the signals that the program knows.                 *)
PointerOK(n) ==
  rxBytesLeft[n] # 0 =>
    /\ in[n] # <<>> /\ Head(in[n]).type = "DATA"
    /\ rxBytesLeft[n] <= Len(Head(in[n]).bytes)
    /\ EnforceOrdering => rxSignals[n] = lastRxSignals[n]

BufferInv == TypeOK /\ \A n \in Node : Fits(n) /\ MovedOK(n) /\ PointerOK(n)

LEMMA NodeTyped ==
  ASSUME TypeOK, NEW n \in Node
  PROVE  /\ out[n] \in Seq(Packet) /\ in[n] \in Seq(Packet) /\ moved[n] \in BOOLEAN
         /\ txBytes[n] \in Seq(Byte) /\ txSignals[n] \in Signals
         /\ resetReceived[n] \in BOOLEAN /\ sendSignalsSoon[n] \in BOOLEAN
         /\ rxBytesLeft[n] \in 0 .. RADIO_LINK_PAYLOAD_SIZE
         /\ rxSignals[n] \in Signals /\ lastRxSignals[n] \in Signals
         /\ lastByte[n] \in Byte /\ nBytes[n] \in Nat /\ boots[n] \in Nat
         /\ Len(out[n]) \in Nat /\ Len(in[n]) \in Nat /\ Len(txBytes[n]) \in Nat
<1>1. /\ out[n] \in Seq(Packet) /\ in[n] \in Seq(Packet) /\ txBytes[n] \in Seq(Byte)
  BY DEF TypeOK
<1>2. Len(out[n]) \in Nat /\ Len(in[n]) \in Nat /\ Len(txBytes[n]) \in Nat
  BY <1>1, LenProperties
<1>. QED BY <1>1, <1>2 DEF TypeOK

LEMMA BufferInit == Init => BufferInv
<1>. SUFFICES ASSUME Init
              PROVE  BufferInv
  OBVIOUS
<1>1. NoByte \in Byte /\ 0 \in Signals
  BY Sizes DEF NoByte, Byte
<1>2. /\ out = [n \in Node |-> <<>>] /\ in = [n \in Node |-> <<>>]
      /\ moved = [n \in Node |-> FALSE] /\ txBytes = [n \in Node |-> <<>>]
      /\ rxBytesLeft = [n \in Node |-> 0]
  BY DEF Init, Link!Init
<1>3. LinkTyped
  BY <1>2, BoundAssumption DEF LinkTyped, Init, BoundAssumption
<1>4. TxTyped /\ RxTyped /\ AppTyped
  BY <1>1, Sizes DEF TxTyped, RxTyped, AppTyped, Init
<1>5. ASSUME NEW n \in Node
      PROVE  Fits(n) /\ MovedOK(n) /\ PointerOK(n)
  <2>1. /\ out[n] = <<>> /\ txBytes[n] = <<>> /\ ~moved[n] /\ rxBytesLeft[n] = 0
        /\ Len(out[n]) = 0 /\ Len(txBytes[n]) = 0
    BY <1>2, EmptySeq
  <2>. QED BY <2>1, Sizes DEF Fits, MovedOK, PointerOK
<1>. QED BY <1>3, <1>4, <1>5, TypeParts DEF BufferInv

------------------------------------------------------------------------------
(* Sending *)

(* The queue after the bytes that were waiting have been queued. *)
Flushed(n) == IF txBytes[n] = <<>> THEN out[n]
              ELSE Append(out[n], DataPacket(txBytes[n]))

LEMMA FlushedFits ==
  ASSUME BufferInv, NEW n \in Node
  PROVE  /\ Flushed(n) \in Seq(Packet) /\ Len(Flushed(n)) \in 0 .. TxCapacity
         /\ Flushed(n) = out[n] \o DataDue(n) /\ DataDue(n) \in Seq(Packet)
         /\ Len(DataDue(n)) = Len(Flushed(n)) - Len(out[n])
         /\ txBytes[n] # <<>> => txBytes[n] \in Payload
         /\ out[n] # <<>> => Flushed(n) # <<>>
<1>1. /\ out[n] \in Seq(Packet) /\ txBytes[n] \in Seq(Byte) /\ Len(out[n]) \in Nat
      /\ Len(txBytes[n]) \in Nat /\ Fits(n)
  BY NodeTyped DEF BufferInv
<1>2. CASE txBytes[n] = <<>>
  BY <1>1, <1>2, ConcatEmptySeq, EmptySeq DEF Flushed, DataDue, Fits
<1>3. CASE txBytes[n] # <<>>
  <2>1. Len(txBytes[n]) # 0
    BY <1>1, <1>3, EmptySeq
  <2>2. txBytes[n] \in Payload
    BY <1>1, <2>1, Sizes DEF Payload, Fits
  <2>. DEFINE d == DataPacket(txBytes[n])
  <2>3. d \in Packet
    BY <2>2, PacketKinds
  <2>4. /\ Append(out[n], d) \in Seq(Packet) /\ Append(out[n], d) # <<>>
        /\ Len(Append(out[n], d)) = Len(out[n]) + 1
        /\ Append(out[n], d) = out[n] \o <<d>>
    BY <1>1, <2>3, AppendProperties, AppendIsConcat
  <2>5. /\ Flushed(n) = Append(out[n], d) /\ DataDue(n) = <<d>> /\ Len(<<d>>) = 1
        /\ <<d>> \in Seq(Packet)
    BY <1>3, <2>3 DEF Flushed, DataDue
  <2>. QED BY <1>1, <1>3, <2>2, <2>4, <2>5, Sizes DEF Fits
<1>. QED BY <1>2, <1>3

(* What radioComTxService does to the queue. *)
LEMMA ServiceForms ==
  ASSUME BufferInv, NEW n \in Node, NEW signals \in Signals, NEW soon \in BOOLEAN,
         Service(n, signals, soon)
  PROVE  /\ resetReceived' = [resetReceived EXCEPT ![n] = FALSE]
         /\ \/ /\ out' = [out EXCEPT ![n] = Append(Flushed(n), SignalsPacket(signals))]
               /\ txBytes' = [txBytes EXCEPT ![n] = <<>>]
               /\ sendSignalsSoon' = [sendSignalsSoon EXCEPT ![n] = FALSE]
               /\ Len(Flushed(n)) < TxCapacity
            \/ /\ out' = [out EXCEPT ![n] = Flushed(n)]
               /\ txBytes' = [txBytes EXCEPT ![n] = <<>>]
               /\ \/ sendSignalsSoon' = [sendSignalsSoon EXCEPT ![n] = TRUE]
                  \/ sendSignalsSoon' = sendSignalsSoon /\ ~soon
            \/ UNCHANGED <<out, txBytes, sendSignalsSoon>> /\ ~soon
<1>1. resetReceived' = [resetReceived EXCEPT ![n] = FALSE]
  BY DEF Service
<1>2. CASE SignalsDue(n, soon)
  <2>1. /\ out' = [out EXCEPT ![n] = out[n] \o PacketsDue(n, signals)]
        /\ txBytes' = [txBytes EXCEPT ![n] = <<>>]
        /\ sendSignalsSoon' = [sendSignalsSoon EXCEPT ![n] = ~RoomForSignals(n)]
    BY <1>2 DEF Service
  <2>2. /\ out[n] \in Seq(Packet) /\ Len(out[n]) \in Nat
        /\ Flushed(n) \in Seq(Packet) /\ Len(Flushed(n)) \in Nat
        /\ Flushed(n) = out[n] \o DataDue(n)
        /\ Len(DataDue(n)) = Len(Flushed(n)) - Len(out[n])
    BY FlushedFits, NodeTyped, Sizes DEF BufferInv
  <2>3. DataDue(n) \in Seq(Packet)
    BY FlushedFits
  <2>4. SignalsPacket(signals) \in Packet
    BY PacketKinds
  <2>5. CASE RoomForSignals(n)
    <3>1. Len(Flushed(n)) < TxCapacity
      BY <2>2, <2>5, Sizes DEF RoomForSignals, LinkTxAvailable
    <3>2. out[n] \o (DataDue(n) \o <<SignalsPacket(signals)>>)
            = Append(out[n] \o DataDue(n), SignalsPacket(signals))
      <4>1. \A s, t \in Seq(Packet), x \in Packet : s \o (t \o <<x>>) = Append(s \o t, x)
        <5>. SUFFICES ASSUME NEW s \in Seq(Packet), NEW t \in Seq(Packet), NEW x \in Packet
                      PROVE  s \o (t \o <<x>>) = Append(s \o t, x)
          OBVIOUS
        <5>. QED BY Joined
      <4>. QED BY <2>2, <2>3, <2>4, <4>1
    <3>3. out[n] \o PacketsDue(n, signals) = Append(Flushed(n), SignalsPacket(signals))
      BY <2>2, <2>5, <3>2 DEF PacketsDue
    <3>4. (~RoomForSignals(n)) = FALSE
      BY <2>5
    <3>. QED BY <1>1, <2>1, <3>1, <3>3, <3>4
  <2>6. CASE ~RoomForSignals(n)
    <3>1. PacketsDue(n, signals) = DataDue(n)
      BY <2>3, <2>6, ConcatEmptySeq DEF PacketsDue
    <3>2. (~RoomForSignals(n)) = TRUE
      BY <2>6
    <3>. QED BY <1>1, <2>1, <2>2, <3>1, <3>2
  <2>. QED BY <2>5, <2>6
<1>3. CASE ~SignalsDue(n, soon)
  <2>1. ~soon
    BY <1>3 DEF SignalsDue
  <2>2. CASE MaySendPart(n)
    BY <1>1, <1>3, <2>1, <2>2, FlushedFits DEF Service
  <2>3. CASE ~MaySendPart(n)
    BY <1>1, <1>3, <2>1, <2>3 DEF Service
  <2>. QED BY <2>2, <2>3
<1>. QED BY <1>2, <1>3

(* Fits and MovedOK speak of one node's queue. *)
LEMMA SenderSame ==
  ASSUME NEW n \in Node, Fits(n), MovedOK(n),
         UNCHANGED <<out[n], txBytes[n], moved[n]>>
  PROVE  Fits(n)' /\ MovedOK(n)'
BY DEF Fits, MovedOK

LEMMA PointerSame ==
  ASSUME NEW n \in Node, PointerOK(n),
         UNCHANGED <<in[n], rxBytesLeft[n], rxSignals[n], lastRxSignals[n]>>
  PROVE  PointerOK(n)'
BY DEF PointerOK

LEMMA ServiceKeeps ==
  ASSUME BufferInv, NEW n \in Node, NEW signals \in Signals, NEW soon \in BOOLEAN,
         Service(n, signals, soon), UNCHANGED <<moved, in, resetOnAir, rxVars>>,
         txSignals' \in [Node -> Signals], AppTyped'
  PROVE  BufferInv'
<1>. DEFINE new == Append(Flushed(n), SignalsPacket(signals))
<1>0. /\ TypeOK /\ LinkTyped /\ TxTyped /\ RxTyped
      /\ \A m \in Node : Fits(m) /\ MovedOK(m) /\ PointerOK(m)
  BY TypeParts DEF BufferInv
<1>1. /\ Flushed(n) \in Seq(Packet) /\ Len(Flushed(n)) \in 0 .. TxCapacity
      /\ out[n] # <<>> => Flushed(n) # <<>>
  BY FlushedFits
<1>2. /\ new \in Seq(Packet) /\ Len(new) = Len(Flushed(n)) + 1 /\ new # <<>>
  BY <1>1, PacketKinds, AppendProperties
<1>3. RxTyped'
  BY <1>0 DEF RxTyped, rxVars
<1>4. ASSUME NEW m \in Node
      PROVE  PointerOK(m)'
  BY <1>0, PointerSame DEF rxVars
<1>5. <<>> \in Seq(Byte) /\ Len(<<>>) = 0
  BY EmptySeq
<1>6. resetReceived' = [resetReceived EXCEPT ![n] = FALSE]
  BY ServiceForms
<1>7. ASSUME out' = [out EXCEPT ![n] = out'[n]], out'[n] \in Seq(Packet),
             txBytes' = [txBytes EXCEPT ![n] = <<>>],
             sendSignalsSoon' \in [Node -> BOOLEAN],
             Len(out'[n]) <= TxCapacity, out[n] # <<>> => out'[n] # <<>>
      PROVE  LinkTyped' /\ TxTyped' /\ \A m \in Node : Fits(m)' /\ MovedOK(m)'
  <2>1. LinkTyped' /\ TxTyped'
    BY <1>0, <1>5, <1>6, <1>7 DEF LinkTyped, TxTyped
  <2>2. ASSUME NEW m \in Node
        PROVE  Fits(m)' /\ MovedOK(m)'
    <3>1. CASE m = n
      <4>1. txBytes'[n] = <<>> /\ moved'[n] = moved[n]
        BY <1>0, <1>7 DEF LinkTyped, TxTyped
      <4>. QED BY <1>0, <1>5, <1>7, <3>1, <4>1, Sizes DEF Fits, MovedOK
    <3>2. CASE m # n
      BY <1>0, <1>7, <3>2, SenderSame DEF LinkTyped, TxTyped
    <3>. QED BY <3>1, <3>2
  <2>. QED BY <2>1, <2>2
<1>8. CASE /\ out' = [out EXCEPT ![n] = new] /\ txBytes' = [txBytes EXCEPT ![n] = <<>>]
           /\ sendSignalsSoon' = [sendSignalsSoon EXCEPT ![n] = FALSE]
           /\ Len(Flushed(n)) < TxCapacity
  <2>1. sendSignalsSoon' \in [Node -> BOOLEAN]
    BY <1>0, <1>8 DEF TxTyped
  <2>2. Len(new) <= TxCapacity
    BY <1>1, <1>2, <1>8, Sizes
  <2>3. out'[n] = new
    BY <1>0, <1>8 DEF LinkTyped
  <2>. HIDE DEF new
  <2>4. LinkTyped' /\ TxTyped' /\ \A m \in Node : Fits(m)' /\ MovedOK(m)'
    BY <1>2, <1>7, <1>8, <2>1, <2>2, <2>3
  <2>. QED BY <1>3, <1>4, <2>4, TypePartsNext DEF BufferInv
<1>9. CASE /\ out' = [out EXCEPT ![n] = Flushed(n)]
           /\ txBytes' = [txBytes EXCEPT ![n] = <<>>]
           /\ \/ sendSignalsSoon' = [sendSignalsSoon EXCEPT ![n] = TRUE]
              \/ sendSignalsSoon' = sendSignalsSoon
  <2>1. sendSignalsSoon' \in [Node -> BOOLEAN]
    BY <1>0, <1>9 DEF TxTyped
  <2>2. /\ out'[n] = Flushed(n) /\ out'[n] \in Seq(Packet)
        /\ Len(out'[n]) <= TxCapacity
        /\ out[n] # <<>> => out'[n] # <<>>
    <3>1. out'[n] = Flushed(n)
      BY <1>0, <1>9 DEF LinkTyped
    <3>. QED BY <1>1, <3>1, Sizes
  <2>3. LinkTyped' /\ TxTyped' /\ \A m \in Node : Fits(m)' /\ MovedOK(m)'
    BY <1>7, <1>9, <2>1, <2>2
  <2>. QED BY <1>3, <1>4, <2>3, TypePartsNext DEF BufferInv
<1>10. CASE UNCHANGED <<out, txBytes, sendSignalsSoon>>
  <2>1. LinkTyped' /\ TxTyped'
    BY <1>0, <1>6, <1>10 DEF LinkTyped, TxTyped
  <2>2. \A m \in Node : Fits(m)' /\ MovedOK(m)'
    BY <1>0, <1>10, SenderSame
  <2>. QED BY <1>3, <1>4, <2>1, <2>2, TypePartsNext DEF BufferInv
<1>. QED BY <1>8, <1>9, <1>10, ServiceForms

LEMMA Product ==
  ASSUME NEW a \in Nat, NEW b \in Nat \ {0}
  PROVE  a = 0 => a * b = 0
OBVIOUS

LEMMA SendByteRoom ==
  ASSUME BufferInv, NEW n \in Node, TxAvailable(n) # 0
  PROVE  Len(out[n]) < TxCapacity /\ ~sendSignalsSoon[n]
<1>1. /\ Len(out[n]) \in Nat /\ Len(txBytes[n]) \in Nat /\ Fits(n)
      /\ txBytes[n] \in Seq(Byte)
  BY NodeTyped DEF BufferInv
<1>2. ~sendSignalsSoon[n] /\ Room(n) % UINT8 # 0
  BY DEF TxAvailable
<1>3. ASSUME Len(out[n]) = TxCapacity
      PROVE  FALSE
  <2>1. txBytes[n] = <<>> /\ Len(txBytes[n]) = 0
    BY <1>1, <1>3, EmptySeq DEF Fits
  <2>2. LinkTxAvailable(n) = 0
    BY <1>3, Sizes DEF LinkTxAvailable
  <2>3. Room(n) = 0
    BY <2>1, <2>2, Product, Sizes DEF Room
  <2>. QED BY <1>2, <2>3, Sizes
<1>. QED BY <1>1, <1>2, <1>3, Sizes DEF Fits

LEMMA SendByteKeeps ==
  ASSUME BufferInv, NEW n \in Node, TxSendByte(n)
  PROVE  BufferInv'
<1>. DEFINE b == [num |-> nBytes[n] + 1, sentUnder |-> txSignals[n]]
            bytes == Append(txBytes[n], b)
<1>0. /\ TypeOK /\ LinkTyped /\ TxTyped /\ RxTyped /\ AppTyped
      /\ \A m \in Node : Fits(m) /\ MovedOK(m) /\ PointerOK(m)
  BY TypeParts DEF BufferInv
<1>1. /\ txBytes[n] \in Seq(Byte) /\ out[n] \in Seq(Packet)
      /\ Len(txBytes[n]) \in 0 .. RADIO_LINK_PAYLOAD_SIZE - 1
      /\ Len(out[n]) \in Nat /\ Len(out[n]) < TxCapacity
  BY <1>0, NodeTyped, SendByteRoom, Sizes DEF TxSendByte, Fits
<1>2. b \in Byte
  BY <1>0, NodeTyped DEF Byte
<1>3. bytes \in Seq(Byte) /\ Len(bytes) = Len(txBytes[n]) + 1
  BY <1>1, <1>2, AppendProperties
<1>4. /\ UNCHANGED <<moved, in, resetOnAir, resetReceived, txSignals,
                     sendSignalsSoon, rxVars, nChanges, boots>>
      /\ nBytes' = [nBytes EXCEPT ![n] = @ + 1]
  BY DEF TxSendByte
<1>5. RxTyped' /\ AppTyped' /\ \A m \in Node : PointerOK(m)'
  <2>1. RxTyped'
    BY <1>0, <1>4 DEF RxTyped, rxVars
  <2>2. AppTyped'
    BY <1>0, <1>4 DEF AppTyped
  <2>3. ASSUME NEW m \in Node
        PROVE  PointerOK(m)'
    BY <1>0, <1>4, PointerSame DEF rxVars
  <2>. QED BY <2>1, <2>2, <2>3
<1>6. CASE Len(bytes) = RADIO_LINK_PAYLOAD_SIZE
  <2>1. /\ out' = [out EXCEPT ![n] = Append(out[n], DataPacket(bytes))]
        /\ txBytes' = [txBytes EXCEPT ![n] = <<>>]
    BY <1>6 DEF TxSendByte, PacketFull
  <2>2. bytes \in Payload
    BY <1>3, <1>6, Sizes DEF Payload
  <2>3. DataPacket(bytes) \in Packet
    BY <2>2, PacketKinds
  <2>4. /\ Append(out[n], DataPacket(bytes)) \in Seq(Packet)
        /\ Append(out[n], DataPacket(bytes)) # <<>>
        /\ Len(Append(out[n], DataPacket(bytes))) = Len(out[n]) + 1
    BY <1>1, <2>3, AppendProperties
  <2>. HIDE DEF bytes
  <2>5. <<>> \in Seq(Byte) /\ Len(<<>>) = 0
    BY EmptySeq
  <2>6. LinkTyped' /\ TxTyped'
    BY <1>0, <1>4, <2>1, <2>4, <2>5 DEF LinkTyped, TxTyped
  <2>7. ASSUME NEW m \in Node
        PROVE  Fits(m)' /\ MovedOK(m)'
    <3>1. CASE m = n
      <4>1. /\ out'[n] = Append(out[n], DataPacket(bytes)) /\ txBytes'[n] = <<>>
        BY <1>0, <2>1 DEF LinkTyped, TxTyped
      <4>. QED BY <1>1, <2>4, <2>5, <3>1, <4>1, Sizes DEF Fits, MovedOK
    <3>2. CASE m # n
      BY <1>0, <1>4, <2>1, <3>2, SenderSame DEF LinkTyped, TxTyped
    <3>. QED BY <3>1, <3>2
  <2>. QED BY <1>5, <2>6, <2>7, TypePartsNext DEF BufferInv
<1>7. CASE Len(bytes) # RADIO_LINK_PAYLOAD_SIZE
  <2>1. out' = out /\ txBytes' = [txBytes EXCEPT ![n] = bytes]
    BY <1>7 DEF TxSendByte, PacketFull
  <2>. HIDE DEF bytes
  <2>2. LinkTyped' /\ TxTyped'
    BY <1>0, <1>3, <1>4, <2>1 DEF LinkTyped, TxTyped
  <2>3. ASSUME NEW m \in Node
        PROVE  Fits(m)' /\ MovedOK(m)'
    <3>1. CASE m = n
      <4>1. txBytes'[n] = bytes
        BY <1>0, <2>1 DEF TxTyped
      <4>. QED BY <1>0, <1>1, <1>3, <1>4, <1>7, <2>1, <3>1, <4>1, Sizes
               DEF Fits, MovedOK
    <3>2. CASE m # n
      BY <1>0, <1>4, <2>1, <3>2, SenderSame DEF TxTyped
    <3>. QED BY <3>1, <3>2
  <2>. QED BY <1>5, <2>2, <2>3, TypePartsNext DEF BufferInv
<1>. QED BY <1>6, <1>7

------------------------------------------------------------------------------
(* Receiving *)

(* receiveMorePackets leaves everything alone, or it reads so many packets  *)
(* that are not data, and has then so many bytes of the next one to give.   *)
ReadsOn(n, read, left) ==
  /\ in' = [in EXCEPT ![n] = SubSeq(@, read + 1, Len(@))]
  /\ rxSignals' = [rxSignals EXCEPT ![n] = IF read = 0 THEN @ ELSE in[n][read].signals]
  /\ rxBytesLeft' = [rxBytesLeft EXCEPT ![n] = left]
  /\ rxBytesLeft[n] = 0
  /\ \A i \in 1 .. read : in[n][i].type # "DATA"
  /\ left # 0 =>
       /\ read < Len(in[n]) /\ in[n][read + 1].type = "DATA"
       /\ left = Len(in[n][read + 1].bytes)
       /\ EnforceOrdering => /\ rxSignals[n] = lastRxSignals[n]
                             /\ \A i \in 1 .. read : in[n][i].signals = lastRxSignals[n]

LEMMA ReceiveForms ==
  ASSUME BufferInv, NEW n \in Node, ReceiveMorePackets(n)
  PROVE  \/ UNCHANGED <<in, rxBytesLeft, rxSignals>>
         \/ \E read \in 0 .. Len(in[n]), left \in 0 .. RADIO_LINK_PAYLOAD_SIZE :
              ReadsOn(n, read, left)
<1>. SUFFICES ASSUME ~UNCHANGED <<in, rxBytesLeft, rxSignals>>
              PROVE  \E read \in 0 .. Len(in[n]),
                        left \in 0 .. RADIO_LINK_PAYLOAD_SIZE : ReadsOn(n, read, left)
  OBVIOUS
<1>. DEFINE data(k) == k < Len(in[n]) /\ in[n][k + 1].type = "DATA"
            read(k) == IF k < Len(in[n]) /\ ~data(k) THEN k + 1 ELSE k
            left(k) == IF data(k) THEN Len(in[n][k + 1].bytes) ELSE 0
<1>1. rxBytesLeft[n] = 0 /\ ~WaitingToReportRxSignals(n)
  BY DEF ReceiveMorePackets
<1>2. PICK k \in 0 .. Len(in[n]) :
        /\ \A i \in 1 .. k : ~StopsAt(n, i)
        /\ in' = [in EXCEPT ![n] = SubSeq(@, read(k) + 1, Len(@))]
        /\ rxSignals' = [rxSignals EXCEPT
                           ![n] = IF read(k) = 0 THEN @ ELSE in[n][read(k)].signals]
        /\ rxBytesLeft' = [rxBytesLeft EXCEPT ![n] = left(k)]
  BY <1>1 DEF ReceiveMorePackets
<1>3. in[n] \in Seq(Packet) /\ Len(in[n]) \in Nat
  BY NodeTyped DEF BufferInv
<1>4. \A i \in 1 .. k : /\ in[n][i].type # "DATA"
                        /\ EnforceOrdering => in[n][i].signals = lastRxSignals[n]
  BY <1>2 DEF StopsAt, SignalsPacket
<1>5. read(k) \in 0 .. Len(in[n])
  BY <1>3
<1>6. \A i \in 1 .. read(k) : in[n][i].type # "DATA"
  BY <1>3, <1>4
<1>7. ASSUME left(k) # 0
      PROVE  /\ k < Len(in[n]) /\ read(k) = k /\ in[n][k + 1].type = "DATA"
             /\ left(k) = Len(in[n][k + 1].bytes)
             /\ in[n][k + 1].bytes \in Payload
  <2>1. data(k)
    BY <1>7
  <2>2. in[n][k + 1] \in Packet
    BY <1>3, <2>1, ElementOfSeq
  <2>. QED BY <2>1, <2>2, PacketKinds
<1>8. left(k) \in 0 .. RADIO_LINK_PAYLOAD_SIZE
  <2>1. CASE left(k) = 0
    BY <2>1, Sizes
  <2>2. CASE left(k) # 0
    <3>. HIDE DEF left
    <3>. QED BY <1>7, <2>2, PayloadFacts, Sizes
  <2>. QED BY <2>1, <2>2
<1>9. left(k) # 0 =>
        /\ read(k) < Len(in[n]) /\ in[n][read(k) + 1].type = "DATA"
        /\ left(k) = Len(in[n][read(k) + 1].bytes)
        /\ EnforceOrdering =>
             /\ rxSignals[n] = lastRxSignals[n]
             /\ \A i \in 1 .. read(k) : in[n][i].signals = lastRxSignals[n]
  <2>. HIDE DEF left, read
  <2>. QED BY <1>1, <1>4, <1>7 DEF WaitingToReportRxSignals
<1>10. ReadsOn(n, read(k), left(k))
  <2>. HIDE DEF left, read
  <2>. QED BY <1>1, <1>2, <1>6, <1>9 DEF ReadsOn
<1>. HIDE DEF left, read
<1>. QED BY <1>5, <1>8, <1>10

LEMMA Dropped ==
  ASSUME NEW S, NEW s \in Seq(S), NEW k \in 0 .. Len(s)
  PROVE  /\ SubSeq(s, k + 1, Len(s)) \in Seq(S)
         /\ Len(SubSeq(s, k + 1, Len(s))) = Len(s) - k
         /\ \A i \in 1 .. Len(s) - k : SubSeq(s, k + 1, Len(s))[i] = s[k + i]
         /\ k < Len(s) => /\ SubSeq(s, k + 1, Len(s)) # <<>>
                          /\ Head(SubSeq(s, k + 1, Len(s))) = s[k + 1]
<1>. DEFINE t == SubSeq(s, k + 1, Len(s))
<1>1. Len(s) \in Nat /\ \A i \in k + 1 .. Len(s) : s[i] \in S
  BY LenProperties, ElementOfSeq
<1>2. /\ t \in Seq(S) /\ Len(t) = Len(s) - k
      /\ \A i \in 1 .. Len(s) - k : t[i] = s[k + i]
  <2>1. /\ t \in Seq(S) /\ Len(t) = IF k + 1 <= Len(s) THEN Len(s) - (k + 1) + 1 ELSE 0
        /\ \A i \in 1 .. Len(s) - (k + 1) + 1 : t[i] = s[(k + 1) + i - 1]
    BY <1>1, SubSeqProperties
  <2>2. Len(t) = Len(s) - k
    BY <1>1, <2>1
  <2>3. ASSUME NEW i \in 1 .. Len(s) - k
        PROVE  t[i] = s[k + i]
    <3>1. i \in 1 .. Len(s) - (k + 1) + 1 /\ (k + 1) + i - 1 = k + i
      BY <1>1
    <3>. HIDE DEF t
    <3>2. t[i] = s[(k + 1) + i - 1]
      BY <2>1, <3>1
    <3>. QED BY <3>1, <3>2
  <2>. QED BY <2>1, <2>2, <2>3
<1>. HIDE DEF t
<1>3. ASSUME k < Len(s)
      PROVE  t # <<>> /\ Head(t) = s[k + 1]
  <2>1. Len(t) # 0 /\ 1 \in 1 .. Len(s) - k
    BY <1>1, <1>2, <1>3
  <2>2. t # <<>> /\ t[1] = s[k + 1]
    BY <1>2, <2>1, EmptySeq
  <2>. QED BY <1>2, <2>2
<1>. QED BY <1>2, <1>3 DEF t

LEMMA ReceiveKeeps ==
  ASSUME BufferInv, NEW n \in Node, ReceiveMorePackets(n),
         \/ lastRxSignals' = lastRxSignals
         \/ lastRxSignals' = [lastRxSignals EXCEPT ![n] = rxSignals'[n]],
         UNCHANGED <<out, moved, resetOnAir, txVars, lastByte, appVars>>
  PROVE  BufferInv'
<1>0. /\ TypeOK /\ LinkTyped /\ TxTyped /\ RxTyped /\ AppTyped
      /\ \A m \in Node : Fits(m) /\ MovedOK(m) /\ PointerOK(m)
  BY TypeParts DEF BufferInv
<1>1. TxTyped' /\ AppTyped'
  BY <1>0 DEF TxTyped, AppTyped, txVars, appVars
<1>2. ASSUME NEW m \in Node
      PROVE  Fits(m)' /\ MovedOK(m)'
  BY <1>0, SenderSame DEF txVars
<1>3. CASE UNCHANGED <<in, rxBytesLeft, rxSignals>>
  <2>1. LinkTyped' /\ RxTyped'
    BY <1>0, <1>3 DEF LinkTyped, RxTyped
  <2>2. ASSUME NEW m \in Node
        PROVE  PointerOK(m)'
    <3>1. lastRxSignals'[m] \in {lastRxSignals[m], rxSignals[m]}
      BY <1>0, <1>3 DEF RxTyped
    <3>. QED BY <1>0, <1>3, <3>1 DEF PointerOK
  <2>. QED BY <1>1, <1>2, <2>1, <2>2, TypePartsNext DEF BufferInv
<1>4. ASSUME NEW read \in 0 .. Len(in[n]), NEW left \in 0 .. RADIO_LINK_PAYLOAD_SIZE,
             ReadsOn(n, read, left)
      PROVE  BufferInv'
  <2>. DEFINE rest == SubSeq(in[n], read + 1, Len(in[n]))
              signals == IF read = 0 THEN rxSignals[n] ELSE in[n][read].signals
  <2>0. in[n] \in Seq(Packet) /\ Len(in[n]) \in Nat /\ rxSignals[n] \in Signals
    BY <1>0, NodeTyped
  <2>1. /\ rest \in Seq(Packet)
        /\ read < Len(in[n]) => rest # <<>> /\ Head(rest) = in[n][read + 1]
    BY <2>0, Dropped
  <2>2. signals \in Signals
    <3>1. CASE read # 0
      <4>1. read \in 1 .. read /\ read \in 1 .. Len(in[n])
        BY <2>0, <3>1
      <4>2. in[n][read].type # "DATA"
        BY <1>4, <4>1 DEF ReadsOn
      <4>3. in[n][read] \in Packet
        BY <2>0, <4>1, ElementOfSeq
      <4>. QED BY <3>1, <4>2, <4>3, PacketKinds
    <3>. QED BY <2>0, <3>1
  <2>3. /\ in' = [in EXCEPT ![n] = rest]
        /\ rxSignals' = [rxSignals EXCEPT ![n] = signals]
        /\ rxBytesLeft' = [rxBytesLeft EXCEPT ![n] = left]
    BY <1>4 DEF ReadsOn
  <2>4. left # 0 => /\ rest # <<>> /\ Head(rest).type = "DATA"
                    /\ left <= Len(Head(rest).bytes)
                    /\ EnforceOrdering => signals = lastRxSignals[n]
    <3>. SUFFICES ASSUME left # 0
                  PROVE  /\ rest # <<>> /\ Head(rest).type = "DATA"
                         /\ left <= Len(Head(rest).bytes)
                         /\ EnforceOrdering => signals = lastRxSignals[n]
      OBVIOUS
    <3>1. /\ read < Len(in[n]) /\ in[n][read + 1].type = "DATA"
          /\ left = Len(in[n][read + 1].bytes)
      BY <1>4 DEF ReadsOn
    <3>2. left \in Int
      BY Sizes
    <3>3. EnforceOrdering => signals = lastRxSignals[n]
      <4>1. read # 0 => read \in 1 .. read
        BY <2>0
      <4>. QED BY <1>4, <4>1 DEF ReadsOn
    <3>. HIDE DEF rest, signals
    <3>. QED BY <2>1, <3>1, <3>2, <3>3
  <2>. HIDE DEF rest, signals
  <2>5. LinkTyped' /\ RxTyped'
    BY <1>0, <2>1, <2>2, <2>3 DEF LinkTyped, RxTyped
  <2>6. ASSUME NEW m \in Node
        PROVE  PointerOK(m)'
    <3>1. CASE m = n
      <4>1. /\ in'[n] = rest /\ rxSignals'[n] = signals /\ rxBytesLeft'[n] = left
            /\ lastRxSignals'[n] \in {lastRxSignals[n], signals}
        BY <1>0, <2>3 DEF LinkTyped, RxTyped
      <4>. QED BY <2>4, <3>1, <4>1 DEF PointerOK
    <3>2. CASE m # n
      <4>1. UNCHANGED <<in[m], rxBytesLeft[m], rxSignals[m], lastRxSignals[m]>>
        BY <1>0, <2>3, <3>2 DEF LinkTyped, RxTyped
      <4>. QED BY <1>0, <4>1, PointerSame
    <3>. QED BY <3>1, <3>2
  <2>. QED BY <1>1, <1>2, <2>5, <2>6, TypePartsNext DEF BufferInv
<1>. QED BY <1>3, <1>4, ReceiveForms

LEMMA ReceiveByteKeeps ==
  ASSUME BufferInv, NEW n \in Node, RxReceiveByte(n)
  PROVE  BufferInv'
<1>. DEFINE bytes == Head(in[n]).bytes
            b == bytes[Len(bytes) - rxBytesLeft[n] + 1]
<1>0. /\ TypeOK /\ LinkTyped /\ TxTyped /\ RxTyped /\ AppTyped
      /\ \A m \in Node : Fits(m) /\ MovedOK(m) /\ PointerOK(m)
  BY TypeParts DEF BufferInv
<1>1. /\ rxBytesLeft[n] # 0
      /\ lastByte' = [lastByte EXCEPT ![n] = b]
      /\ rxBytesLeft' = [rxBytesLeft EXCEPT ![n] = @ - 1]
      /\ in' = IF LastByteOfPacket(n) THEN [in EXCEPT ![n] = Tail(@)] ELSE in
      /\ UNCHANGED <<out, moved, resetOnAir, txVars, rxSignals, lastRxSignals, appVars>>
  BY DEF RxReceiveByte
<1>2. TxTyped' /\ AppTyped'
  BY <1>0, <1>1 DEF TxTyped, AppTyped, txVars, appVars
<1>3. ASSUME NEW m \in Node
      PROVE  Fits(m)' /\ MovedOK(m)'
  BY <1>0, <1>1, SenderSame DEF txVars
<1>4. /\ in[n] \in Seq(Packet) /\ in[n] # <<>> /\ bytes \in Payload
      /\ rxBytesLeft[n] \in 1 .. Len(bytes) /\ Tail(in[n]) \in Seq(Packet)
  <2>1. in[n] \in Seq(Packet) /\ rxBytesLeft[n] \in 0 .. RADIO_LINK_PAYLOAD_SIZE
    BY <1>0, NodeTyped
  <2>2. /\ in[n] # <<>> /\ Head(in[n]).type = "DATA"
        /\ rxBytesLeft[n] <= Len(bytes)
    BY <1>0, <1>1 DEF PointerOK
  <2>3. Head(in[n]) \in Packet /\ Tail(in[n]) \in Seq(Packet)
    BY <2>1, <2>2, HeadTailProperties
  <2>4. bytes \in Payload
    BY <2>2, <2>3, PacketKinds
  <2>. HIDE DEF bytes
  <2>. QED BY <1>1, <2>1, <2>2, <2>3, <2>4, PayloadFacts
<1>5. b \in Byte
  <2>. HIDE DEF bytes
  <2>1. bytes \in Seq(Byte) /\ Len(bytes) - rxBytesLeft[n] + 1 \in 1 .. Len(bytes)
    BY <1>4, PayloadFacts
  <2>. QED BY <2>1, ElementOfSeq
<1>6. LinkTyped' /\ RxTyped'
  <2>. HIDE DEF bytes, b
  <2>1. rxBytesLeft[n] - 1 \in 0 .. RADIO_LINK_PAYLOAD_SIZE
    BY <1>4, PayloadFacts, Sizes
  <2>. QED BY <1>0, <1>1, <1>4, <1>5, <2>1 DEF LinkTyped, RxTyped
<1>7. ASSUME NEW m \in Node
      PROVE  PointerOK(m)'
  <2>1. CASE m = n
    <3>1. rxBytesLeft'[n] = rxBytesLeft[n] - 1
      BY <1>0, <1>1 DEF RxTyped
    <3>2. CASE rxBytesLeft[n] = 1
      BY <2>1, <3>1, <3>2 DEF PointerOK
    <3>3. CASE rxBytesLeft[n] # 1
      <4>1. in' = in
        BY <1>1, <3>3 DEF LastByteOfPacket
      <4>2. Len(bytes) \in Nat
        BY <1>4, PayloadFacts
      <4>. QED BY <1>0, <1>1, <1>4, <2>1, <3>1, <4>1, <4>2 DEF PointerOK
    <3>. QED BY <3>2, <3>3
  <2>2. CASE m # n
    <3>1. UNCHANGED <<in[m], rxBytesLeft[m], rxSignals[m], lastRxSignals[m]>>
      BY <1>0, <1>1, <2>2 DEF LinkTyped, RxTyped
    <3>. QED BY <1>0, <3>1, PointerSame
  <2>. QED BY <2>1, <2>2
<1>. QED BY <1>2, <1>3, <1>6, <1>7, TypePartsNext DEF BufferInv

------------------------------------------------------------------------------
(* The link and the world *)

LEMMA PointerPush ==
  ASSUME NEW m \in Node, PointerOK(m), in[m] \in Seq(Packet), NEW d \in Packet,
         in'[m] = Append(in[m], d),
         UNCHANGED <<rxBytesLeft[m], rxSignals[m], lastRxSignals[m]>>
  PROVE  PointerOK(m)'
<1>1. Append(in[m], d) # <<>> /\ (in[m] # <<>> => Head(Append(in[m], d)) = Head(in[m]))
  BY AppendProperties, HeadTailAppend
<1>. QED BY <1>1 DEF PointerOK

LEMMA SenderPop ==
  ASSUME NEW m \in Node, Fits(m), out[m] \in Seq(Packet), out[m] # <<>>,
         out'[m] = Tail(out[m]), ~moved'[m], txBytes'[m] = txBytes[m]
  PROVE  Fits(m)' /\ MovedOK(m)'
<1>1. Len(out[m]) \in Nat /\ Len(Tail(out[m])) = Len(out[m]) - 1
  BY LenProperties, HeadTailProperties
<1>. QED BY <1>1, Sizes DEF Fits, MovedOK

LEMMA LinkKeeps ==
  ASSUME BufferInv, NEW n \in Node, LinkStep(n)
  PROVE  BufferInv'
<1>. DEFINE p == Link!Peer(n)
<1>0. /\ TypeOK /\ LinkTyped /\ TxTyped /\ RxTyped /\ AppTyped
      /\ \A m \in Node : Fits(m) /\ MovedOK(m) /\ PointerOK(m)
      /\ UNCHANGED <<resetOnAir, txVars, rxVars, appVars>>
      /\ p \in Node /\ p # n
  BY TypeParts, PeerFacts DEF BufferInv, LinkStep
<1>. HIDE DEF p
<1>1. TxTyped' /\ RxTyped' /\ AppTyped'
  BY <1>0 DEF TxTyped, RxTyped, AppTyped, txVars, rxVars, appVars
<1>2. ASSUME NEW m \in Node
      PROVE  /\ out[m] \in Seq(Packet) /\ in[m] \in Seq(Packet)
             /\ out[m] # <<>> => /\ Head(out[m]) \in Packet
                                 /\ Tail(out[m]) \in Seq(Packet)
             /\ \A d \in Packet : Append(in[m], d) \in Seq(Packet)
  <2>1. out[m] \in Seq(Packet) /\ in[m] \in Seq(Packet)
    BY <1>0, NodeTyped
  <2>. QED BY <2>1, HeadTailProperties, AppendProperties
<1>3. CASE Link!Move(n)
  <2>1. /\ out[n] # <<>> /\ out' = out
        /\ in' = [in EXCEPT ![p] = Append(in[p], Head(out[n]))]
        /\ moved' = [moved EXCEPT ![n] = TRUE]
    BY <1>3 DEF Link!Move, p
  <2>2. LinkTyped'
    BY <1>0, <1>2, <2>1 DEF LinkTyped
  <2>3. ASSUME NEW m \in Node
        PROVE  Fits(m)' /\ MovedOK(m)'
    <3>1. Fits(m)'
      BY <1>0, <2>1 DEF Fits, txVars
    <3>2. MovedOK(m)'
      BY <1>0, <2>1 DEF MovedOK, LinkTyped
    <3>. QED BY <3>1, <3>2
  <2>4. ASSUME NEW m \in Node
        PROVE  PointerOK(m)'
    <3>1. CASE m = p
      <4>1. in'[p] = Append(in[p], Head(out[n])) /\ Head(out[n]) \in Packet
        BY <1>0, <1>2, <2>1 DEF LinkTyped
      <4>. QED BY <1>0, <1>2, <3>1, <4>1, PointerPush DEF rxVars
    <3>2. CASE m # p
      BY <1>0, <2>1, <3>2, PointerSame DEF LinkTyped, rxVars
    <3>. QED BY <3>1, <3>2
  <2>. QED BY <1>1, <2>2, <2>3, <2>4, TypePartsNext DEF BufferInv
<1>4. CASE Link!Release(n)
  <2>1. /\ out[n] # <<>> /\ in' = in
        /\ out' = [out EXCEPT ![n] = Tail(out[n])]
        /\ moved' = [moved EXCEPT ![n] = FALSE]
    BY <1>0, <1>4 DEF Link!Release, MovedOK
  <2>2. LinkTyped'
    BY <1>0, <1>2, <2>1 DEF LinkTyped
  <2>3. ASSUME NEW m \in Node
        PROVE  Fits(m)' /\ MovedOK(m)'
    <3>1. CASE m = n
      BY <1>0, <1>2, <2>1, <3>1, SenderPop DEF LinkTyped, txVars
    <3>2. CASE m # n
      BY <1>0, <2>1, <3>2, SenderSame DEF LinkTyped, txVars
    <3>. QED BY <3>1, <3>2
  <2>4. ASSUME NEW m \in Node
        PROVE  PointerOK(m)'
    BY <1>0, <2>1, PointerSame DEF rxVars
  <2>. QED BY <1>1, <2>2, <2>3, <2>4, TypePartsNext DEF BufferInv
<1>5. CASE Link!ReleaseAndMove(n)
  <2>1. /\ out[n] # <<>> /\ out[p] # <<>>
        /\ out' = [out EXCEPT ![n] = Tail(out[n])]
        /\ moved' = [moved EXCEPT ![n] = FALSE, ![p] = TRUE]
        /\ in' = [in EXCEPT ![n] = Append(in[n], Head(out[p]))]
    BY <1>0, <1>5 DEF Link!ReleaseAndMove, MovedOK, p
  <2>2. LinkTyped'
    BY <1>0, <1>2, <2>1 DEF LinkTyped
  <2>3. ASSUME NEW m \in Node
        PROVE  Fits(m)' /\ MovedOK(m)'
    <3>1. CASE m = n
      BY <1>0, <1>2, <2>1, <3>1, SenderPop DEF LinkTyped, txVars
    <3>2. CASE m # n
      <4>1. out'[m] = out[m] /\ (m = p \/ moved'[m] = moved[m])
        BY <1>0, <2>1, <3>2 DEF LinkTyped
      <4>. QED BY <1>0, <2>1, <4>1 DEF Fits, MovedOK, txVars
    <3>. QED BY <3>1, <3>2
  <2>4. ASSUME NEW m \in Node
        PROVE  PointerOK(m)'
    <3>1. CASE m = n
      <4>1. in'[n] = Append(in[n], Head(out[p])) /\ Head(out[p]) \in Packet
        BY <1>0, <1>2, <2>1 DEF LinkTyped
      <4>. QED BY <1>0, <1>2, <3>1, <4>1, PointerPush DEF rxVars
    <3>2. CASE m # n
      BY <1>0, <2>1, <3>2, PointerSame DEF LinkTyped, rxVars
    <3>. QED BY <3>1, <3>2
  <2>. QED BY <1>1, <2>2, <2>3, <2>4, TypePartsNext DEF BufferInv
<1>. QED BY <1>3, <1>4, <1>5 DEF LinkStep

LEMMA ResetKeeps ==
  ASSUME BufferInv, NEW n \in Node, ResetArrives(n)
  PROVE  BufferInv'
<1>0. /\ TypeOK /\ LinkTyped /\ TxTyped /\ RxTyped /\ AppTyped
      /\ \A m \in Node : Fits(m) /\ MovedOK(m) /\ PointerOK(m)
      /\ UNCHANGED <<out, moved, in, txBytes, txSignals, sendSignalsSoon, rxVars,
                     appVars>>
  BY TypeParts DEF BufferInv, ResetArrives
<1>1. LinkTyped'
  <2>1. /\ resetOnAir[n] > 0 /\ resetOnAir[n] \in 0 .. ResetCopies
        /\ resetOnAir' = [resetOnAir EXCEPT ![n] = resetOnAir[n] - 1]
    BY <1>0 DEF LinkTyped, ResetArrives
  <2>2. resetOnAir[n] - 1 \in 0 .. ResetCopies
    BY <2>1, BoundAssumption DEF BoundAssumption
  <2>. QED BY <1>0, <2>1, <2>2 DEF LinkTyped
<1>2. TxTyped'
  BY <1>0 DEF TxTyped, ResetArrives
<1>3. RxTyped' /\ AppTyped'
  BY <1>0 DEF RxTyped, AppTyped, rxVars, appVars
<1>4. ASSUME NEW m \in Node
      PROVE  Fits(m)' /\ MovedOK(m)' /\ PointerOK(m)'
  BY <1>0, SenderSame, PointerSame DEF rxVars
<1>. QED BY <1>1, <1>2, <1>3, <1>4, TypePartsNext DEF BufferInv

LEMMA RestartKeeps ==
  ASSUME BufferInv, NEW n \in Node, Restart(n)
  PROVE  BufferInv'
<1>0. /\ TypeOK /\ LinkTyped /\ TxTyped /\ RxTyped /\ AppTyped
      /\ \A m \in Node : Fits(m) /\ MovedOK(m) /\ PointerOK(m)
  BY TypeParts DEF BufferInv
<1>1. /\ out' = [out EXCEPT ![n] = <<>>] /\ in' = [in EXCEPT ![n] = <<>>]
      /\ moved' = [m \in Node |-> FALSE]
  BY DEF Restart, Link!Restart
<1>2. <<>> \in Seq(Packet) /\ <<>> \in Seq(Byte) /\ Len(<<>>) = 0
  BY EmptySeq
<1>3. NoByte \in Byte /\ 0 \in Signals /\ ResetCopies \in Nat
  BY Sizes, BoundAssumption DEF NoByte, Byte, BoundAssumption
<1>4. LinkTyped'
  <2>1. resetOnAir' \in [Node -> 0 .. ResetCopies]
    <3>1. resetOnAir' = [resetOnAir EXCEPT ![Link!Peer(n)] = ResetCopies]
      BY DEF Restart
    <3>2. ResetCopies \in 0 .. ResetCopies
      BY <1>3
    <3>. QED BY <1>0, <3>1, <3>2 DEF LinkTyped
  <2>. QED BY <1>0, <1>1, <1>2, <2>1 DEF LinkTyped
<1>5. TxTyped'
  BY <1>0, <1>2, <1>3 DEF Restart, TxTyped
<1>6. RxTyped'
  BY <1>0, <1>3, Sizes DEF Restart, RxTyped
<1>7. AppTyped'
  BY <1>0 DEF Restart, AppTyped
<1>8. ASSUME NEW m \in Node
      PROVE  Fits(m)' /\ MovedOK(m)' /\ PointerOK(m)'
  <2>0. MovedOK(m)'
    BY <1>1 DEF MovedOK
  <2>1. CASE m = n
    <3>1. out'[n] = <<>> /\ txBytes'[n] = <<>> /\ rxBytesLeft'[n] = 0
      BY <1>0, <1>1 DEF Restart, LinkTyped, TxTyped, RxTyped
    <3>. QED BY <1>2, <2>0, <2>1, <3>1, Sizes DEF Fits, PointerOK
  <2>2. CASE m # n
    <3>1. UNCHANGED <<out[m], in[m], txBytes[m], rxBytesLeft[m], rxSignals[m],
                      lastRxSignals[m]>>
      BY <1>0, <1>1, <2>2 DEF Restart, LinkTyped, TxTyped, RxTyped
    <3>2. PointerOK(m)'
      BY <1>0, <3>1, PointerSame
    <3>. QED BY <1>0, <2>0, <3>1, <3>2 DEF Fits
  <2>. QED BY <2>1, <2>2
<1>. QED BY <1>4, <1>5, <1>6, <1>7, <1>8, TypePartsNext DEF BufferInv

LEMMA BufferStep == BufferInv /\ [Next]_vars => BufferInv'
<1>. SUFFICES ASSUME BufferInv, [Next]_vars
              PROVE  BufferInv'
  OBVIOUS
<1>0. /\ TypeOK /\ LinkTyped /\ TxTyped /\ RxTyped /\ AppTyped
      /\ \A m \in Node : Fits(m) /\ MovedOK(m) /\ PointerOK(m)
  BY TypeParts DEF BufferInv
<1>1. ASSUME NEW n \in Node, TxService(n)
      PROVE  BufferInv'
  <2>1. /\ Service(n, txSignals[n], sendSignalsSoon[n])
        /\ UNCHANGED <<moved, in, resetOnAir, txSignals, rxVars, appVars>>
    BY <1>1 DEF TxService
  <2>2. /\ txSignals[n] \in Signals /\ sendSignalsSoon[n] \in BOOLEAN
        /\ txSignals' \in [Node -> Signals] /\ AppTyped'
    BY <1>0, <2>1 DEF TxTyped, AppTyped, appVars
  <2>. QED BY <2>1, <2>2, ServiceKeeps
<1>2. ASSUME NEW n \in Node, NEW s \in Signals, TxControlSignals(n, s)
      PROVE  BufferInv'
  <2>1. /\ Service(n, s, TRUE) /\ UNCHANGED <<moved, in, resetOnAir, rxVars>>
    BY <1>2 DEF TxControlSignals
  <2>2. txSignals' \in [Node -> Signals] /\ AppTyped'
    BY <1>0, <1>2 DEF TxControlSignals, TxTyped, AppTyped
  <2>. QED BY <2>1, <2>2, ServiceKeeps
<1>3. ASSUME NEW n \in Node, RxAvailable(n) \/ RxControlSignals(n)
      PROVE  BufferInv'
  BY <1>3, ReceiveKeeps DEF RxAvailable, RxControlSignals
<1>4. CASE UNCHANGED vars
  <2>1. LinkTyped' /\ TxTyped' /\ RxTyped' /\ AppTyped'
    BY <1>0, <1>4 DEF LinkTyped, TxTyped, RxTyped, AppTyped, vars, linkVars, txVars,
       rxVars, appVars
  <2>2. \A m \in Node : Fits(m)' /\ MovedOK(m)' /\ PointerOK(m)'
    BY <1>0, <1>4, SenderSame, PointerSame DEF vars, linkVars, txVars, rxVars
  <2>. QED BY <2>1, <2>2, TypePartsNext DEF BufferInv
<1>. QED BY <1>1, <1>2, <1>3, <1>4, SendByteKeeps, ReceiveByteKeeps, LinkKeeps,
            ResetKeeps, RestartKeeps DEF Next

(* The queues, the packet that is being filled and the one that is being     *)
(* read have their types and sizes.                                          *)
THEOREM BuffersCorrect == Spec => []BufferInv
BY BufferInit, BufferStep, PTL DEF Spec

LEMMA RoomFits ==
  ASSUME BufferInv, NEW n \in Node
  PROVE  /\ LinkTxAvailable(n) >= 0
         /\ txBytes[n] # <<>> => LinkTxAvailable(n) > 0
         /\ Len(txBytes[n]) < RADIO_LINK_PAYLOAD_SIZE
         /\ TxAvailable(n) <= Room(n)
<1>. DEFINE a == LinkTxAvailable(n)
            k == RADIO_LINK_PAYLOAD_SIZE
            r == Room(n)
<1>1. /\ Len(out[n]) \in Nat /\ Len(txBytes[n]) \in Nat /\ Fits(n)
      /\ txBytes[n] \in Seq(Byte)
  BY NodeTyped DEF BufferInv
<1>2. /\ a \in Nat /\ (txBytes[n] # <<>> => a > 0)
      /\ Len(txBytes[n]) < k
  BY <1>1, Sizes DEF LinkTxAvailable, Fits
<1>3. r \in Nat
  <2>1. r = a * k - Len(txBytes[n])
    BY DEF Room
  <2>2. k \in Nat /\ (txBytes[n] = <<>> => Len(txBytes[n]) = 0)
    BY Sizes, EmptySeq
  <2>. HIDE DEF a, k, r
  <2>3. a * k \in Nat /\ (a > 0 => a * k >= k)
    BY <1>2, <2>2
  <2>. QED BY <1>1, <1>2, <2>1, <2>2, <2>3
<1>4. r % UINT8 <= r
  <2>. HIDE DEF r
  <2>. QED BY <1>3, Sizes
<1>5. TxAvailable(n) <= r
  BY <1>3, <1>4 DEF TxAvailable
<1>. QED BY <1>2, <1>5

(* The room that the program is told of is there, and the packet that is     *)
(* being filled has a buffer of the link: for every size of a packet, every  *)
(* number of buffers and every width of the result.                          *)
THEOREM RoomReal == Spec => []RoomIsReal
<1>1. BufferInv => RoomIsReal
  BY RoomFits DEF RoomIsReal
<1>. QED BY <1>1, BuffersCorrect, PTL

------------------------------------------------------------------------------
(* The stream.  A state of the stream is the number of the last byte and the *)
(* control signals; a packet takes it from one state to another.             *)

StreamState == [num : Nat, signals : Signals]

Carries(d, x, y) ==
  IF d.type = "DATA"
  THEN /\ y.num = x.num + Len(d.bytes) /\ y.signals = x.signals
       /\ \A k \in 1 .. Len(d.bytes) :
            d.bytes[k] = [num |-> x.num + k, sentUnder |-> x.signals]
  ELSE y.num = x.num /\ y.signals = d.signals

(* f gives the states between the packets of s.  The last conjunct follows   *)
(* from the others by induction, which the provers do not do.                *)
States(s, f, x, y) ==
  /\ f \in [1 .. Len(s) + 1 -> StreamState] /\ f[1] = x /\ f[Len(s) + 1] = y
  /\ \A i \in 1 .. Len(s) : Carries(s[i], f[i], f[i + 1])
  /\ \A i, j \in 1 .. Len(s) + 1 :
       i <= j /\ (\A k \in i .. j - 1 : s[k].type # "DATA") => f[i].num = f[j].num

(* The packets of s take the stream from x to y. *)
Chain(s, x, y) == \E f \in [1 .. Len(s) + 1 -> StreamState] : States(s, f, x, y)

LEMMA ChainEmpty ==
  ASSUME NEW x \in StreamState
  PROVE  Chain(<<>>, x, x)
<1>. DEFINE f == [i \in 1 .. 1 |-> x]
<1>1. Len(<<>>) = 0
  BY EmptySeq
<1>2. States(<<>>, f, x, x)
  BY <1>1 DEF States
<1>. QED BY <1>1, <1>2 DEF Chain

LEMMA ChainPush ==
  ASSUME NEW s \in Seq(Packet), NEW d \in Packet, NEW x, NEW y, NEW z \in StreamState,
         Chain(s, x, y), Carries(d, y, z)
  PROVE  Chain(Append(s, d), x, z)
<1>1. PICK f \in [1 .. Len(s) + 1 -> StreamState] : States(s, f, x, y)
  BY DEF Chain
<1>. DEFINE l == Len(s)
            t == Append(s, d)
            g == [i \in 1 .. l + 2 |-> IF i <= l + 1 THEN f[i] ELSE z]
<1>2. /\ l \in Nat /\ Len(t) = l + 1 /\ t[l + 1] = d
      /\ \A i \in 1 .. l : t[i] = s[i]
  BY LenProperties, AppendProperties
<1>3. /\ f[1] = x /\ f[l + 1] = y /\ \A i \in 1 .. l : Carries(s[i], f[i], f[i + 1])
      /\ \A i, j \in 1 .. l + 1 :
           i <= j /\ (\A k \in i .. j - 1 : s[k].type # "DATA") => f[i].num = f[j].num
  BY <1>1 DEF States
<1>. HIDE DEF l, t
<1>4. g \in [1 .. l + 2 -> StreamState] /\ g[1] = x /\ g[l + 2] = z
  BY <1>1, <1>2, <1>3 DEF l
<1>5. /\ \A i \in 1 .. l + 1 : g[i] = f[i]
      /\ g[l + 2] = z
  BY <1>2
<1>. HIDE DEF g
<1>6. ASSUME NEW i \in 1 .. l + 1
      PROVE  Carries(t[i], g[i], g[i + 1])
  <2>1. CASE i = l + 1
    <3>1. t[i] = d /\ g[i] = y /\ g[i + 1] = z
      BY <1>2, <1>3, <1>5, <2>1
    <3>. QED BY <3>1
  <2>2. CASE i # l + 1
    <3>1. i \in 1 .. l /\ i + 1 \in 1 .. l + 1
      BY <1>2, <2>2
    <3>2. t[i] = s[i] /\ g[i] = f[i] /\ g[i + 1] = f[i + 1]
      BY <1>2, <1>5, <3>1
    <3>. QED BY <1>3, <3>1, <3>2
  <2>. QED BY <2>1, <2>2
<1>7. ASSUME NEW i \in 1 .. l + 2, NEW j \in 1 .. l + 2, i <= j,
             \A k \in i .. j - 1 : t[k].type # "DATA"
      PROVE  g[i].num = g[j].num
  <2>1. ASSUME i # l + 2, NEW h \in 1 .. l + 1, i <= h, h <= j
        PROVE  g[i].num = f[h].num
    <3>1. i \in 1 .. l + 1
      BY <1>2, <2>1
    <3>2. ASSUME NEW k \in i .. h - 1
          PROVE  s[k].type # "DATA"
      <4>1. k \in i .. j - 1 /\ k \in 1 .. l
        BY <1>2, <2>1
      <4>. QED BY <1>2, <1>7, <4>1
    <3>. QED BY <1>3, <1>5, <2>1, <3>1, <3>2
  <2>2. CASE j # l + 2
    <3>1. j \in 1 .. l + 1 /\ i # l + 2
      BY <1>2, <1>7, <2>2
    <3>2. g[i].num = f[j].num
      BY <1>2, <1>7, <2>1, <3>1
    <3>. QED BY <1>5, <3>1, <3>2
  <2>3. CASE j = l + 2 /\ i # l + 2
    <3>1. i <= l + 1 /\ l + 1 \in 1 .. l + 1 /\ l + 1 <= j /\ l + 1 \in i .. j - 1
      BY <1>2, <2>3
    <3>2. g[i].num = y.num
      BY <1>3, <2>1, <2>3, <3>1
    <3>3. t[l + 1].type # "DATA"
      BY <1>7, <3>1
    <3>4. z.num = y.num
      BY <1>2, <3>3 DEF Carries
    <3>. QED BY <1>5, <2>3, <3>2, <3>4
  <2>4. CASE i = l + 2
    <3>1. j = l + 2
      BY <1>2, <1>7, <2>4
    <3>. QED BY <2>4, <3>1
  <2>. QED BY <2>2, <2>3, <2>4
<1>8. Len(t) + 1 = l + 2
  BY <1>2
<1>9. States(t, g, x, z)
  BY <1>2, <1>4, <1>6, <1>7, <1>8 DEF States
<1>10. Chain(t, x, z)
  BY <1>4, <1>8, <1>9 DEF Chain
<1>. QED BY <1>10 DEF t

(* z is a state of the stream after the first k packets of s. *)
After(s, k, x, y, z) ==
  /\ Chain(SubSeq(s, k + 1, Len(s)), z, y)
  /\ k = 0 => z = x
  /\ k = 1 => Carries(s[1], x, z)
  /\ k # 0 => \E w \in StreamState : Carries(s[k], w, z)
  /\ (\A i \in 1 .. k : s[i].type # "DATA") => z.num = x.num

LEMMA ChainDrop ==
  ASSUME NEW s \in Seq(Packet), NEW k \in 0 .. Len(s), NEW x, NEW y, Chain(s, x, y)
  PROVE  \E z \in StreamState : After(s, k, x, y, z)
<1>1. PICK f \in [1 .. Len(s) + 1 -> StreamState] : States(s, f, x, y)
  BY DEF Chain
<1>. DEFINE l == Len(s)
            t == SubSeq(s, k + 1, Len(s))
            g == [i \in 1 .. (l - k) + 1 |-> f[k + i]]
<1>2. /\ l \in Nat /\ Len(t) = l - k /\ k \in 0 .. l
      /\ \A i \in 1 .. l - k : t[i] = s[k + i]
  BY LenProperties, Dropped
<1>3. /\ f[1] = x /\ f[l + 1] = y /\ \A i \in 1 .. l : Carries(s[i], f[i], f[i + 1])
      /\ \A i, j \in 1 .. l + 1 :
           i <= j /\ (\A h \in i .. j - 1 : s[h].type # "DATA") => f[i].num = f[j].num
      /\ f \in [1 .. l + 1 -> StreamState]
  BY <1>1 DEF States
<1>. HIDE DEF l, t
<1>4. /\ g \in [1 .. (l - k) + 1 -> StreamState]
      /\ \A i \in 1 .. (l - k) + 1 : g[i] = f[k + i]
  BY <1>2, <1>3
<1>. HIDE DEF g
<1>5. g[1] = f[k + 1] /\ g[(l - k) + 1] = y
  <2>1. /\ 1 \in 1 .. (l - k) + 1 /\ (l - k) + 1 \in 1 .. (l - k) + 1
        /\ k + ((l - k) + 1) = l + 1
    BY <1>2
  <2>. QED BY <1>3, <1>4, <2>1
<1>6. ASSUME NEW i \in 1 .. l - k
      PROVE  Carries(t[i], g[i], g[i + 1])
  <2>1. /\ i \in 1 .. (l - k) + 1 /\ i + 1 \in 1 .. (l - k) + 1
        /\ k + i \in 1 .. l /\ k + (i + 1) = (k + i) + 1
    BY <1>2
  <2>2. t[i] = s[k + i] /\ g[i] = f[k + i] /\ g[i + 1] = f[(k + i) + 1]
    BY <1>2, <1>4, <2>1
  <2>. QED BY <1>3, <2>1, <2>2
<1>7. ASSUME NEW i \in 1 .. (l - k) + 1, NEW j \in 1 .. (l - k) + 1, i <= j,
             \A h \in i .. j - 1 : t[h].type # "DATA"
      PROVE  g[i].num = g[j].num
  <2>1. k + i \in 1 .. l + 1 /\ k + j \in 1 .. l + 1 /\ k + i <= k + j
    BY <1>2, <1>7
  <2>2. ASSUME NEW h \in k + i .. (k + j) - 1
        PROVE  s[h].type # "DATA"
    <3>1. h - k \in i .. j - 1 /\ h - k \in 1 .. l - k /\ k + (h - k) = h
      BY <1>2
    <3>. QED BY <1>2, <1>7, <3>1
  <2>. QED BY <1>3, <1>4, <2>1, <2>2
<1>8. States(t, g, f[k + 1], y)
  BY <1>2, <1>4, <1>5, <1>6, <1>7 DEF States
<1>9. Chain(t, f[k + 1], y)
  BY <1>2, <1>4, <1>8 DEF Chain
<1>10. f[k + 1] \in StreamState
  BY <1>2, <1>3
<1>11. k = 0 => f[k + 1] = x
  BY <1>3
<1>12. k = 1 => Carries(s[1], x, f[k + 1])
  BY <1>2, <1>3
<1>13. k # 0 => \E w \in StreamState : Carries(s[k], w, f[k + 1])
  <2>1. k # 0 => k \in 1 .. l /\ k \in 1 .. l + 1
    BY <1>2
  <2>2. k # 0 => f[k] \in StreamState /\ Carries(s[k], f[k], f[k + 1])
    BY <1>3, <2>1
  <2>. QED BY <2>2
<1>14. (\A i \in 1 .. k : s[i].type # "DATA") => f[k + 1].num = x.num
  <2>1. 1 \in 1 .. l + 1 /\ k + 1 \in 1 .. l + 1 /\ 1 <= k + 1 /\ (k + 1) - 1 = k
    BY <1>2
  <2>. QED BY <1>3, <2>1
<1>. QED BY <1>9, <1>10, <1>11, <1>12, <1>13, <1>14 DEF t, After

LEMMA ChainPop ==
  ASSUME NEW s \in Seq(Packet), s # <<>>, NEW x, NEW y, Chain(s, x, y)
  PROVE  \E z \in StreamState : Carries(Head(s), x, z) /\ Chain(Tail(s), z, y)
<1>1. Len(s) \in Nat \ {0} /\ Head(s) = s[1]
  BY EmptySeq
<1>2. Tail(s) = SubSeq(s, 1 + 1, Len(s)) /\ 1 \in 0 .. Len(s)
  BY <1>1, TailIsSubSeq
<1>3. PICK z \in StreamState :
        Chain(SubSeq(s, 1 + 1, Len(s)), z, y) /\ Carries(s[1], x, z)
  <2>1. PICK z \in StreamState : After(s, 1, x, y, z)
    BY <1>2, ChainDrop
  <2>. QED BY <2>1 DEF After
<1>4. Chain(Tail(s), z, y)
  BY <1>2, <1>3
<1>5. Carries(Head(s), x, z)
  BY <1>1, <1>3
<1>. QED BY <1>4, <1>5

------------------------------------------------------------------------------
(* The stream from n to p: what p has not read, what n's link has not yet    *)
(* copied to p, and the bytes in n's buffer follow each other.               *)

Unmoved(n) == IF moved[n] THEN Tail(out[n]) ELSE out[n]

(* x is the state before the packet at the head of p's queue. *)
ReaderAt(p, x) ==
  /\ x.signals = rxSignals[p]
  /\ IF rxBytesLeft[p] = 0 THEN x.num = lastByte[p].num
     ELSE x.num + Len(Head(in[p]).bytes) - rxBytesLeft[p] = lastByte[p].num

(* y is the state after the last packet that n has queued. *)
WriterAt(n, y) ==
  /\ y.num + Len(txBytes[n]) = nBytes[n]
  /\ \A k \in 1 .. Len(txBytes[n]) :
       txBytes[n][k] = [num |-> y.num + k, sentUnder |-> y.signals]
  /\ IF sendSignalsSoon[n] THEN txBytes[n] = <<>> ELSE y.signals = txSignals[n]

Stream(n, p) == \E x, m, y \in StreamState :
                  /\ ReaderAt(p, x) /\ Chain(in[p], x, m)
                  /\ Chain(Unmoved(n), m, y) /\ WriterAt(n, y)

StreamInv == /\ \A n \in Node : boots[n] # 0
             /\ NoRestarts => \A n \in Node : Stream(n, Link!Peer(n))

ReaderView(p) == <<in[p], rxBytesLeft[p], rxSignals[p], lastByte[p]>>
WriterView(n) == <<out[n], moved[n], txBytes[n], nBytes[n], sendSignalsSoon[n], txSignals[n]>>

LEMMA ReaderSame ==
  ASSUME NEW p \in Node, NEW x, NEW m, ReaderAt(p, x), Chain(in[p], x, m),
         UNCHANGED ReaderView(p)
  PROVE  ReaderAt(p, x)' /\ Chain(in'[p], x, m)
BY DEF ReaderAt, ReaderView

LEMMA WriterSame ==
  ASSUME NEW n \in Node, NEW m, NEW y, WriterAt(n, y), Chain(Unmoved(n), m, y),
         UNCHANGED WriterView(n)
  PROVE  WriterAt(n, y)' /\ Chain(Unmoved(n)', m, y)
BY DEF WriterAt, WriterView, Unmoved

LEMMA StreamSame ==
  ASSUME NEW n \in Node, NEW p \in Node, Stream(n, p),
         UNCHANGED <<ReaderView(p), WriterView(n)>>
  PROVE  Stream(n, p)'
<1>1. PICK x \in StreamState, m \in StreamState, y \in StreamState :
        /\ ReaderAt(p, x) /\ Chain(in[p], x, m)
        /\ Chain(Unmoved(n), m, y) /\ WriterAt(n, y)
  BY DEF Stream
<1>2. ReaderAt(p, x)' /\ Chain(in'[p], x, m)
  BY <1>1, ReaderSame
<1>3. WriterAt(n, y)' /\ Chain(Unmoved(n)', m, y)
  BY <1>1, WriterSame
<1>. QED BY <1>2, <1>3 DEF Stream

LEMMA UnmovedTyped ==
  ASSUME BufferInv, NEW n \in Node
  PROVE  Unmoved(n) \in Seq(Packet) /\ (moved[n] => out[n] # <<>>)
<1>1. out[n] \in Seq(Packet) /\ (moved[n] => out[n] # <<>>)
  BY NodeTyped DEF BufferInv, MovedOK
<1>2. moved[n] => Tail(out[n]) \in Seq(Packet)
  BY <1>1, HeadTailProperties
<1>. QED BY <1>1, <1>2 DEF Unmoved

(* The waiting bytes go to the end of the queue. *)
LEMMA FlushStream ==
  ASSUME BufferInv, NEW n \in Node, NEW m \in StreamState, NEW y \in StreamState,
         Chain(Unmoved(n), m, y), WriterAt(n, y)
  PROVE  LET rest == IF moved[n] THEN Tail(Flushed(n)) ELSE Flushed(n)
         IN  /\ Chain(rest, m, [num |-> nBytes[n], signals |-> y.signals])
             /\ rest \in Seq(Packet)
             /\ moved[n] => Flushed(n) # <<>>
<1>. DEFINE d == DataPacket(txBytes[n])
            z == [num |-> nBytes[n], signals |-> y.signals]
            rest == IF moved[n] THEN Tail(Flushed(n)) ELSE Flushed(n)
<1>1. /\ Unmoved(n) \in Seq(Packet) /\ (moved[n] => out[n] # <<>>)
      /\ Flushed(n) \in Seq(Packet) /\ (out[n] # <<>> => Flushed(n) # <<>>)
      /\ txBytes[n] \in Seq(Byte) /\ nBytes[n] \in Nat /\ out[n] \in Seq(Packet)
  BY UnmovedTyped, FlushedFits, NodeTyped DEF BufferInv
<1>2. rest \in Seq(Packet)
  BY <1>1, HeadTailProperties
<1>3. z \in StreamState /\ y.num \in Nat /\ y.signals \in Signals
  BY <1>1 DEF StreamState
<1>4. CASE txBytes[n] = <<>>
  <2>1. rest = Unmoved(n)
    BY <1>4 DEF Flushed, Unmoved
  <2>2. Len(txBytes[n]) = 0
    BY <1>4, EmptySeq
  <2>3. z = y
    BY <1>3, <2>2 DEF WriterAt, StreamState
  <2>. QED BY <1>1, <1>2, <2>1, <2>3
<1>5. CASE txBytes[n] # <<>>
  <2>1. txBytes[n] \in Payload /\ Flushed(n) = Append(out[n], d)
    BY <1>5, FlushedFits DEF Flushed
  <2>2. d \in Packet /\ d.type = "DATA" /\ d.bytes = txBytes[n]
    BY <2>1, PacketKinds
  <2>. HIDE DEF d
  <2>3. rest = Append(Unmoved(n), d)
    BY <1>1, <2>1, HeadTailAppend DEF Unmoved
  <2>4. Carries(d, y, z)
    BY <2>2 DEF Carries, WriterAt
  <2>5. Chain(Append(Unmoved(n), d), m, z)
    BY <1>1, <1>3, <2>2, <2>4, ChainPush
  <2>. QED BY <1>1, <1>2, <2>3, <2>5
<1>. QED BY <1>4, <1>5

LEMMA ServiceStream ==
  ASSUME BufferInv, NEW n \in Node, NEW p \in Node, Stream(n, p),
         NEW signals \in Signals, NEW soon \in BOOLEAN, Service(n, signals, soon),
         ~soon => ~sendSignalsSoon[n] /\ signals = txSignals[n],
         txSignals'[n] = signals, UNCHANGED <<ReaderView(p), moved, nBytes>>
  PROVE  Stream(n, p)'
<1>1. PICK x \in StreamState, m \in StreamState, y \in StreamState :
        /\ ReaderAt(p, x) /\ Chain(in[p], x, m)
        /\ Chain(Unmoved(n), m, y) /\ WriterAt(n, y)
  BY DEF Stream
<1>2. ReaderAt(p, x)' /\ Chain(in'[p], x, m)
  BY <1>1, ReaderSame
<1>. DEFINE z == [num |-> nBytes[n], signals |-> y.signals]
            rest == IF moved[n] THEN Tail(Flushed(n)) ELSE Flushed(n)
<1>3. Chain(rest, m, z) /\ rest \in Seq(Packet) /\ (moved[n] => Flushed(n) # <<>>)
  BY <1>1, FlushStream
<1>4. /\ nBytes[n] \in Nat /\ y.signals \in Signals /\ z \in StreamState
      /\ Flushed(n) \in Seq(Packet)
      /\ out \in [Node -> Seq(Packet)] /\ txBytes \in [Node -> Seq(Byte)]
      /\ sendSignalsSoon \in [Node -> BOOLEAN]
  BY NodeTyped, FlushedFits DEF BufferInv, StreamState, TypeOK
<1>5. Len(<<>>) = 0
  BY EmptySeq
<1>6. CASE /\ out' = [out EXCEPT ![n] = Append(Flushed(n), SignalsPacket(signals))]
           /\ txBytes' = [txBytes EXCEPT ![n] = <<>>]
           /\ sendSignalsSoon' = [sendSignalsSoon EXCEPT ![n] = FALSE]
  <2>. DEFINE d == SignalsPacket(signals)
              v == [num |-> nBytes[n], signals |-> signals]
  <2>1. /\ d \in Packet /\ d.type # "DATA" /\ d.signals = signals
        /\ v \in StreamState
    BY <1>4, PacketKinds DEF StreamState
  <2>2. Carries(d, z, v)
    BY <2>1 DEF Carries
  <2>3. out'[n] = Append(Flushed(n), d) /\ txBytes'[n] = <<>> /\ ~sendSignalsSoon'[n]
    BY <1>4, <1>6
  <2>. HIDE DEF d, z
  <2>4. Unmoved(n)' = Append(rest, d)
    BY <1>3, <1>4, <2>3, HeadTailAppend DEF Unmoved
  <2>. HIDE DEF rest
  <2>5. Chain(Unmoved(n)', m, v)
    BY <1>3, <1>4, <2>1, <2>2, <2>4, ChainPush
  <2>6. WriterAt(n, v)'
    BY <1>4, <1>5, <2>3 DEF WriterAt
  <2>. QED BY <1>2, <2>1, <2>5, <2>6 DEF Stream
<1>7. CASE /\ out' = [out EXCEPT ![n] = Flushed(n)]
           /\ txBytes' = [txBytes EXCEPT ![n] = <<>>]
           /\ \/ sendSignalsSoon' = [sendSignalsSoon EXCEPT ![n] = TRUE]
              \/ sendSignalsSoon' = sendSignalsSoon /\ ~soon
  <2>1. /\ out'[n] = Flushed(n) /\ txBytes'[n] = <<>>
        /\ sendSignalsSoon'[n] \/ ~soon
    BY <1>4, <1>7
  <2>2. Chain(Unmoved(n)', m, z)
    BY <1>3, <2>1 DEF Unmoved
  <2>3. WriterAt(n, z)'
    <3>1. ~sendSignalsSoon'[n] => y.signals = txSignals'[n]
      BY <1>1, <2>1 DEF WriterAt
    <3>. QED BY <1>4, <1>5, <2>1, <3>1 DEF WriterAt
  <2>. QED BY <1>2, <1>4, <2>2, <2>3 DEF Stream
<1>8. CASE UNCHANGED <<out, txBytes, sendSignalsSoon>> /\ ~soon
  <2>1. UNCHANGED WriterView(n)
    BY <1>8 DEF WriterView
  <2>. QED BY <2>1, StreamSame
<1>. QED BY <1>6, <1>7, <1>8, ServiceForms

LEMMA SendByteStream ==
  ASSUME BufferInv, NEW n \in Node, NEW p \in Node, Stream(n, p), TxSendByte(n)
  PROVE  Stream(n, p)'
<1>. DEFINE b == [num |-> nBytes[n] + 1, sentUnder |-> txSignals[n]]
            bytes == Append(txBytes[n], b)
<1>1. PICK x \in StreamState, m \in StreamState, y \in StreamState :
        /\ ReaderAt(p, x) /\ Chain(in[p], x, m)
        /\ Chain(Unmoved(n), m, y) /\ WriterAt(n, y)
  BY DEF Stream
<1>2. ReaderAt(p, x)' /\ Chain(in'[p], x, m)
  BY <1>1, ReaderSame DEF TxSendByte, ReaderView, rxVars
<1>3. /\ txBytes[n] \in Seq(Byte) /\ Len(txBytes[n]) \in Nat /\ nBytes[n] \in Nat
      /\ out[n] \in Seq(Packet) /\ b \in Byte /\ ~sendSignalsSoon[n]
      /\ Len(txBytes[n]) < RADIO_LINK_PAYLOAD_SIZE
      /\ Unmoved(n) \in Seq(Packet) /\ (moved[n] => out[n] # <<>>)
      /\ y.num \in Nat /\ y.signals \in Signals
      /\ out \in [Node -> Seq(Packet)] /\ txBytes \in [Node -> Seq(Byte)]
      /\ nBytes \in [Node -> Nat]
  <2>1. TypeOK /\ Fits(n)
    BY DEF BufferInv
  <2>2. /\ txBytes[n] \in Seq(Byte) /\ Len(txBytes[n]) \in Nat /\ nBytes[n] \in Nat
        /\ out[n] \in Seq(Packet) /\ txSignals[n] \in Signals
    BY <2>1, NodeTyped
  <2>3. Unmoved(n) \in Seq(Packet) /\ (moved[n] => out[n] # <<>>)
    BY UnmovedTyped
  <2>4. b \in Byte
    BY <2>2 DEF Byte
  <2>5. ~sendSignalsSoon[n]
    BY DEF TxSendByte, TxAvailable
  <2>6. y.num \in Nat /\ y.signals \in Signals
    BY DEF StreamState
  <2>7. /\ out \in [Node -> Seq(Packet)] /\ txBytes \in [Node -> Seq(Byte)]
        /\ nBytes \in [Node -> Nat]
    BY <2>1 DEF TypeOK
  <2>. QED BY <2>1, <2>2, <2>3, <2>4, <2>5, <2>6, <2>7 DEF Fits
<1>4. /\ bytes \in Seq(Byte) /\ Len(bytes) = Len(txBytes[n]) + 1
      /\ \A k \in 1 .. Len(txBytes[n]) : bytes[k] = txBytes[n][k]
      /\ bytes[Len(txBytes[n]) + 1] = b
  BY <1>3, AppendProperties
<1>5. /\ UNCHANGED <<moved, txSignals, sendSignalsSoon>>
      /\ nBytes'[n] = nBytes[n] + 1
  BY <1>3 DEF TxSendByte
<1>6. /\ y.num + Len(txBytes[n]) = nBytes[n] /\ y.signals = txSignals[n]
      /\ \A k \in 1 .. Len(txBytes[n]) :
           txBytes[n][k] = [num |-> y.num + k, sentUnder |-> y.signals]
  BY <1>1, <1>3 DEF WriterAt
<1>7. y.num + Len(bytes) = nBytes[n] + 1
  BY <1>3, <1>4, <1>6
<1>8. ASSUME NEW k \in 1 .. Len(bytes)
      PROVE  bytes[k] = [num |-> y.num + k, sentUnder |-> y.signals]
  <2>1. CASE k = Len(txBytes[n]) + 1
    <3>1. y.num + k = nBytes[n] + 1
      BY <1>3, <1>6, <2>1
    <3>. QED BY <1>4, <1>6, <2>1, <3>1
  <2>2. CASE k # Len(txBytes[n]) + 1
    <3>. HIDE DEF bytes
    <3>1. k \in 1 .. Len(txBytes[n])
      BY <1>3, <1>4, <2>2
    <3>. QED BY <1>4, <1>6, <3>1
  <2>. QED BY <2>1, <2>2
<1>9. CASE Len(bytes) = RADIO_LINK_PAYLOAD_SIZE
  <2>. DEFINE d == DataPacket(bytes)
  <2>1. out' = [out EXCEPT ![n] = Append(@, d)] /\ txBytes' = [txBytes EXCEPT ![n] = <<>>]
    BY <1>9 DEF TxSendByte, PacketFull
  <2>2. out'[n] = Append(out[n], d) /\ txBytes'[n] = <<>> /\ Len(<<>>) = 0
    BY <1>3, <2>1, EmptySeq
  <2>3. bytes \in Payload
    BY <1>4, <1>9, Sizes DEF Payload
  <2>4. d \in Packet /\ d.type = "DATA" /\ d.bytes = bytes
    BY <2>3, PacketKinds
  <2>. HIDE DEF d, bytes, b
  <2>5. PICK z \in StreamState :
          Carries(d, y, z) /\ z.num = nBytes[n] + 1 /\ z.signals = y.signals
    <3>. DEFINE v == [num |-> nBytes[n] + 1, signals |-> y.signals]
    <3>1. v \in StreamState /\ v.num = nBytes[n] + 1 /\ v.signals = y.signals
      BY <1>3 DEF StreamState
    <3>. HIDE DEF v
    <3>2. Carries(d, y, v)
      BY <1>7, <1>8, <2>4, <3>1 DEF Carries
    <3>. QED BY <3>1, <3>2
  <2>6. Unmoved(n)' = Append(Unmoved(n), d)
    BY <1>3, <1>5, <2>2, HeadTailAppend DEF Unmoved
  <2>7. Chain(Unmoved(n)', m, z)
    BY <1>1, <1>3, <2>4, <2>5, <2>6, ChainPush
  <2>8. WriterAt(n, z)'
    <3>1. z.num + Len(txBytes'[n]) = nBytes'[n]
      BY <1>3, <1>5, <2>2, <2>5
    <3>2. ~sendSignalsSoon'[n] /\ z.signals = txSignals'[n]
      BY <1>3, <1>5, <1>6, <2>5
    <3>3. 1 .. Len(txBytes'[n]) = {}
      BY <2>2
    <3>. QED BY <3>1, <3>2, <3>3 DEF WriterAt
  <2>. QED BY <1>2, <2>5, <2>7, <2>8 DEF Stream
<1>10. CASE Len(bytes) # RADIO_LINK_PAYLOAD_SIZE
  <2>1. out' = out /\ txBytes'[n] = bytes
    BY <1>3, <1>10 DEF TxSendByte, PacketFull
  <2>. HIDE DEF bytes
  <2>2. Chain(Unmoved(n)', m, y)
    BY <1>1, <1>5, <2>1 DEF Unmoved
  <2>3. WriterAt(n, y)'
    BY <1>3, <1>5, <1>6, <1>7, <1>8, <2>1 DEF WriterAt
  <2>. QED BY <1>2, <2>2, <2>3 DEF Stream
<1>. QED BY <1>9, <1>10

(* Reading on drops packets without bytes, and perhaps starts a data packet. *)
LEMMA ReceiveStream ==
  ASSUME BufferInv, NEW n \in Node, NEW p \in Node, Stream(n, p),
         ReceiveMorePackets(p), UNCHANGED <<lastByte, WriterView(n)>>
  PROVE  Stream(n, p)'
<1>1. PICK x \in StreamState, m \in StreamState, y \in StreamState :
        /\ ReaderAt(p, x) /\ Chain(in[p], x, m)
        /\ Chain(Unmoved(n), m, y) /\ WriterAt(n, y)
  BY DEF Stream
<1>2. WriterAt(n, y)' /\ Chain(Unmoved(n)', m, y)
  BY <1>1, WriterSame
<1>3. CASE UNCHANGED <<in, rxBytesLeft, rxSignals>>
  <2>1. UNCHANGED ReaderView(p)
    BY <1>3 DEF ReaderView
  <2>. QED BY <2>1, StreamSame
<1>4. ASSUME NEW read \in 0 .. Len(in[p]), NEW left \in 0 .. RADIO_LINK_PAYLOAD_SIZE,
             ReadsOn(p, read, left)
      PROVE  Stream(n, p)'
  <2>1. /\ in[p] \in Seq(Packet) /\ in \in [Node -> Seq(Packet)]
        /\ rxBytesLeft \in [Node -> 0 .. RADIO_LINK_PAYLOAD_SIZE]
        /\ rxSignals \in [Node -> Signals] /\ Len(in[p]) \in Nat /\ lastByte[p] \in Byte
    BY NodeTyped DEF BufferInv, TypeOK
  <2>2. PICK z \in StreamState :
          /\ Chain(SubSeq(in[p], read + 1, Len(in[p])), z, m)
          /\ read = 0 => z = x
          /\ read # 0 => \E w \in StreamState : Carries(in[p][read], w, z)
          /\ (\A i \in 1 .. read : in[p][i].type # "DATA") => z.num = x.num
    <3>1. Chain(in[p], x, m) /\ in[p] \in Seq(Packet)
      BY <1>1, <2>1
    <3>2. PICK z \in StreamState : After(in[p], read, x, m, z)
      BY <3>1, ChainDrop
    <3>. QED BY <3>2 DEF After
  <2>3. /\ in'[p] = SubSeq(in[p], read + 1, Len(in[p]))
        /\ rxBytesLeft'[p] = left /\ rxBytesLeft[p] = 0
        /\ rxSignals'[p] = IF read = 0 THEN rxSignals[p] ELSE in[p][read].signals
    BY <1>4, <2>1 DEF ReadsOn
  <2>4. z.num = lastByte[p].num
    BY <1>1, <1>4, <2>2, <2>3 DEF ReadsOn, ReaderAt
  <2>5. z.signals = rxSignals'[p]
    <3>1. CASE read = 0
      BY <1>1, <2>2, <2>3, <3>1 DEF ReaderAt
    <3>2. CASE read # 0
      <4>1. in[p][read].type # "DATA"
        BY <1>4, <2>1, <3>2 DEF ReadsOn
      <4>. QED BY <2>2, <2>3, <3>2, <4>1 DEF Carries
    <3>. QED BY <3>1, <3>2
  <2>6. ReaderAt(p, z)'
    <3>1. CASE left = 0
      BY <2>3, <2>4, <2>5, <3>1 DEF ReaderAt
    <3>2. CASE left # 0
      <4>1. /\ read < Len(in[p]) /\ left = Len(in[p][read + 1].bytes)
        BY <1>4, <3>2 DEF ReadsOn
      <4>2. Head(in'[p]) = in[p][read + 1]
        BY <2>1, <2>3, <4>1, Dropped
      <4>3. z.num + Len(Head(in'[p]).bytes) - rxBytesLeft'[p] = lastByte'[p].num
        <5>1. z.num \in Nat /\ left \in Nat
          BY Sizes DEF StreamState
        <5>2. Len(Head(in'[p]).bytes) = left /\ rxBytesLeft'[p] = left
          BY <2>3, <4>1, <4>2
        <5>3. lastByte'[p].num = z.num
          BY <2>4
        <5>4. z.num + left - left = z.num
          BY <5>1
        <5>. QED BY <5>2, <5>3, <5>4
      <4>. QED BY <2>3, <2>5, <3>2, <4>3 DEF ReaderAt
    <3>. QED BY <3>1, <3>2
  <2>. QED BY <1>2, <2>2, <2>3, <2>6 DEF Stream
<1>. QED BY <1>3, <1>4, ReceiveForms

(* The byte that is read is the next one of the stream. *)
LEMMA ByteRead ==
  ASSUME BufferInv, NEW p \in Node, NEW x \in StreamState, NEW m, ReaderAt(p, x),
         Chain(in[p], x, m), RxReceiveByte(p)
  PROVE  /\ lastByte'[p] = [num |-> lastByte[p].num + 1, sentUnder |-> x.signals]
         /\ lastByte[p].num \in Nat
         /\ \E z \in StreamState :
              /\ Carries(Head(in[p]), x, z) /\ Chain(Tail(in[p]), z, m)
              /\ z.num = x.num + Len(Head(in[p]).bytes) /\ z.signals = x.signals
<1>. DEFINE bytes == Head(in[p]).bytes
            k == Len(bytes) - rxBytesLeft[p] + 1
<1>1. /\ in[p] \in Seq(Packet) /\ in[p] # <<>> /\ Head(in[p]).type = "DATA"
      /\ rxBytesLeft[p] \in Nat \ {0} /\ rxBytesLeft[p] <= Len(bytes)
      /\ lastByte[p] \in Byte /\ lastByte \in [Node -> Byte]
  BY NodeTyped, Sizes DEF BufferInv, TypeOK, PointerOK, RxReceiveByte
<1>2. PICK z \in StreamState : Carries(Head(in[p]), x, z) /\ Chain(Tail(in[p]), z, m)
  BY <1>1, ChainPop
<1>3. /\ z.num = x.num + Len(bytes) /\ z.signals = x.signals
      /\ \A i \in 1 .. Len(bytes) : bytes[i] = [num |-> x.num + i, sentUnder |-> x.signals]
  BY <1>1, <1>2 DEF Carries
<1>4. Head(in[p]) \in Packet /\ Len(bytes) \in Nat /\ x.num \in Nat
  <2>1. Head(in[p]) \in Packet
    BY <1>1, HeadTailProperties
  <2>2. bytes \in Payload
    BY <1>1, <2>1, PacketKinds
  <2>. QED BY <2>1, <2>2, PayloadFacts, LenProperties DEF StreamState
<1>5. lastByte'[p] = bytes[k]
  BY <1>1 DEF RxReceiveByte
<1>6. x.num + Len(bytes) - rxBytesLeft[p] = lastByte[p].num
  BY <1>1 DEF ReaderAt
<1>7. lastByte[p].num \in Nat
  BY <1>1 DEF Byte
<1>8. bytes[k] = [num |-> x.num + k, sentUnder |-> x.signals]
  <2>1. k \in 1 .. Len(bytes)
    <3>. HIDE DEF bytes
    <3>. QED BY <1>1, <1>4
  <2>. HIDE DEF bytes, k
  <2>. QED BY <1>3, <2>1
<1>9. x.num + k = lastByte[p].num + 1
  <2>. HIDE DEF bytes
  <2>. QED BY <1>1, <1>4, <1>6, <1>7
<1>. HIDE DEF k
<1>. QED BY <1>2, <1>3, <1>5, <1>7, <1>8, <1>9

LEMMA ReceiveByteStream ==
  ASSUME BufferInv, NEW n \in Node, NEW p \in Node, Stream(n, p), RxReceiveByte(p),
         n # p
  PROVE  Stream(n, p)'
<1>1. PICK x \in StreamState, m \in StreamState, y \in StreamState :
        /\ ReaderAt(p, x) /\ Chain(in[p], x, m)
        /\ Chain(Unmoved(n), m, y) /\ WriterAt(n, y)
  BY DEF Stream
<1>2. WriterAt(n, y)' /\ Chain(Unmoved(n)', m, y)
  BY <1>1, WriterSame DEF WriterView, RxReceiveByte, txVars, appVars
<1>3. /\ lastByte'[p].num = lastByte[p].num + 1 /\ lastByte[p].num \in Nat
  <2>1. lastByte'[p] = [num |-> lastByte[p].num + 1, sentUnder |-> x.signals]
    BY <1>1, ByteRead
  <2>2. lastByte[p].num \in Nat
    BY <1>1, ByteRead
  <2>. QED BY <2>1, <2>2
<1>4. PICK z \in StreamState :
        /\ Chain(Tail(in[p]), z, m) /\ z.signals = x.signals
        /\ z.num = x.num + Len(Head(in[p]).bytes)
  <2>1. ReaderAt(p, x) /\ Chain(in[p], x, m)
    BY <1>1
  <2>2. PICK z \in StreamState :
          /\ Carries(Head(in[p]), x, z) /\ Chain(Tail(in[p]), z, m)
          /\ z.num = x.num + Len(Head(in[p]).bytes) /\ z.signals = x.signals
    BY <2>1, ByteRead
  <2>. QED BY <2>2
<1>5. /\ in \in [Node -> Seq(Packet)] /\ in[p] \in Seq(Packet) /\ in[p] # <<>>
      /\ Head(in[p]).type = "DATA"
      /\ rxBytesLeft \in [Node -> 0 .. RADIO_LINK_PAYLOAD_SIZE]
      /\ rxBytesLeft[p] \in Nat \ {0} /\ rxBytesLeft'[p] = rxBytesLeft[p] - 1
      /\ rxSignals' = rxSignals
  <2>1. /\ TypeOK /\ PointerOK(p) /\ rxBytesLeft[p] # 0 /\ rxSignals' = rxSignals
        /\ rxBytesLeft' = [rxBytesLeft EXCEPT ![p] = @ - 1]
    BY DEF BufferInv, RxReceiveByte
  <2>2. /\ in \in [Node -> Seq(Packet)] /\ in[p] \in Seq(Packet)
        /\ rxBytesLeft \in [Node -> 0 .. RADIO_LINK_PAYLOAD_SIZE]
    BY <2>1 DEF TypeOK
  <2>3. rxBytesLeft[p] \in Nat
    BY <2>2, Sizes
  <2>. QED BY <2>1, <2>2, <2>3 DEF PointerOK
<1>6. x.num \in Nat /\ z.num \in Nat /\ Len(Head(in[p]).bytes) \in Nat
  <2>1. Head(in[p]) \in Packet
    BY <1>5, HeadTailProperties
  <2>2. Head(in[p]).bytes \in Payload
    BY <1>5, <2>1, PacketKinds
  <2>. QED BY <2>2, PayloadFacts, LenProperties DEF StreamState
<1>7. x.num + Len(Head(in[p]).bytes) - rxBytesLeft[p] = lastByte[p].num
  BY <1>1, <1>5 DEF ReaderAt
<1>8. CASE rxBytesLeft[p] = 1
  <2>1. in'[p] = Tail(in[p]) /\ rxBytesLeft'[p] = 0
    BY <1>5, <1>8 DEF RxReceiveByte, LastByteOfPacket
  <2>2. z.num = lastByte'[p].num
    <3>1. z.num - 1 = lastByte[p].num
      BY <1>4, <1>6, <1>7, <1>8
    <3>. QED BY <1>3, <1>6, <3>1
  <2>3. ReaderAt(p, z)'
    BY <1>1, <1>4, <1>5, <2>1, <2>2 DEF ReaderAt
  <2>. QED BY <1>2, <1>4, <2>1, <2>3 DEF Stream
<1>9. CASE rxBytesLeft[p] # 1
  <2>1. in' = in /\ rxBytesLeft'[p] # 0
    BY <1>5, <1>9 DEF RxReceiveByte, LastByteOfPacket
  <2>2. x.num + Len(Head(in'[p]).bytes) - rxBytesLeft'[p] = lastByte'[p].num
    <3>. DEFINE l == Len(Head(in[p]).bytes)
    <3>1. /\ l \in Nat /\ Len(Head(in'[p]).bytes) = l
          /\ x.num + l - rxBytesLeft[p] = lastByte[p].num
      BY <1>6, <1>7, <2>1
    <3>. HIDE DEF l
    <3>2. x.num + l - (rxBytesLeft[p] - 1) = lastByte[p].num + 1
      <4>. DEFINE a == x.num
                  r == rxBytesLeft[p]
                  b == lastByte[p].num
      <4>1. a \in Nat /\ r \in Nat /\ b \in Nat /\ a + l - r = b /\ l \in Nat
        BY <1>3, <1>5, <1>6, <3>1
      <4>. HIDE DEF a, r, b
      <4>2. a + l - (r - 1) = b + 1
        BY <4>1
      <4>. QED BY <4>2 DEF a, r, b
    <3>. QED BY <1>3, <1>5, <3>1, <3>2
  <2>3. ReaderAt(p, x)'
    BY <1>1, <1>5, <2>1, <2>2 DEF ReaderAt
  <2>. QED BY <1>1, <1>2, <2>1, <2>3 DEF Stream
<1>. QED BY <1>8, <1>9

(* The link copies the packet at the head of n's queue to p. *)
LEMMA MoveStream ==
  ASSUME BufferInv, NEW n \in Node, NEW p \in Node, Stream(n, p), ~moved[n], out[n] # <<>>,
         in'[p] = Append(in[p], Head(out[n])), Unmoved(n)' = Tail(out[n]),
         UNCHANGED <<txVars, rxVars, appVars>>
  PROVE  Stream(n, p)'
<1>1. PICK x \in StreamState, m \in StreamState, y \in StreamState :
        /\ ReaderAt(p, x) /\ Chain(in[p], x, m)
        /\ Chain(Unmoved(n), m, y) /\ WriterAt(n, y)
  BY DEF Stream
<1>2. WriterAt(n, y)'
  BY <1>1 DEF WriterAt, txVars, appVars
<1>3. /\ in[p] \in Seq(Packet) /\ out[n] \in Seq(Packet) /\ Head(out[n]) \in Packet
      /\ Unmoved(n) = out[n] /\ PointerOK(p)
  BY NodeTyped, HeadTailProperties DEF BufferInv, Unmoved
<1>4. PICK z \in StreamState : Carries(Head(out[n]), m, z) /\ Chain(Tail(out[n]), z, y)
  BY <1>1, <1>3, ChainPop
<1>5. Chain(in'[p], x, z)
  BY <1>1, <1>3, <1>4, ChainPush
<1>6. ReaderAt(p, x)'
  <2>1. rxBytesLeft[p] # 0 => Head(in'[p]) = Head(in[p])
    BY <1>3, HeadTailAppend DEF PointerOK
  <2>. QED BY <1>1, <2>1 DEF ReaderAt, rxVars
<1>7. Chain(Unmoved(n)', z, y)
  BY <1>4
<1>. QED BY <1>2, <1>5, <1>6, <1>7 DEF Stream

(* n's link lets go of a packet that it has copied. *)
LEMMA ReleaseStream ==
  ASSUME BufferInv, NEW n \in Node, NEW p \in Node, Stream(n, p),
         Unmoved(n)' = Unmoved(n), UNCHANGED <<in[p], txVars, rxVars, appVars>>
  PROVE  Stream(n, p)'
<1>1. PICK x \in StreamState, m \in StreamState, y \in StreamState :
        /\ ReaderAt(p, x) /\ Chain(in[p], x, m)
        /\ Chain(Unmoved(n), m, y) /\ WriterAt(n, y)
  BY DEF Stream
<1>2. WriterAt(n, y)'
  BY <1>1 DEF WriterAt, txVars, appVars
<1>3. ReaderAt(p, x)' /\ Chain(in'[p], x, m)
  BY <1>1, ReaderSame DEF ReaderView, rxVars
<1>. QED BY <1>1, <1>2, <1>3 DEF Stream

LEMMA LinkStream ==
  ASSUME BufferInv, \A a \in Node : Stream(a, Link!Peer(a)), NEW k \in Node, LinkStep(k),
         NEW n \in Node
  PROVE  Stream(n, Link!Peer(n))'
<1>. DEFINE q == Link!Peer(k)
            p == Link!Peer(n)
<1>1. /\ q \in Node /\ q # k /\ Link!Peer(q) = k /\ (n = k \/ n = q)
      /\ p \in Node /\ UNCHANGED <<txVars, rxVars, appVars>> /\ Stream(n, p)
      /\ (n = k => p = q) /\ (n = q => p = k)
  BY PeerFacts DEF LinkStep
<1>2. /\ in \in [Node -> Seq(Packet)] /\ out \in [Node -> Seq(Packet)]
      /\ moved \in [Node -> BOOLEAN]
  BY DEF BufferInv, TypeOK
<1>3. CASE Link!Move(k)
  <2>1. /\ out[k] # <<>> /\ ~moved[k] /\ in' = [in EXCEPT ![q] = Append(@, Head(out[k]))]
        /\ moved' = [moved EXCEPT ![k] = TRUE] /\ out' = out
    BY <1>3 DEF Link!Move
  <2>. HIDE DEF p, q
  <2>2. CASE n = k
    <3>1. in'[p] = Append(in[p], Head(out[n])) /\ moved'[n] /\ out'[n] = out[n]
      BY <1>1, <1>2, <2>1, <2>2
    <3>2. Unmoved(n)' = Tail(out[n])
      BY <3>1 DEF Unmoved
    <3>3. Stream(n, p)'
      BY <1>1, <2>1, <2>2, <3>1, <3>2, MoveStream
    <3>. QED BY <3>3 DEF p
  <2>3. CASE n = q
    <3>1. in'[p] = in[p] /\ moved'[n] = moved[n] /\ out'[n] = out[n]
      BY <1>1, <1>2, <2>1, <2>3
    <3>2. Stream(n, p)'
      BY <1>1, <3>1, ReleaseStream DEF Unmoved
    <3>. QED BY <3>2 DEF p
  <2>. QED BY <1>1, <2>2, <2>3
<1>4. CASE Link!Release(k)
  <2>1. /\ moved[k] /\ out' = [out EXCEPT ![k] = Tail(@)] /\ in' = in
        /\ moved' = [moved EXCEPT ![k] = FALSE]
    BY <1>4 DEF Link!Release
  <2>. HIDE DEF p, q
  <2>2. Unmoved(n)' = Unmoved(n)
    BY <1>1, <1>2, <2>1 DEF Unmoved
  <2>3. Stream(n, p)'
    BY <1>1, <2>1, <2>2, ReleaseStream
  <2>. QED BY <2>3 DEF p
<1>5. CASE Link!ReleaseAndMove(k)
  <2>1. /\ moved[k] /\ out[q] # <<>> /\ ~moved[q]
        /\ out' = [out EXCEPT ![k] = Tail(@)]
        /\ moved' = [moved EXCEPT ![k] = FALSE, ![q] = TRUE]
        /\ in' = [in EXCEPT ![k] = Append(@, Head(out[q]))]
    BY <1>5 DEF Link!ReleaseAndMove
  <2>. HIDE DEF p, q
  <2>2. CASE n = k
    <3>1. out'[n] = Tail(out[n]) /\ ~moved'[n] /\ moved[n] /\ in'[p] = in[p]
      BY <1>1, <1>2, <2>1, <2>2
    <3>2. Stream(n, p)'
      BY <1>1, <3>1, ReleaseStream DEF Unmoved
    <3>. QED BY <3>2 DEF p
  <2>3. CASE n = q
    <3>1. /\ out'[n] = out[n] /\ moved'[n] /\ ~moved[n] /\ out[n] # <<>>
          /\ in'[p] = Append(in[p], Head(out[n]))
      BY <1>1, <1>2, <2>1, <2>3
    <3>2. Unmoved(n)' = Tail(out[n])
      BY <3>1 DEF Unmoved
    <3>3. Stream(n, p)'
      BY <1>1, <3>1, <3>2, MoveStream
    <3>. QED BY <3>3 DEF p
  <2>. QED BY <1>1, <2>2, <2>3
<1>. QED BY <1>3, <1>4, <1>5 DEF LinkStep

(* The first state is the one the program starts in. *)
LEMMA StreamInit == Init => StreamInv
<1>. SUFFICES ASSUME Init
              PROVE  StreamInv
  OBVIOUS
<1>. DEFINE x == [num |-> 0, signals |-> 0]
<1>1. x \in StreamState /\ Len(<<>>) = 0
  BY Sizes, EmptySeq DEF StreamState
<1>2. ASSUME NEW n \in Node, NEW p \in Node
      PROVE  Stream(n, p)
  <2>1. /\ out[n] = <<>> /\ in[p] = <<>> /\ ~moved[n] /\ txBytes[n] = <<>>
        /\ rxBytesLeft[p] = 0 /\ rxSignals[p] = 0 /\ lastByte[p].num = 0
        /\ nBytes[n] = 0 /\ ~sendSignalsSoon[n] /\ txSignals[n] = 0
    BY DEF Init, Link!Init, NoByte
  <2>2. ReaderAt(p, x)
    BY <2>1 DEF ReaderAt
  <2>3. WriterAt(n, x)
    BY <1>1, <2>1 DEF WriterAt
  <2>4. Chain(<<>>, x, x)
    BY <1>1, ChainEmpty
  <2>5. Chain(in[p], x, x) /\ Chain(Unmoved(n), x, x)
    BY <2>1, <2>4 DEF Unmoved
  <2>. QED BY <1>1, <2>2, <2>3, <2>5 DEF Stream
<1>3. ASSUME NEW n \in Node
      PROVE  boots[n] # 0
  <2>1. boots[n] = 1
    BY DEF Init
  <2>. QED BY <2>1
<1>. QED BY <1>2, <1>3, PeerFacts DEF StreamInv

LEMMA StreamStep == BufferInv /\ StreamInv /\ [Next]_vars => StreamInv'
<1>. SUFFICES ASSUME BufferInv, StreamInv, [Next]_vars
              PROVE  StreamInv'
  OBVIOUS
<1>1. /\ \A n \in Node : boots[n] # 0 /\ boots[n] \in Nat
      /\ boots \in [Node -> Nat]
  BY NodeTyped DEF StreamInv, BufferInv, TypeOK
<1>2. ASSUME NEW k \in Node, Restart(k)
      PROVE  StreamInv'
  <2>1. boots' = [boots EXCEPT ![k] = @ + 1]
    BY <1>2 DEF Restart
  <2>2. ASSUME NEW n \in Node
        PROVE  boots'[n] # 0
    BY <1>1, <2>1
  <2>3. boots'[k] # 1
    BY <1>1, <2>1
  <2>. QED BY <2>2, <2>3 DEF StreamInv, NoRestarts
<1>3. ASSUME \A k \in Node : ~Restart(k), NoRestarts'
      PROVE  /\ boots' = boots
             /\ \A n \in Node : /\ Stream(n, Link!Peer(n)) /\ Link!Peer(n) \in Node
                                /\ n # Link!Peer(n) /\ Link!Peer(Link!Peer(n)) = n
  <2>1. boots' = boots
    BY <1>3 DEF Next, vars, appVars, TxService, TxSendByte, TxControlSignals,
       RxAvailable, RxControlSignals, RxReceiveByte, LinkStep, ResetArrives
  <2>2. NoRestarts
    BY <1>3, <2>1 DEF NoRestarts
  <2>. QED BY <2>1, <2>2, PeerFacts DEF StreamInv
<1>4. ASSUME \A k \in Node : ~Restart(k), NoRestarts', NEW n \in Node
      PROVE  Stream(n, Link!Peer(n))'
  <2>. DEFINE p == Link!Peer(n)
  <2>1. Stream(n, p) /\ p \in Node /\ n # p /\ \A k \in Node : k = n \/ k = p
    BY <1>3, <1>4, PeerFacts
  <2>. HIDE DEF p
  <2>2. /\ in \in [Node -> Seq(Packet)] /\ txSignals \in [Node -> Signals]
        /\ out \in [Node -> Seq(Packet)] /\ txBytes \in [Node -> Seq(Byte)]
        /\ sendSignalsSoon \in [Node -> BOOLEAN] /\ nBytes \in [Node -> Nat]
        /\ rxBytesLeft \in [Node -> 0 .. RADIO_LINK_PAYLOAD_SIZE]
        /\ rxSignals \in [Node -> Signals] /\ lastByte \in [Node -> Byte]
    BY DEF BufferInv, TypeOK
  <2>3. ASSUME NEW k \in Node, NEW signals \in Signals, NEW soon \in BOOLEAN,
               Service(k, signals, soon),
               \/ soon
               \/ ~sendSignalsSoon[k] /\ signals = txSignals[k],
               \/ txSignals' = [txSignals EXCEPT ![k] = signals]
               \/ txSignals' = txSignals /\ signals = txSignals[k],
               UNCHANGED <<moved, in, rxVars, nBytes>>
        PROVE  Stream(n, p)'
    <3>1. CASE k = n
      <4>1. txSignals'[n] = signals /\ UNCHANGED <<ReaderView(p), moved, nBytes>>
        BY <2>2, <2>3, <3>1 DEF ReaderView, rxVars
      <4>2. Service(n, signals, soon) /\ (~soon => ~sendSignalsSoon[n] /\ signals = txSignals[n])
        BY <2>3, <3>1
      <4>. QED BY <2>1, <4>1, <4>2, ServiceStream
    <3>2. CASE k = p
      <4>1. /\ out'[n] = out[n] /\ txBytes'[n] = txBytes[n]
            /\ sendSignalsSoon'[n] = sendSignalsSoon[n]
        <5>1. k \in Node /\ Service(k, signals, soon) /\ n # k
          BY <2>1, <2>3, <3>2
        <5>. DEFINE new == Append(Flushed(k), SignalsPacket(signals))
        <5>. HIDE DEF new
        <5>2. CASE /\ out' = [out EXCEPT ![k] = new]
                   /\ txBytes' = [txBytes EXCEPT ![k] = <<>>]
                   /\ sendSignalsSoon' = [sendSignalsSoon EXCEPT ![k] = FALSE]
          BY <2>2, <5>1, <5>2
        <5>3. CASE /\ out' = [out EXCEPT ![k] = Flushed(k)]
                   /\ txBytes' = [txBytes EXCEPT ![k] = <<>>]
                   /\ \/ sendSignalsSoon' = [sendSignalsSoon EXCEPT ![k] = TRUE]
                      \/ sendSignalsSoon' = sendSignalsSoon /\ ~soon
          BY <2>2, <5>1, <5>3
        <5>4. CASE UNCHANGED <<out, txBytes, sendSignalsSoon>>
          BY <5>4
        <5>. QED BY <5>1, <5>2, <5>3, <5>4, ServiceForms DEF new
      <4>2. txSignals'[n] = txSignals[n]
        BY <2>1, <2>2, <2>3, <3>2
      <4>3. UNCHANGED <<ReaderView(p), WriterView(n)>>
        BY <2>3, <4>1, <4>2 DEF ReaderView, WriterView, rxVars
      <4>. QED BY <2>1, <4>3, StreamSame
    <3>. QED BY <2>1, <3>1, <3>2
  <2>4. ASSUME NEW k \in Node, TxService(k)
        PROVE  Stream(n, p)'
    <3>1. /\ Service(k, txSignals[k], sendSignalsSoon[k]) /\ txSignals' = txSignals
          /\ UNCHANGED <<moved, in, rxVars, nBytes>>
      BY <2>4 DEF TxService, appVars
    <3>2. txSignals[k] \in Signals /\ sendSignalsSoon[k] \in BOOLEAN
      BY <2>2
    <3>. QED BY <2>3, <3>1, <3>2
  <2>5. ASSUME NEW k \in Node, NEW s \in Signals, TxControlSignals(k, s)
        PROVE  Stream(n, p)'
    <3>1. /\ Service(k, s, TRUE) /\ txSignals' = [txSignals EXCEPT ![k] = s]
          /\ UNCHANGED <<moved, in, rxVars, nBytes>>
      BY <2>5 DEF TxControlSignals
    <3>. QED BY <2>3, <3>1
  <2>6. ASSUME NEW k \in Node, TxSendByte(k)
        PROVE  Stream(n, p)'
    <3>1. CASE k = n
      BY <2>1, <2>6, <3>1, SendByteStream
    <3>2. CASE k = p
      <4>1. UNCHANGED <<moved, in, rxVars, txSignals, sendSignalsSoon>>
        BY <2>6 DEF TxSendByte
      <4>2. out'[n] = out[n] /\ txBytes'[n] = txBytes[n] /\ nBytes'[n] = nBytes[n]
        BY <2>1, <2>2, <2>6, <3>2 DEF TxSendByte
      <4>3. UNCHANGED <<ReaderView(p), WriterView(n)>>
        BY <4>1, <4>2 DEF ReaderView, WriterView, rxVars
      <4>. QED BY <2>1, <4>3, StreamSame
    <3>. QED BY <2>1, <3>1, <3>2
  <2>7. ASSUME NEW k \in Node, RxAvailable(k) \/ RxControlSignals(k)
        PROVE  Stream(n, p)'
    <3>1. /\ ReceiveMorePackets(k)
          /\ UNCHANGED <<out, moved, txVars, lastByte, appVars>>
      BY <2>7 DEF RxAvailable, RxControlSignals
    <3>2. UNCHANGED WriterView(n)
      BY <3>1 DEF WriterView, txVars, appVars
    <3>3. CASE k = p
      BY <2>1, <3>1, <3>2, <3>3, ReceiveStream
    <3>4. CASE k = n
      <4>1. in'[p] = in[p] /\ rxBytesLeft'[p] = rxBytesLeft[p] /\ rxSignals'[p] = rxSignals[p]
        <5>1. CASE UNCHANGED <<in, rxBytesLeft, rxSignals>>
          BY <5>1
        <5>2. ASSUME NEW read, NEW left, ReadsOn(k, read, left)
              PROVE  /\ in'[p] = in[p] /\ rxBytesLeft'[p] = rxBytesLeft[p]
                     /\ rxSignals'[p] = rxSignals[p]
          <6>1. k # p
            BY <2>1, <3>4
          <6>. QED BY <2>1, <2>2, <5>2, <6>1 DEF ReadsOn
        <5>. QED BY <3>1, <5>1, <5>2, ReceiveForms
      <4>2. UNCHANGED ReaderView(p)
        BY <3>1, <4>1 DEF ReaderView
      <4>. QED BY <2>1, <3>2, <4>2, StreamSame
    <3>. QED BY <2>1, <3>3, <3>4
  <2>8. ASSUME NEW k \in Node, RxReceiveByte(k)
        PROVE  Stream(n, p)'
    <3>1. CASE k = p
      BY <2>1, <2>8, <3>1, ReceiveByteStream
    <3>2. CASE k = n
      <4>1. /\ in'[p] = in[p] /\ rxBytesLeft'[p] = rxBytesLeft[p]
            /\ lastByte'[p] = lastByte[p]
        BY <2>1, <2>2, <2>8, <3>2 DEF RxReceiveByte
      <4>2. UNCHANGED <<ReaderView(p), WriterView(n)>>
        BY <2>8, <4>1 DEF RxReceiveByte, ReaderView, WriterView, txVars, appVars
      <4>. QED BY <2>1, <4>2, StreamSame
    <3>. QED BY <2>1, <3>1, <3>2
  <2>9. ASSUME NEW k \in Node, LinkStep(k)
        PROVE  Stream(n, p)'
    <3>1. \A a \in Node : Stream(a, Link!Peer(a))
      BY <1>3, <1>4
    <3>. QED BY <2>9, <3>1, LinkStream DEF p
  <2>10. ASSUME NEW k \in Node, ResetArrives(k)
         PROVE  Stream(n, p)'
    <3>1. UNCHANGED <<ReaderView(p), WriterView(n)>>
      BY <2>10 DEF ResetArrives, ReaderView, WriterView, rxVars, appVars
    <3>. QED BY <2>1, <3>1, StreamSame
  <2>11. ASSUME UNCHANGED vars
         PROVE  Stream(n, p)'
    <3>1. UNCHANGED <<ReaderView(p), WriterView(n)>>
      BY <2>11 DEF vars, linkVars, txVars, rxVars, appVars, ReaderView, WriterView
    <3>. QED BY <2>1, <3>1, StreamSame
  <2>12. Stream(n, p)'
    BY <1>4, <2>4, <2>5, <2>6, <2>7, <2>8, <2>9, <2>10, <2>11 DEF Next
  <2>. QED BY <2>12 DEF p
<1>5. CASE \A k \in Node : ~Restart(k)
  <2>1. CASE NoRestarts'
    <3>1. \A n \in Node : boots'[n] # 0
      BY <1>1, <1>3, <1>5, <2>1
    <3>. QED BY <1>4, <1>5, <2>1, <3>1 DEF StreamInv
  <2>2. CASE ~NoRestarts'
    <3>1. boots' = boots
      BY <1>5 DEF Next, vars, appVars, TxService, TxSendByte, TxControlSignals,
         RxAvailable, RxControlSignals, RxReceiveByte, LinkStep, ResetArrives
    <3>. QED BY <1>1, <2>2, <3>1 DEF StreamInv
  <2>. QED BY <2>1, <2>2
<1>. QED BY <1>2, <1>5

(* What is on its way from one Wixel to the other is the stream.             *)
THEOREM StreamInvariant == Spec => []StreamInv
BY BufferInit, BufferStep, StreamInit, StreamStep, PTL DEF Spec

LEMMA ReadStep ==
  ASSUME BufferInv, StreamInv, [Next]_vars, NoRestarts, NEW p \in Node, Reads(p)
  PROVE  /\ lastByte'[p].num = lastByte[p].num + 1
         /\ EnforceOrdering => lastByte'[p].sentUnder = lastRxSignals[p]
<1>. DEFINE n == Link!Peer(p)
<1>1. /\ n \in Node /\ Link!Peer(n) = p /\ PointerOK(p) /\ TypeOK /\ Stream(n, p)
  BY PeerFacts DEF BufferInv, StreamInv
<1>2. /\ rxBytesLeft \in [Node -> 0 .. RADIO_LINK_PAYLOAD_SIZE]
      /\ rxBytesLeft[p] \in Nat /\ boots \in [Node -> Nat]
  <2>1. rxBytesLeft \in [Node -> 0 .. RADIO_LINK_PAYLOAD_SIZE] /\ boots \in [Node -> Nat]
    BY <1>1 DEF TypeOK
  <2>. QED BY <2>1, Sizes
<1>3. ~UNCHANGED rxBytesLeft
  BY <1>2 DEF Reads
<1>4. ASSUME NEW k \in Node, Restart(k)
      PROVE  FALSE
  <2>1. CASE k = p
    <3>1. boots'[p] = boots[p] + 1
      BY <1>2, <1>4, <2>1 DEF Restart
    <3>. QED BY <1>2, <3>1 DEF Reads
  <2>2. CASE k # p
    <3>1. rxBytesLeft'[p] = rxBytesLeft[p]
      BY <1>2, <1>4, <2>2 DEF Restart
    <3>. QED BY <1>2, <3>1 DEF Reads
  <2>. QED BY <2>1, <2>2
<1>5. ASSUME NEW k \in Node, ReceiveMorePackets(k)
      PROVE  FALSE
  <2>1. PICK read \in 0 .. Len(in[k]), left \in 0 .. RADIO_LINK_PAYLOAD_SIZE :
          ReadsOn(k, read, left)
    BY <1>3, <1>5, ReceiveForms
  <2>2. rxBytesLeft'[p] >= rxBytesLeft[p]
    <3>1. rxBytesLeft' = [rxBytesLeft EXCEPT ![k] = left] /\ rxBytesLeft[k] = 0
      BY <2>1 DEF ReadsOn
    <3>2. left \in Nat
      BY Sizes
    <3>3. CASE k = p
      <4>1. rxBytesLeft'[p] = left /\ rxBytesLeft[p] = 0
        BY <1>2, <3>1, <3>3
      <4>. QED BY <3>2, <4>1
    <3>4. CASE k # p
      <4>1. rxBytesLeft'[p] = rxBytesLeft[p]
        BY <1>2, <3>1, <3>4
      <4>. QED BY <1>2, <4>1
    <3>. QED BY <3>3, <3>4
  <2>3. rxBytesLeft'[p] < rxBytesLeft[p]
    BY DEF Reads
  <2>4. rxBytesLeft'[p] \in Nat
    <3>1. rxBytesLeft'[p] = rxBytesLeft[p] \/ rxBytesLeft'[p] = left
      BY <1>2, <2>1 DEF ReadsOn
    <3>. QED BY <1>2, <3>1, Sizes
  <2>. QED BY <1>2, <2>2, <2>3, <2>4
<1>6. PICK k \in Node : RxReceiveByte(k)
  BY <1>3, <1>4, <1>5 DEF Next, vars, rxVars, TxService, TxSendByte, TxControlSignals,
     RxAvailable, RxControlSignals, LinkStep, ResetArrives
<1>7. k = p
  <2>1. rxBytesLeft' = [rxBytesLeft EXCEPT ![k] = @ - 1]
    BY <1>6 DEF RxReceiveByte
  <2>2. k # p => rxBytesLeft'[p] = rxBytesLeft[p]
    BY <1>2, <2>1
  <2>. QED BY <1>2, <2>2 DEF Reads
<1>8. RxReceiveByte(p)
  BY <1>6, <1>7
<1>9. PICK x \in StreamState, m \in StreamState : ReaderAt(p, x) /\ Chain(in[p], x, m)
  BY <1>1 DEF Stream
<1>10. /\ lastByte'[p] = [num |-> lastByte[p].num + 1, sentUnder |-> x.signals]
  BY <1>8, <1>9, ByteRead
<1>11. EnforceOrdering => x.signals = lastRxSignals[p]
  BY <1>1, <1>8, <1>9 DEF ReaderAt, PointerOK, RxReceiveByte
<1>. QED BY <1>10, <1>11

(* A program reads every byte, once and in order, each under the control     *)
(* signals that were set when it was sent, as long as no Wixel restarts: for *)
(* every size of the packets and of the queues, and every number of bytes    *)
(* and of changes of the signals.                                            *)
THEOREM StreamKept == Spec => StreamIsKept
<1>1. BufferInv /\ StreamInv /\ [Next]_vars
        => [NoRestarts => ReadsNextByte /\ ReadsUnderItsSignals]_vars
  BY ReadStep DEF ReadsNextByte, ReadsUnderItsSignals
<1>. QED BY <1>1, BuffersCorrect, StreamInvariant, PTL DEF Spec, StreamIsKept

=============================================================================

-------------------------- MODULE PeripheralProofs --------------------------
(***************************************************************************)
(* What holds of the libraries and programs that stand alone, for every    *)
(* number of servos, size of a buffer, address of a device and order of    *)
(* the tags.  Each component has an inductive invariant of its own.        *)
(***************************************************************************)
EXTENDS Peripherals, SequenceTheorems, WellFoundedInduction, TLAPS

(***************************************************************************)
(* Each component takes a step of its own, or none.                        *)
(***************************************************************************)

LEMMA StepsAreOfTheirComponent ==
  ASSUME [PeripheralsNext]_peripheralVars
  PROVE  /\ [Spi!Next]_(Spi!vars) /\ [Servos!Next]_(Servos!vars)
         /\ [Container!Next]_(Container!vars) /\ [Wixel!Next]_(Wixel!vars)
         /\ [OneWireBus!Next]_(OneWireBus!vars) /\ [TagRobot!Next]_(TagRobot!vars)
<1>1. UNCHANGED spiVars => UNCHANGED Spi!vars
  BY DEF spiVars, Spi!vars, Spi!bufferVars
<1>2. UNCHANGED servoVars => UNCHANGED Servos!vars
  BY DEF servoVars, Servos!vars, Servos!dataVars, Servos!timerVars, Servos!ghostVars
<1>3. UNCHANGED containerVars => UNCHANGED Container!vars
  BY DEF containerVars, Container!vars
<1>4. UNCHANGED boardVars => UNCHANGED Wixel!vars
  BY DEF boardVars, Wixel!vars, Wixel!clockVars, Wixel!vbusVars, Wixel!ledVars
<1>5. UNCHANGED oneWireVars => UNCHANGED OneWireBus!vars
  BY DEF oneWireVars, OneWireBus!vars
<1>6. UNCHANGED robotVars => UNCHANGED TagRobot!vars
  BY DEF robotVars, TagRobot!vars, TagRobot!tagVars, TagRobot!robotVars, TagRobot!cameraVars,
     TagRobot!pathVars, TagRobot!driveVars
<1>7. CASE UNCHANGED peripheralVars
  BY <1>1, <1>2, <1>3, <1>4, <1>5, <1>6, <1>7 DEF peripheralVars
<1>8. CASE PeripheralsNext
  BY <1>1, <1>2, <1>3, <1>4, <1>5, <1>6, <1>8
     DEF PeripheralsNext, SpiStep, ServoStep, ContainerStep, BoardStep, OneWireStep, RobotStep
<1> QED BY <1>7, <1>8

-----------------------------------------------------------------------------
(***************************************************************************)
(* The remainder of a division by the size of a circle.                    *)
(***************************************************************************)

LEMMA TimesGrows ==
  ASSUME NEW u \in Nat \ {0}, NEW k \in Int, k >= 1
  PROVE  u * k >= u
<1>1. k - 1 \in Nat
  OBVIOUS
<1>2. u * (k - 1) >= 0
  BY <1>1
<1>3. u * k = u * (k - 1) + u
  OBVIOUS
<1> QED BY <1>2, <1>3

\* A division with remainder is the only one.
LEMMA RemainderIsUnique ==
  ASSUME NEW u \in Nat \ {0}, NEW n \in Int, NEW q \in Int, NEW r \in 0 .. u - 1, n = u * q + r
  PROVE  n % u = r
<1> DEFINE k == n \div u
           m == n % u
<1>1. k \in Int /\ m \in 0 .. u - 1 /\ n = u * k + m
  OBVIOUS
<1> HIDE DEF k, m
<1>2. u * (q - k) = m - r
  BY <1>1
<1>3. ~(q - k >= 1)
  BY <1>1, <1>2, TimesGrows
<1>4. ~(k - q >= 1)
  <2>1. u * (k - q) = r - m
    BY <1>1
  <2> QED BY <1>1, <2>1, TimesGrows
<1>5. q = k
  BY <1>1, <1>3, <1>4
<1> QED BY <1>1, <1>5 DEF m

LEMMA RemainderOnce ==
  ASSUME NEW u \in Nat \ {0}, NEW n \in Int, n >= 0, n < 2 * u
  PROVE  n % u = IF n < u THEN n ELSE n - u
<1>1. CASE n < u
  <2>1. n = u * 0 + n /\ n \in 0 .. u - 1
    BY <1>1
  <2> QED BY <1>1, <2>1, RemainderIsUnique
<1>2. CASE n >= u
  <2>1. n = u * 1 + (n - u) /\ n - u \in 0 .. u - 1
    BY <1>2
  <2>2. n % u = n - u
    BY <2>1, RemainderIsUnique
  <2> QED BY <1>2, <2>2
<1> QED BY <1>1, <1>2

LEMMA RemainderOfNext ==
  ASSUME NEW u \in Nat \ {0}, NEW n \in Nat
  PROVE  (n + 1) % u = IF n % u = u - 1 THEN 0 ELSE (n % u) + 1
<1> DEFINE k == n \div u
           m == n % u
<1>1. k \in Int /\ m \in 0 .. u - 1 /\ n = u * k + m
  OBVIOUS
<1> HIDE DEF k, m
<1>2. CASE m = u - 1
  <2>1. n + 1 = u * (k + 1) + 0
    BY <1>1, <1>2
  <2>2. (n + 1) % u = 0
    BY <1>1, <2>1, RemainderIsUnique
  <2> QED BY <1>2, <2>2 DEF m
<1>3. CASE m # u - 1
  <2>1. n + 1 = u * k + (m + 1) /\ m + 1 \in 0 .. u - 1
    BY <1>1, <1>3
  <2>2. (n + 1) % u = m + 1
    BY <1>1, <2>1, RemainderIsUnique
  <2> QED BY <1>3, <2>2 DEF m
<1> QED BY <1>2, <1>3

LEMMA LeastExists ==
  ASSUME NEW S, S \subseteq Nat, S # {}
  PROVE  \E n \in S : \A m \in S : n <= m
<1> DEFINE Less == {p \in Nat \X Nat : p[1] < p[2]}
<1>1. IsWellFoundedOn(Less, Nat)
  BY NatLessThanWellFounded DEF OpToRel
<1> HIDE DEF Less
<1>2. PICK n \in S : \A m \in S : <<m, n>> \notin Less
  BY <1>1, WFMin, Zenon
<1>3. ASSUME NEW m \in S PROVE n <= m
  <2>1. <<m, n>> \notin Less
    BY <1>2
  <2>2. ~(m < n)
    BY <2>1 DEF Less
  <2> QED BY <2>2
<1> QED BY <1>3

LEMMA RemainderOfSum ==
  ASSUME NEW u \in Nat \ {0}, NEW a \in Int, NEW b \in Int
  PROVE  ((a % u) + b) % u = (a + b) % u
<1> DEFINE q == a \div u
           m == a % u
<1>1. q \in Int /\ m \in Int /\ a = u * q + m
  OBVIOUS
<1> HIDE DEF q, m
<1> DEFINE n == m + b
           k == n \div u
           r == n % u
<1>2. n \in Int
  BY <1>1
<1> HIDE DEF n
<1>3. k \in Int /\ r \in 0 .. u - 1 /\ n = u * k + r
  BY <1>2
<1> HIDE DEF k, r
<1>4. a + b = u * (q + k) + r
  <2>1. a + b = u * q + n
    BY <1>1 DEF n
  <2>2. u * (q + k) = u * q + u * k
    BY <1>1, <1>3
  <2> QED BY <1>1, <1>3, <2>1, <2>2
<1>5. (a + b) % u = r
  <2>1. a + b \in Int /\ q + k \in Int /\ r \in 0 .. u - 1
    BY <1>1, <1>3
  <2> QED BY <1>4, <2>1, RemainderIsUnique, Zenon
<1> QED BY <1>5 DEF r, n, m

LEMMA StepsLeaveSlot ==
  ASSUME NEW u \in Nat \ {0}, NEW m \in 0 .. u - 1, NEW k \in 1 .. u - 1
  PROVE  (m + k) % u # m
<1> DEFINE n == m + k
<1>1. n \in Int /\ n >= 0 /\ n < 2 * u
  OBVIOUS
<1> HIDE DEF n
<1>2. n % u = IF n < u THEN n ELSE n - u
  BY <1>1, RemainderOnce
<1>3. n % u # m
  <2> DEFINE r == n % u
  <2>1. r = IF n < u THEN n ELSE n - u
    BY <1>2
  <2> HIDE DEF r
  <2>2. r # m
    BY <1>1, <2>1 DEF n
  <2> QED BY <2>2 DEF r
<1> QED BY <1>3 DEF n

\* Slots of a circle less than a round apart are different.
LEMMA SlotsDiffer ==
  ASSUME NEW u \in Nat \ {0}, NEW a \in Int, NEW k \in 1 .. u - 1
  PROVE  (a + k) % u # a % u
<1>1. a % u \in 0 .. u - 1 /\ k \in Int
  OBVIOUS
<1>2. ((a % u) + k) % u # a % u
  BY <1>1, StepsLeaveSlot, Zenon
<1>3. ((a % u) + k) % u = (a + k) % u
  BY <1>1, RemainderOfSum, Zenon
<1> QED BY <1>2, <1>3, Zenon

LEMMA RemainderOfRound ==
  ASSUME NEW u \in Nat \ {0}, NEW a \in 0 .. u - 1
  PROVE  a % u = a /\ (a + u) % u = a
<1>1. a \in Int /\ a = u * 0 + a /\ a + u \in Int /\ a + u = u * 1 + a
  OBVIOUS
<1> QED BY <1>1, RemainderIsUnique

\* Places of a circle, from one on: the distance to the other is the number of
\* steps that lead there.
LEMMA DistanceBack ==
  ASSUME NEW u \in Nat \ {0}, NEW a \in 0 .. u - 1, NEW k \in 0 .. u - 1
  PROVE  (((a + k) % u) - a + u) % u = k
<1> DEFINE m == (a + k) % u
<1>1. m = IF a + k < u THEN a + k ELSE a + k - u
  <2> DEFINE n == a + k
  <2>1. n \in Int /\ n >= 0 /\ n < 2 * u
    OBVIOUS
  <2> HIDE DEF n
  <2>2. n % u = IF n < u THEN n ELSE n - u
    BY <2>1, RemainderOnce
  <2> QED BY <2>2 DEF n
<1> HIDE DEF m
<1>2. m - a + u = k + u \/ m - a + u = k
  BY <1>1
<1>3. k % u = k /\ (k + u) % u = k
  BY RemainderOfRound
<1> QED BY <1>2, <1>3 DEF m

-----------------------------------------------------------------------------
(* spi_master *)

\* How many bytes of the exchange the program, and the slave, have.
Answered == Len(spiTxBuffer) - bytesLeft
Taken == IF URXNIF THEN Answered + 1 ELSE Answered

Replies == {Spi!Reply(n) : n \in Nat}

SpiTypes ==
  /\ spiPc \in {"main", "sendByte", "lowByte", "highByte", "unmask"}
  /\ URXNIE \in BOOLEAN /\ URXNIF \in BOOLEAN
  /\ spiTxBuffer \in Seq(TxBytes) /\ spiSlave \in Seq(TxBytes)
  /\ spiRxBuffer \in Seq(Replies)
  /\ bytesLeft \in Nat /\ bytesLeft <= Len(spiTxBuffer) /\ first \in Nat

\* The slave has the bytes of the exchange as far as it took them, and the
\* program's buffer the replies as far as the interrupt came.
SpiStreams ==
  /\ Len(spiSlave) = first + Taken
  /\ \A i \in 1 .. Taken : spiSlave[first + i] = spiTxBuffer[i]
  /\ Len(spiRxBuffer) = Answered
  /\ \A i \in 1 .. Answered : spiRxBuffer[i] = Spi!Reply(first + i)

\* The next byte is on the wire; nothing is when none is left.
SpiWire ==
  /\ bytesLeft = 0 => UNDBUF = <<>> /\ URXNIF = FALSE /\ URXNIE = FALSE
  /\ bytesLeft > 0 => txPointer = Answered + 1 /\ UNDBUF = <<spiTxBuffer[txPointer]>>

\* The interrupt is enabled as long as bytes are left, but not while the
\* program reads how many.
SpiProgram ==
  /\ spiPc \in {"main", "sendByte"} /\ bytesLeft > 0 => URXNIE
  /\ spiPc \in {"lowByte", "highByte", "unmask"} => ~URXNIE
  /\ spiPc = "highByte" => bytes = bytesLeft % SpiUINT8
  /\ spiPc = "unmask" => bytes = bytesLeft

SpiInv == SpiTypes /\ SpiStreams /\ SpiWire /\ SpiProgram

LEMMA SpiTyped ==
  ASSUME SpiInv
  PROVE  /\ bytesLeft \in Nat /\ first \in Nat
         /\ spiTxBuffer \in Seq(TxBytes) /\ spiSlave \in Seq(TxBytes) /\ spiRxBuffer \in Seq(Replies)
         /\ Len(spiTxBuffer) \in Nat /\ Len(spiSlave) \in Nat /\ bytesLeft <= Len(spiTxBuffer)
<1>1. SpiTypes
  BY DEF SpiInv
<1>2. bytesLeft \in Nat /\ first \in Nat /\ bytesLeft <= Len(spiTxBuffer)
  BY <1>1 DEF SpiTypes
<1>3. spiTxBuffer \in Seq(TxBytes) /\ spiSlave \in Seq(TxBytes) /\ spiRxBuffer \in Seq(Replies)
  BY <1>1 DEF SpiTypes
<1> QED BY <1>2, <1>3

LEMMA SpiInvInit == Spi!Init => SpiInv
<1> SUFFICES ASSUME Spi!Init PROVE SpiInv
  OBVIOUS
<1>1. URXNIE = FALSE /\ URXNIF = FALSE /\ spiPc = "main"
  BY Zenon DEF Spi!Init
<1>2. /\ spiTxBuffer = <<>> /\ spiSlave = <<>> /\ spiRxBuffer = <<>>
      /\ bytesLeft = 0 /\ first = 0 /\ UNDBUF = <<>>
  BY DEF Spi!Init
<1>3. SpiTypes
  <2>1. Len(<<>>) = 0 /\ <<>> \in Seq(TxBytes) /\ <<>> \in Seq(Replies)
    OBVIOUS
  <2>2. /\ spiTxBuffer \in Seq(TxBytes) /\ spiSlave \in Seq(TxBytes) /\ spiRxBuffer \in Seq(Replies)
        /\ Len(spiTxBuffer) = 0
    BY <1>2, <2>1
  <2>3. URXNIE \in BOOLEAN /\ URXNIF \in BOOLEAN
    BY <1>1
  <2>4. bytesLeft \in Nat /\ first \in Nat /\ bytesLeft <= Len(spiTxBuffer)
    BY <1>2, <2>2
  <2> QED BY <1>1, <2>2, <2>3, <2>4 DEF SpiTypes
<1>4. Answered = 0 /\ Taken = 0
  BY <1>1, <1>2 DEF Answered, Taken
<1>5. SpiStreams
  BY <1>2, <1>4 DEF SpiStreams
<1>6. SpiWire /\ SpiProgram
  BY <1>1, <1>2 DEF SpiWire, SpiProgram
<1> QED BY <1>3, <1>5, <1>6 DEF SpiInv

LEMMA ExchangeKeepsSpiInv ==
  ASSUME SpiInv, NEW buffer \in Seq(TxBytes), Len(buffer) > 0, Spi!Exchange(buffer),
         spiPc = "main", ~URXNIE, spiPc' \in {"main", "sendByte"},
         UNCHANGED <<URXNIF, spiSlave>>
  PROVE  SpiInv'
<1>1. bytesLeft = 0
  BY SpiTyped DEF SpiInv, SpiProgram
<1>2. URXNIF' = FALSE
  BY <1>1 DEF SpiInv, SpiWire
<1>3. /\ spiTxBuffer' = buffer /\ txPointer' = 1 /\ spiRxBuffer' = <<>> /\ bytesLeft' = Len(buffer)
      /\ UNDBUF' = <<buffer[1]>> /\ first' = Len(spiSlave) /\ spiSlave' = spiSlave
  BY DEF Spi!Exchange
<1>4. URXNIE' = TRUE
  BY Zenon DEF Spi!Exchange
<1>5. Len(buffer) \in Nat /\ spiSlave \in Seq(TxBytes) /\ Len(spiSlave) \in Nat
  BY SpiTyped
<1>6. Answered' = 0 /\ Taken' = 0
  BY <1>2, <1>3, <1>5 DEF Answered, Taken
<1>7. SpiTypes'
  <2>1. spiTxBuffer' \in Seq(TxBytes) /\ spiSlave' \in Seq(TxBytes) /\ spiRxBuffer' \in Seq(Replies)
    BY <1>3, <1>5
  <2>2. bytesLeft' \in Nat /\ first' \in Nat /\ bytesLeft' <= Len(spiTxBuffer')
    BY <1>3, <1>5
  <2> QED BY <1>2, <1>4, <2>1, <2>2 DEF SpiTypes
<1>8. SpiStreams'
  <2>1. Len(spiRxBuffer') = 0 /\ Len(spiSlave') = first'
    BY <1>3
  <2> QED BY <1>5, <1>6, <2>1, <1>3 DEF SpiStreams
<1>9. SpiWire'
  <2>1. bytesLeft' > 0 /\ bytesLeft' \in Nat
    BY <1>3, <1>5
  <2> QED BY <1>3, <1>6, <2>1 DEF SpiWire
<1>10. SpiProgram'
  BY <1>4 DEF SpiProgram
<1> QED BY <1>7, <1>8, <1>9, <1>10 DEF SpiInv

LEMMA ReadingKeepsSpiInv ==
  ASSUME SpiInv, Spi!ReadsBytesLeft
  PROVE  SpiInv'
<1> USE SpiAssumption
<1>1. UNCHANGED <<spiTxBuffer, txPointer, spiRxBuffer, bytesLeft, URXNIF, UNDBUF, spiSlave, first>>
  BY DEF Spi!ReadsBytesLeft, Spi!bufferVars
<1>2. UNCHANGED <<Answered, Taken>>
  BY <1>1 DEF Answered, Taken
<1>3. SpiStreams'
  BY <1>1, <1>2 DEF SpiInv, SpiStreams
<1>4. bytesLeft \in Nat
  BY SpiTyped
<1> SUFFICES /\ spiPc' \in {"main", "lowByte", "highByte", "unmask"} /\ URXNIE' \in BOOLEAN
             /\ bytesLeft = 0 => URXNIE' = FALSE
             /\ SpiProgram'
  <2>1. ASSUME spiPc' \in {"main", "lowByte", "highByte", "unmask"}, URXNIE' \in BOOLEAN
        PROVE  SpiTypes'
    BY <1>1, <2>1 DEF SpiInv, SpiTypes
  <2>2. ASSUME bytesLeft = 0 => URXNIE' = FALSE
        PROVE  SpiWire'
    BY <1>1, <1>2, <2>2 DEF SpiInv, SpiWire
  <2> QED BY <1>3, <2>1, <2>2 DEF SpiInv
<1>5. CASE spiPc = "main" /\ URXNIE' = Spi!MaskOnRead /\ spiPc' = "lowByte"
  <2>1. URXNIE' = FALSE
    BY <1>5 DEF Spi!MaskOnRead
  <2> QED BY <1>5, <2>1 DEF SpiProgram
<1>6. CASE spiPc = "lowByte" /\ bytes' = bytesLeft % SpiUINT8 /\ spiPc' = "highByte" /\ UNCHANGED URXNIE
  <2>1. URXNIE' = FALSE
    BY <1>6 DEF SpiInv, SpiTypes, SpiProgram
  <2> QED BY <1>1, <1>6, <2>1 DEF SpiProgram
<1>7. CASE spiPc = "highByte" /\ bytes' = bytes + SpiUINT8 * (bytesLeft \div SpiUINT8)
           /\ spiPc' = "unmask" /\ UNCHANGED URXNIE
  <2>1. bytesLeft = SpiUINT8 * (bytesLeft \div SpiUINT8) + (bytesLeft % SpiUINT8)
    BY <1>4
  <2>2. bytes = bytesLeft % SpiUINT8
    BY <1>7 DEF SpiInv, SpiProgram
  <2>3. bytes' = bytesLeft
    <3>1. bytes' = (bytesLeft % SpiUINT8) + SpiUINT8 * (bytesLeft \div SpiUINT8)
      BY <1>7, <2>2
    <3> DEFINE q == SpiUINT8 * (bytesLeft \div SpiUINT8)
               r == bytesLeft % SpiUINT8
    <3>2. q \in Int /\ r \in Int
      BY <1>4
    <3>3. bytes' = r + q /\ bytesLeft = q + r
      BY <2>1, <3>1
    <3> HIDE DEF q, r
    <3> QED BY <3>2, <3>3
  <2>4. URXNIE' = FALSE
    BY <1>7 DEF SpiInv, SpiTypes, SpiProgram
  <2> QED BY <1>1, <1>7, <2>3, <2>4 DEF SpiProgram
<1>8. CASE spiPc = "unmask" /\ URXNIE' = (URXNIE \/ bytes # 0) /\ spiPc' = "main" /\ UNCHANGED bytes
  <2>1. bytes = bytesLeft /\ ~URXNIE
    BY <1>8 DEF SpiInv, SpiProgram
  <2>2. CASE bytesLeft = 0
    <3>1. URXNIE' = FALSE
      BY <1>8, <2>1, <2>2, Zenon
    <3> QED BY <1>1, <1>8, <2>2, <3>1 DEF SpiProgram
  <2>3. CASE bytesLeft # 0
    <3>1. URXNIE' = TRUE
      BY <1>8, <2>1, <2>3, Zenon
    <3> QED BY <1>1, <1>8, <2>3, <3>1 DEF SpiProgram
  <2> QED BY <2>2, <2>3
<1> QED BY <1>5, <1>6, <1>7, <1>8 DEF Spi!ReadsBytesLeft, Spi!spiNMasterBytesLeft

\* The numbers of a transfer that goes on.
LEMMA SpiNumbers ==
  ASSUME SpiInv, bytesLeft > 0
  PROVE  /\ Len(spiTxBuffer) \in Nat /\ bytesLeft \in Nat /\ Answered \in Nat
         /\ Answered + 1 \in 1 .. Len(spiTxBuffer)
         /\ txPointer = Answered + 1 /\ UNDBUF = <<spiTxBuffer[Answered + 1]>>
         /\ spiTxBuffer[Answered + 1] \in TxBytes
         /\ Taken \in {Answered, Answered + 1}
<1>1. spiTxBuffer \in Seq(TxBytes) /\ bytesLeft \in Nat /\ bytesLeft <= Len(spiTxBuffer)
  BY SpiTyped
<1>2. Len(spiTxBuffer) \in Nat /\ bytesLeft \in Nat
  BY <1>1
<1>3. Answered \in Nat /\ Answered + 1 \in 1 .. Len(spiTxBuffer)
  BY <1>1, <1>2 DEF Answered
<1>4. txPointer = Answered + 1 /\ UNDBUF = <<spiTxBuffer[Answered + 1]>>
  BY DEF SpiInv, SpiWire
<1>5. spiTxBuffer[Answered + 1] \in TxBytes
  BY <1>1, <1>3
<1> QED BY <1>2, <1>3, <1>4, <1>5 DEF Taken

LEMMA TakingKeepsSpiInv ==
  ASSUME SpiInv, Spi!ByteExchanged
  PROVE  SpiInv'
<1>1. /\ UNDBUF # <<>> /\ spiSlave' = Append(spiSlave, Head(UNDBUF))
      /\ UNCHANGED <<spiTxBuffer, txPointer, spiRxBuffer, bytesLeft, UNDBUF, spiPc, bytes, first>>
  BY DEF Spi!ByteExchanged, Spi!bufferVars
<1>2. URXNIF' = TRUE /\ URXNIE' = URXNIE /\ ~URXNIF
  BY Zenon DEF Spi!ByteExchanged
<1>3. bytesLeft > 0
  <2>1. bytesLeft \in Nat /\ SpiWire
    BY SpiTyped DEF SpiInv
  <2>2. bytesLeft # 0
    BY <1>1, <2>1 DEF SpiWire
  <2> QED BY <2>1, <2>2
<1>4. Answered' = Answered /\ Taken = Answered /\ Taken' = Answered + 1
  BY <1>1, <1>2 DEF Answered, Taken
<1>5. spiSlave \in Seq(TxBytes) /\ Len(spiSlave) = first + Answered /\ first \in Nat
  BY <1>4, SpiTyped DEF SpiInv, SpiStreams
<1>6. spiSlave' = Append(spiSlave, spiTxBuffer[Answered + 1])
  BY <1>1, <1>3, SpiNumbers
<1>7. SpiTypes'
  <2>1. spiSlave' \in Seq(TxBytes)
    BY <1>3, <1>5, <1>6, SpiNumbers
  <2>2. SpiTypes
    BY DEF SpiInv
  <2> QED BY <1>1, <1>2, <2>1, <2>2 DEF SpiTypes
<1>8. SpiStreams'
  <2>1. Len(spiSlave') = first + Answered + 1
    BY <1>5, <1>6
  <2>2. ASSUME NEW i \in 1 .. Answered + 1 PROVE spiSlave'[first + i] = spiTxBuffer[i]
    <3>0. Answered \in Nat
      BY <1>3, SpiNumbers
    <3>1. CASE i \in 1 .. Answered
      <4>1. spiSlave[first + i] = spiTxBuffer[i]
        BY <1>4, <3>1 DEF SpiInv, SpiStreams
      <4>2. first + i \in 1 .. Len(spiSlave)
        BY <1>5, <3>0, <3>1
      <4> QED BY <1>5, <1>6, <4>1, <4>2
    <3>2. CASE i = Answered + 1
      <4>1. first + i = Len(spiSlave) + 1
        BY <1>5, <3>0, <3>2
      <4> QED BY <1>5, <1>6, <3>2, <4>1
    <3> QED BY <3>0, <3>1, <3>2
  <2>3. Answered \in Nat
    BY <1>3, SpiNumbers
  <2>4. SpiStreams
    BY DEF SpiInv
  <2>5. Len(spiRxBuffer) = Answered /\ \A i \in 1 .. Answered : spiRxBuffer[i] = Spi!Reply(first + i)
    BY <2>4 DEF SpiStreams
  <2>6. first' = first /\ spiTxBuffer' = spiTxBuffer /\ spiRxBuffer' = spiRxBuffer
    BY <1>1
  <2> HIDE DEF Answered, Taken
  <2>7. Len(spiSlave') = first' + Taken'
    BY <1>4, <1>5, <2>1, <2>3, <2>6
  <2>8. \A i \in 1 .. Taken' : spiSlave'[first' + i] = spiTxBuffer'[i]
    BY <1>4, <2>2, <2>6
  <2>9. \A i \in 1 .. Answered' : spiRxBuffer'[i] = Spi!Reply(first' + i)
    BY <1>4, <2>5, <2>6
  <2> QED BY <1>4, <2>5, <2>6, <2>7, <2>8, <2>9 DEF SpiStreams, Spi!Reply
<1>9. SpiWire'
  BY <1>1, <1>3, <1>4 DEF SpiInv, SpiWire
<1>10. SpiProgram'
  BY <1>1, <1>2 DEF SpiInv, SpiProgram
<1> QED BY <1>7, <1>8, <1>9, <1>10 DEF SpiInv

LEMMA InterruptKeepsSpiInv ==
  ASSUME SpiInv, Spi!ISR_URX
  PROVE  SpiInv'
<1>1. /\ spiRxBuffer' = Append(spiRxBuffer, Spi!Reply(Len(spiSlave))) /\ bytesLeft' = bytesLeft - 1
      /\ UNCHANGED <<spiTxBuffer, spiSlave, spiPc, bytes, first>>
  BY DEF Spi!ISR_URX
<1>2. URXNIF /\ URXNIE /\ URXNIF' = FALSE
  BY Zenon DEF Spi!ISR_URX
<1>3. bytesLeft > 0
  BY <1>2, SpiTyped DEF SpiInv, SpiWire
<1>4. Answered' = Answered + 1
  BY <1>1, <1>3, SpiNumbers DEF Answered
<1>5. Taken = Answered + 1 /\ Taken' = Answered + 1
  BY <1>2, <1>4 DEF Taken
<1>6. spiPc \in {"main", "sendByte"}
  BY <1>2 DEF SpiInv, SpiTypes, SpiProgram
<1>7. bytesLeft' > 0 => SpiWire' /\ SpiProgram' /\ URXNIE' \in BOOLEAN /\ bytesLeft' \in Nat
  <2> SUFFICES ASSUME bytesLeft' > 0
               PROVE  SpiWire' /\ SpiProgram' /\ URXNIE' \in BOOLEAN /\ bytesLeft' \in Nat
    OBVIOUS
  <2>1. txPointer' = txPointer + 1 /\ UNDBUF' = <<spiTxBuffer[txPointer']>>
    BY DEF Spi!ISR_URX
  <2>2. URXNIE' = TRUE
    BY <1>2 DEF Spi!ISR_URX, SpiInv, SpiTypes
  <2>3. bytesLeft' \in Nat
    BY <1>1, <1>3, SpiNumbers
  <2>4. SpiWire'
    BY <1>1, <1>3, <1>4, <2>1, <2>3, SpiNumbers DEF SpiWire
  <2>5. SpiProgram'
    BY <1>1, <1>6, <2>2 DEF SpiProgram
  <2> QED BY <2>2, <2>3, <2>4, <2>5
<1>8. ~(bytesLeft' > 0) => SpiWire' /\ SpiProgram' /\ URXNIE' \in BOOLEAN /\ bytesLeft' \in Nat
  <2> SUFFICES ASSUME ~(bytesLeft' > 0)
               PROVE  SpiWire' /\ SpiProgram' /\ URXNIE' \in BOOLEAN /\ bytesLeft' \in Nat
    OBVIOUS
  <2>1. UNDBUF' = <<>>
    BY DEF Spi!ISR_URX
  <2>2. URXNIE' = FALSE
    BY Zenon DEF Spi!ISR_URX
  <2>3. bytesLeft' = 0
    BY <1>1, <1>3, SpiNumbers
  <2>4. SpiWire'
    BY <1>2, <2>1, <2>2, <2>3 DEF SpiWire
  <2>5. SpiProgram'
    BY <1>1, <1>6, <2>3 DEF SpiProgram
  <2> QED BY <2>2, <2>3, <2>4, <2>5
<1>9. Len(spiSlave) = first + Answered + 1 /\ first \in Nat /\ spiRxBuffer \in Seq(Replies)
  BY <1>5, <1>3, SpiNumbers, SpiTyped DEF SpiInv, SpiStreams
<1>10. spiRxBuffer' = Append(spiRxBuffer, Spi!Reply(first + (Answered + 1)))
       /\ Spi!Reply(first + (Answered + 1)) \in Replies
  <2>1. Len(spiSlave) = first + (Answered + 1) /\ first + (Answered + 1) \in Nat
    BY <1>3, <1>9, SpiNumbers
  <2> QED BY <1>1, <2>1 DEF Replies
<1>11. SpiTypes'
  <2>1. spiRxBuffer' \in Seq(Replies)
    BY <1>9, <1>10
  <2>2. bytesLeft' <= Len(spiTxBuffer')
    BY <1>1, SpiTyped
  <2>3. SpiTypes
    BY DEF SpiInv
  <2> QED BY <1>1, <1>2, <1>7, <1>8, <2>1, <2>2, <2>3 DEF SpiTypes
<1>12. SpiStreams'
  <2>1. Len(spiRxBuffer) = Answered /\ \A i \in 1 .. Answered : spiRxBuffer[i] = Spi!Reply(first + i)
    BY DEF SpiInv, SpiStreams
  <2>2. ASSUME NEW i \in 1 .. Answered + 1 PROVE spiRxBuffer'[i] = Spi!Reply(first + i)
    <3>1. CASE i \in 1 .. Answered
      <4>1. spiRxBuffer'[i] = spiRxBuffer[i]
        BY <1>9, <1>10, <2>1, <3>1
      <4> QED BY <2>1, <3>1, <4>1
    <3>2. CASE i = Answered + 1
      <4>1. spiRxBuffer'[i] = Spi!Reply(first + (Answered + 1))
        BY <1>9, <1>10, <2>1, <3>2
      <4> QED BY <3>2, <4>1
    <3> QED BY <1>3, <3>1, <3>2, SpiNumbers
  <2>3. Len(spiRxBuffer') = Answered + 1
    BY <1>9, <1>10, <2>1
  <2> QED BY <1>1, <1>4, <1>5, <2>2, <2>3 DEF SpiInv, SpiStreams
<1> QED BY <1>7, <1>8, <1>11, <1>12 DEF SpiInv

LEMMA SpiInvStep ==
  ASSUME SpiInv, [Spi!Next]_(Spi!vars)
  PROVE  SpiInv'
<1>1. CASE Spi!spiNMasterTransfer
  <2>1. PICK size \in 1 .. MaxSize : \E buffer \in [1 .. size -> TxBytes] : Spi!Exchange(buffer)
    BY <1>1 DEF Spi!spiNMasterTransfer
  <2>2. PICK buffer \in [1 .. size -> TxBytes] : Spi!Exchange(buffer)
    BY <2>1
  <2>3. size \in Nat /\ size > 0
    BY SpiAssumption
  <2>4. buffer \in Seq(TxBytes) /\ Len(buffer) = size
    BY <2>3
  <2>5. UNCHANGED <<URXNIF, spiSlave, spiPc>> /\ spiPc = "main" /\ ~URXNIE
    BY <1>1 DEF Spi!spiNMasterTransfer
  <2> QED BY <2>2, <2>3, <2>4, <2>5, ExchangeKeepsSpiInv
<1>2. CASE Spi!spiNMasterSendByte
  <2>1. PICK byte \in TxBytes : Spi!Exchange(<<byte>>)
    BY <1>2 DEF Spi!spiNMasterSendByte
  <2>2. <<byte>> \in Seq(TxBytes) /\ Len(<<byte>>) > 0
    OBVIOUS
  <2>3. UNCHANGED <<URXNIF, spiSlave>> /\ spiPc' = "sendByte" /\ spiPc = "main" /\ ~URXNIE
    BY <1>2 DEF Spi!spiNMasterSendByte
  <2> QED BY <2>1, <2>2, <2>3, ExchangeKeepsSpiInv
<1>3. CASE Spi!SendByteReturns
  <2>1. /\ UNCHANGED <<spiTxBuffer, txPointer, spiRxBuffer, bytesLeft, URXNIE, URXNIF, UNDBUF,
                       spiSlave, bytes, first>>
        /\ spiPc' = "main" /\ spiPc = "sendByte"
    BY <1>3 DEF Spi!SendByteReturns, Spi!bufferVars
  <2>2. UNCHANGED <<Answered, Taken>>
    BY <2>1 DEF Answered, Taken
  <2>3. SpiTypes' /\ SpiStreams'
    BY <2>1, <2>2 DEF SpiInv, SpiTypes, SpiStreams
  <2>4. SpiWire' /\ SpiProgram'
    BY <2>1, <2>2 DEF SpiInv, SpiWire, SpiProgram
  <2> QED BY <2>3, <2>4 DEF SpiInv
<1>4. CASE Spi!ReadsBytesLeft
  BY <1>4, ReadingKeepsSpiInv
<1>5. CASE Spi!ByteExchanged
  BY <1>5, TakingKeepsSpiInv
<1>6. CASE Spi!ISR_URX
  BY <1>6, InterruptKeepsSpiInv
<1>7. CASE UNCHANGED Spi!vars
  BY <1>7 DEF SpiInv, SpiTypes, SpiStreams, SpiWire, SpiProgram, Answered, Taken, Spi!vars,
     Spi!bufferVars
<1> QED BY <1>1, <1>2, <1>3, <1>4, <1>5, <1>6, <1>7 DEF Spi!Next

LEMMA SpiInvIsEnough == SpiInv => BytesAreExchanged
<1> SUFFICES ASSUME SpiInv PROVE BytesAreExchanged
  OBVIOUS
<1>1. Spi!BytesLeftIsExact
  BY DEF SpiInv, SpiProgram, Spi!BytesLeftIsExact
<1>2. ASSUME spiPc = "main", ~URXNIE
      PROVE  /\ SubSeq(spiSlave, first + 1, Len(spiSlave)) = spiTxBuffer
             /\ spiRxBuffer = [i \in 1 .. Len(spiTxBuffer) |-> Spi!Reply(first + i)]
  <2>1. /\ spiTxBuffer \in Seq(TxBytes) /\ spiSlave \in Seq(TxBytes) /\ first \in Nat
        /\ spiRxBuffer \in Seq(Replies) /\ Len(spiTxBuffer) \in Nat
    BY SpiTyped
  <2>2. bytesLeft = 0 /\ URXNIF = FALSE
    <3>1. bytesLeft \in Nat /\ SpiProgram /\ SpiWire
      BY SpiTyped DEF SpiInv
    <3>2. bytesLeft = 0
      BY <1>2, <3>1 DEF SpiProgram
    <3> QED BY <3>1, <3>2 DEF SpiWire
  <2>3. Answered = Len(spiTxBuffer) /\ Taken = Len(spiTxBuffer)
    BY <2>1, <2>2 DEF Answered, Taken
  <2>4. /\ Len(spiSlave) = first + Len(spiTxBuffer)
        /\ \A i \in 1 .. Len(spiTxBuffer) : spiSlave[first + i] = spiTxBuffer[i]
    BY <2>3 DEF SpiInv, SpiStreams
  <2> DEFINE got == SubSeq(spiSlave, first + 1, Len(spiSlave))
  <2>5. got \in Seq(TxBytes) /\ Len(got) = Len(spiTxBuffer)
    BY <2>1, <2>4
  <2>6. ASSUME NEW i \in 1 .. Len(spiTxBuffer) PROVE got[i] = spiTxBuffer[i]
    <3>1. got[i] = spiSlave[first + i]
      BY <2>1, <2>4
    <3> QED BY <2>4, <3>1
  <2> HIDE DEF got
  <2>7. got = spiTxBuffer
    BY <2>1, <2>5, <2>6, SeqEqual
  <2>8. /\ Len(spiRxBuffer) = Len(spiTxBuffer)
        /\ \A i \in 1 .. Len(spiTxBuffer) : spiRxBuffer[i] = Spi!Reply(first + i)
    BY <2>3 DEF SpiInv, SpiStreams
  <2>9. spiRxBuffer = [i \in 1 .. Len(spiTxBuffer) |-> Spi!Reply(first + i)]
    <3>1. spiRxBuffer = [i \in 1 .. Len(spiRxBuffer) |-> spiRxBuffer[i]]
      BY <2>1
    <3> QED BY <2>8, <3>1
  <2> QED BY <2>7, <2>9 DEF got
<1> QED BY <1>1, <1>2 DEF BytesAreExchanged, Spi!Exchanged

\* Bytes cross SPI unchanged and in order, whatever the program reads in
\* between, and the number it reads is one that was left (spi_master.c).
THEOREM SpiBytesAreExchanged == PeripheralsSpec => []BytesAreExchanged
<1>1. PeripheralsInit => SpiInv
  BY SpiInvInit DEF PeripheralsInit
<1>2. SpiInv /\ [PeripheralsNext]_peripheralVars => SpiInv'
  BY SpiInvStep, StepsAreOfTheirComponent
<1> QED BY <1>1, <1>2, SpiInvIsEnough, PTL DEF PeripheralsSpec

-----------------------------------------------------------------------------
(* servo *)

\* The widths of pulses, with 0 for none.
Width == {0} \cup 2 .. UINT16 - 1
Datum == [target : Width, position : Width, positionReg : Nat, speed : Nat]

\* A servo has a register made of its position, and no position while it has
\* no target.
DataInv ==
  /\ servoData \in [Servos!Channels -> Datum]
  /\ \A c \in Servos!Channels :
       /\ servoData[c].positionReg = Servos!Neg(servoData[c].position)
       /\ servoData[c].position = 0 <=> servoData[c].target = 0

\* While the timer runs it interrupts, or a call waits for its overflow; an
\* overflow is dealt with before the pulses of the next period.
TimerInv ==
  /\ T1on <=> servosStarted
  /\ T1IE => T1on
  /\ T1on => T1IE \/ stopping # <<>>
  /\ stopping # <<>> => T1on /\ ~T1IE
  /\ T1on /\ T1IF => early
  /\ ~T1on => SEL = {}
  /\ SEL \subseteq servoPins

Loaded(registers, port) ==
  \A c \in Servos!Channels : Servos!Port(c) = port /\ c \in servoPins =>
    c \in SEL /\ registers[Servos!Timer(c)] = Servos!Neg(due[c])

\* The widths of a port are in the registers in one period, and in use in the
\* next; in all others no register makes a pulse.
RegistersInv ==
  /\ servoCounter \in 0 .. 6
  /\ servoCounter = 1 => T1CFG = 0 /\ Loaded(T1CC, 0)
  /\ servoCounter = 4 => T1CFG = 1 /\ Loaded(T1CC, 1)
  /\ servoCounter \in {1, 4} /\ T1IF => active = T1CC
  /\ servoCounter = 2 /\ ~T1IF => T1CFG = 0 /\ Loaded(active, 0)
  /\ servoCounter = 5 /\ ~T1IF => T1CFG = 1 /\ Loaded(active, 1)
  /\ servoCounter \notin {1, 4} => T1CC = Servos!Disabled
  /\ ~(servoCounter \in {1, 4} /\ T1IF) /\ ~(servoCounter \in {2, 5} /\ ~T1IF) =>
       active = Servos!Disabled

\* The pulses of a port are yet to come in this round.
ToCome(port) ==
  \/ servoCounter \in 1 .. 3 * port + 1
  \/ servoCounter = 3 * port + 2 /\ ~T1IF /\ early

PulsesInv ==
  /\ due \in [Servos!Channels -> Width]
  /\ \A c \in Servos!Channels :
       /\ pulses[c] = IF ToCome(Servos!Port(c)) THEN <<>> ELSE Servos!OwnPulse(c)
       /\ c \notin servoPins => due[c] = 0

ServoInv ==
  /\ DataInv /\ TimerInv /\ (T1on => RegistersInv) /\ PulsesInv
  /\ servoCounter \in 0 .. 6 /\ Servos!NotMovingMeansThere

LEMMA NegIs ==
  ASSUME NEW n \in 0 .. UINT16 - 1
  PROVE  Servos!Neg(n) = IF n = 0 THEN 0 ELSE UINT16 - n
<1> USE ServoAssumption
<1> DEFINE k == UINT16 - n
<1>1. UINT16 \in Nat \ {0} /\ k \in Int /\ k >= 0 /\ k < 2 * UINT16
  OBVIOUS
<1> HIDE DEF k
<1>2. k % UINT16 = IF k < UINT16 THEN k ELSE k - UINT16
  BY ONLY <1>1, RemainderOnce
<1> USE DEF k
<1> QED BY <1>2 DEF Servos!Neg

\* No register is that of no pulse, but for width 0, and each tells its width.
LEMMA NegOfWidth ==
  ASSUME NEW n \in Width
  PROVE  /\ Servos!Neg(n) \in 0 .. UINT16 - 2 /\ (Servos!Neg(n) = 0 <=> n = 0)
         /\ Servos!Neg(Servos!Neg(n)) = n
<1> USE ServoAssumption DEF Width
<1>1. Servos!Neg(n) = IF n = 0 THEN 0 ELSE UINT16 - n
  BY NegIs
<1>2. Servos!Neg(n) \in 0 .. UINT16 - 2 /\ (Servos!Neg(n) = 0 <=> n = 0)
  BY <1>1
<1>3. Servos!Neg(Servos!Neg(n)) = IF Servos!Neg(n) = 0 THEN 0 ELSE UINT16 - Servos!Neg(n)
  <2>1. Servos!Neg(n) \in 0 .. UINT16 - 1
    BY <1>2
  <2> QED BY <2>1, NegIs
<1> QED BY <1>1, <1>2, <1>3

LEMMA ChannelIs ==
  ASSUME NEW c \in Servos!Channels
  PROVE  /\ Servos!Port(c) \in {0, 1} /\ Servos!Timer(c) \in Servos!Timers
         /\ c = 3 * Servos!Port(c) + Servos!Timer(c)
<1>1. c \in 0 .. 5
  BY ServoAssumption DEF Servos!Channels
<1>2. c \div 3 \in {0, 1} /\ c = 3 * (c \div 3) + (c % 3)
  BY <1>1
<1> QED BY <1>2 DEF Servos!Port, Servos!Timer, Servos!Timers

LEMMA DisabledIs ==
  ASSUME NEW c \in Servos!Channels
  PROVE  Servos!Disabled[Servos!Timer(c)] = UINT16 - 1
BY ChannelIs DEF Servos!Disabled

LEMMA ServoInvInit == Servos!Init => ServoInv
<1> SUFFICES ASSUME Servos!Init PROVE ServoInv
  OBVIOUS
<1>1. /\ servosStarted = FALSE /\ servosMovingFlag = FALSE /\ T1IE = FALSE /\ T1IF = FALSE
      /\ T1on = FALSE /\ early = FALSE
  BY Zenon DEF Servos!Init
<1>2. /\ servoCounter = 0 /\ SEL = {} /\ stopping = <<>> /\ servoPins = {}
      /\ servoData = [c \in Servos!Channels |-> Servos!NoData]
      /\ pulses = [c \in Servos!Channels |-> <<>>] /\ due = [c \in Servos!Channels |-> 0]
  BY DEF Servos!Init
<1>3. Servos!NoData \in Datum /\ Servos!NoData.positionReg = Servos!Neg(Servos!NoData.position)
      /\ Servos!NoData.position = Servos!NoData.target
  <2>1. 0 \in Width /\ Servos!Neg(0) = 0
    BY ServoAssumption, NegIs DEF Width
  <2> QED BY <2>1 DEF Servos!NoData, Datum
<1>4. DataInv /\ Servos!NotMovingMeansThere
  BY <1>2, <1>3 DEF DataInv, Servos!NotMovingMeansThere
<1>5. TimerInv /\ ~T1on
  BY <1>1, <1>2 DEF TimerInv
<1>6. PulsesInv
  <2>1. \A c \in Servos!Channels : ~ToCome(Servos!Port(c))
    BY <1>2, ChannelIs DEF ToCome
  <2> QED BY <1>2, <2>1 DEF PulsesInv, Width, Servos!OwnPulse
<1> QED BY <1>2, <1>4, <1>5, <1>6 DEF ServoInv

LEMMA UpdateKeepsDatum ==
  ASSUME NEW d \in Datum, d.positionReg = Servos!Neg(d.position), d.position = 0 <=> d.target = 0
  PROVE  LET e == Servos!UpdatePosition(d) IN
         /\ e \in Datum /\ e.positionReg = Servos!Neg(e.position)
         /\ e.position = 0 <=> e.target = 0
         /\ ~Servos!Moves(d) => e.position = e.target
<1> USE ServoAssumption
<1>1. d.target \in Width /\ d.position \in Width /\ d.speed \in Nat
  BY DEF Datum
<1> DEFINE position == IF Servos!Moves(d)
                       THEN IF Servos!Up(d) THEN d.position + d.speed ELSE d.position - d.speed
                       ELSE d.target
<1>2. position \in Width /\ (position = 0 <=> d.target = 0) /\ (~Servos!Moves(d) => position = d.target)
  BY <1>1 DEF Width, Servos!Moves, Servos!Up, Servos!Gap
<1>3. Servos!UpdatePosition(d) = [d EXCEPT !.position = position, !.positionReg = Servos!Neg(position)]
  BY DEF Servos!UpdatePosition
<1> HIDE DEF position
<1>4. Servos!Neg(position) \in Nat
  BY <1>2, NegOfWidth
<1> QED BY <1>2, <1>3, <1>4 DEF Datum

\* What is loaded for a port is what its registers say, and nothing of it has
\* been used.
LEMMA LoadLoads ==
  ASSUME DataInv, TimerInv, PulsesInv, NEW port \in {0, 1}, Servos!Load(port), UNCHANGED servoPins
  PROVE  /\ Loaded(T1CC, port)' /\ T1CFG' = port
         /\ due' \in [Servos!Channels -> Width]
         /\ \A c \in Servos!Channels :
              /\ c \notin servoPins => due'[c] = 0
              /\ Servos!Port(c) # port => due'[c] = due[c]
         /\ SEL \subseteq SEL' /\ SEL' \subseteq servoPins
         /\ UNCHANGED <<servoData, servosMovingFlag>>
<1>1. /\ T1CFG' = port /\ SEL' = SEL \cup {c \in servoPins : Servos!Port(c) = port}
      /\ T1CC' = [t \in Servos!Timers |-> IF 3 * port + t \in Servos!Channels
                                          THEN servoData[3 * port + t].positionReg ELSE 0]
      /\ due' = [c \in Servos!Channels |->
                   IF Servos!Port(c) # port THEN due[c]
                   ELSE IF c \in servoPins THEN servoData[c].position ELSE 0]
      /\ UNCHANGED <<servoData, servosMovingFlag>>
  BY DEF Servos!Load
<1>2. \A c \in Servos!Channels :
        servoData[c].position \in Width /\ servoData[c].positionReg = Servos!Neg(servoData[c].position)
  BY DEF DataInv, Datum
<1>3. due' \in [Servos!Channels -> Width]
  BY <1>1, <1>2 DEF PulsesInv, Width
<1>4. SEL' \subseteq servoPins
  BY <1>1 DEF TimerInv
<1>5. ASSUME NEW c \in Servos!Channels, Servos!Port(c) = port, c \in servoPins
      PROVE  c \in SEL' /\ T1CC'[Servos!Timer(c)] = Servos!Neg(due'[c])
  <2>1. Servos!Timer(c) \in Servos!Timers /\ c = 3 * port + Servos!Timer(c)
    BY <1>5, ChannelIs
  <2> QED BY <1>1, <1>2, <1>5, <2>1
<1>6. Loaded(T1CC, port)'
  BY <1>5 DEF Loaded
<1> QED BY <1>1, <1>3, <1>4, <1>6 DEF PulsesInv

LEMMA InterruptKeepsServoInv ==
  ASSUME ServoInv, Servos!ISR_T1
  PROVE  ServoInv'
<1>1. /\ DataInv /\ TimerInv /\ PulsesInv /\ servoCounter \in 0 .. 6 /\ Servos!NotMovingMeansThere
      /\ T1on => RegistersInv
  BY DEF ServoInv
<1>2. /\ servoCounter' = (servoCounter + 1) % 7
      /\ pulses' = IF servoCounter = 0 THEN [c \in Servos!Channels |-> <<>>] ELSE pulses
      /\ UNCHANGED <<servosStarted, servoPins, active, T1IE, T1on, early, stopping>>
  BY DEF Servos!ISR_T1
<1>3. T1IF /\ T1IE /\ ~T1IF'
  BY DEF Servos!ISR_T1
<1>4. T1on /\ early /\ RegistersInv
  BY <1>1, <1>3 DEF TimerInv
<1>5. servoCounter' = (IF servoCounter = 6 THEN 0 ELSE servoCounter + 1) /\ servoCounter' \in 0 .. 6
  BY <1>1, <1>2
<1>6. \A port \in {0, 1} :
        /\ ToCome(port) <=> servoCounter \in 1 .. 3 * port + 1
        /\ ToCome(port)' <=> servoCounter \in 0 .. 3 * port + 1
  BY <1>1, <1>2, <1>3, <1>4, <1>5 DEF ToCome
\* Besides what the step does to the counter, each kind of period is a case.
<1>7. ASSUME UNCHANGED <<servoData, servosMovingFlag>>
      PROVE  DataInv' /\ Servos!NotMovingMeansThere'
  BY <1>1, <1>7 DEF DataInv, Servos!NotMovingMeansThere
<1>8. ASSUME SEL' \subseteq servoPins
      PROVE  TimerInv'
  BY <1>1, <1>2, <1>3, <1>4, <1>8 DEF TimerInv
<1>9. ASSUME UNCHANGED due, servoCounter # 0
      PROVE  PulsesInv'
  <2>1. ASSUME NEW c \in Servos!Channels
        PROVE  pulses'[c] = IF ToCome(Servos!Port(c))' THEN <<>> ELSE Servos!OwnPulse(c)'
    <3>1. ToCome(Servos!Port(c))' <=> ToCome(Servos!Port(c))
      BY <1>1, <1>6, <1>9, ChannelIs
    <3>2. Servos!OwnPulse(c)' = Servos!OwnPulse(c)
      BY <1>9 DEF Servos!OwnPulse
    <3> QED BY <1>1, <1>2, <1>9, <3>1, <3>2 DEF PulsesInv
  <2> QED BY <1>1, <1>2, <1>9, <2>1 DEF PulsesInv, Servos!Port
<1>10. ASSUME NEW port \in {0, 1}, servoCounter = 3 * port, Servos!Load(port)
       PROVE  ServoInv'
  <2>1. /\ Loaded(T1CC, port)' /\ T1CFG' = port
        /\ due' \in [Servos!Channels -> Width]
        /\ \A c \in Servos!Channels :
             /\ c \notin servoPins => due'[c] = 0
             /\ Servos!Port(c) # port => due'[c] = due[c]
        /\ SEL' \subseteq servoPins
        /\ UNCHANGED <<servoData, servosMovingFlag>>
    BY <1>1, <1>2, <1>10, LoadLoads
  <2>2. DataInv' /\ TimerInv' /\ Servos!NotMovingMeansThere'
    BY <1>7, <1>8, <2>1
  <2>3. servoCounter' = 3 * port + 1
    BY <1>5, <1>10
  <2>4. RegistersInv'
    <3>1. active' = Servos!Disabled'
      BY <1>2, <1>4, <1>10 DEF RegistersInv, Servos!Disabled, Servos!Timers, Servos!Timer
    <3>2. servoCounter' \in {1, 4} /\ (servoCounter' = 1 => port = 0) /\ (servoCounter' = 4 => port = 1)
      BY <2>3
    <3> QED BY <1>3, <2>1, <3>1, <3>2 DEF RegistersInv
  <2>5. PulsesInv'
    <3>1. ASSUME NEW c \in Servos!Channels
          PROVE  pulses'[c] = IF ToCome(Servos!Port(c))' THEN <<>> ELSE Servos!OwnPulse(c)'
      <4>1. CASE servoCounter = 0
        <5>1. ToCome(Servos!Port(c))'
          BY <1>6, <4>1, ChannelIs
        <5> QED BY <1>2, <4>1, <5>1
      <4>2. CASE servoCounter # 0
        <5>1. port = 1 /\ servoCounter = 3
          BY <1>10, <4>2
        <5>2. ToCome(Servos!Port(c))' <=> ToCome(Servos!Port(c))
          BY <1>6, <5>1, ChannelIs
        <5>3. CASE Servos!Port(c) = 1
          <6>1. ToCome(Servos!Port(c))
            BY <1>6, <5>1, <5>3
          <6> QED BY <1>1, <1>2, <4>2, <5>2, <6>1 DEF PulsesInv
        <5>4. CASE Servos!Port(c) # 1
          <6>1. Servos!OwnPulse(c)' = Servos!OwnPulse(c)
            BY <2>1, <5>1, <5>4 DEF Servos!OwnPulse
          <6> QED BY <1>1, <1>2, <4>2, <5>2, <6>1 DEF PulsesInv
        <5> QED BY <5>3, <5>4
      <4> QED BY <4>1, <4>2
    <3> QED BY <1>2, <2>1, <3>1 DEF PulsesInv, Servos!Port
  <2> QED BY <1>5, <2>2, <2>4, <2>5 DEF ServoInv
<1>11. ASSUME servoCounter \in {1, 4}, Servos!Disable
       PROVE  ServoInv'
  <2>1. T1CC' = Servos!Disabled /\ UNCHANGED <<SEL, T1CFG, servoData, servosMovingFlag, due>>
    BY <1>11 DEF Servos!Disable
  <2>2. DataInv' /\ TimerInv' /\ Servos!NotMovingMeansThere' /\ PulsesInv'
    <3>1. SEL' \subseteq servoPins
      BY <1>1, <2>1 DEF TimerInv
    <3> QED BY <1>7, <1>8, <1>9, <1>11, <2>1, <3>1
  <2>3. RegistersInv'
    <3>1. servoCounter' = servoCounter + 1 /\ active = T1CC
      BY <1>3, <1>4, <1>5, <1>11 DEF RegistersInv
    <3>2. \A port \in {0, 1} : Loaded(T1CC, port) => Loaded(active, port)'
      BY <1>2, <2>1, <3>1 DEF Loaded
    <3>3. Servos!Disabled' = Servos!Disabled
      BY DEF Servos!Disabled, Servos!Timers, Servos!Timer
    <3> QED BY <1>2, <1>3, <1>4, <1>11, <2>1, <3>1, <3>2, <3>3 DEF RegistersInv
  <2> QED BY <1>5, <2>2, <2>3 DEF ServoInv
<1>12. ASSUME servoCounter \in {2, 5, 6}, SEL' \subseteq SEL, UNCHANGED <<T1CC, T1CFG, due>>,
              DataInv', Servos!NotMovingMeansThere'
       PROVE  ServoInv'
  <2>1. TimerInv' /\ PulsesInv'
    <3>1. SEL' \subseteq servoPins
      BY <1>1, <1>12 DEF TimerInv
    <3> QED BY <1>8, <1>9, <1>12, <3>1
  <2>2. RegistersInv'
    <3>1. servoCounter' \in {3, 6, 0}
      BY <1>5, <1>12
    <3>2. Servos!Disabled' = Servos!Disabled
      BY DEF Servos!Disabled, Servos!Timers, Servos!Timer
    <3> QED BY <1>2, <1>3, <1>4, <1>12, <3>1, <3>2 DEF RegistersInv
  <2> QED BY <1>5, <1>12, <2>1, <2>2 DEF ServoInv
<1>13. ASSUME servoCounter \in {2, 5}, Servos!Unselect(0) \/ Servos!Unselect(1)
       PROVE  ServoInv'
  <2>1. SEL' \subseteq SEL /\ UNCHANGED <<T1CC, T1CFG, servoData, servosMovingFlag, due>>
    BY <1>13 DEF Servos!Unselect
  <2> QED BY <1>7, <1>12, <1>13, <2>1
<1>14. ASSUME servoCounter = 6, Servos!UpdatePositions
       PROVE  ServoInv'
  <2>1. /\ servoData' = [c \in Servos!Channels |-> Servos!UpdatePosition(servoData[c])]
        /\ UNCHANGED <<T1CC, SEL, T1CFG, due>>
    BY <1>14 DEF Servos!UpdatePositions
  <2>2. servosMovingFlag' <=> \E c \in Servos!Channels : Servos!Moves(servoData[c])
    BY <1>14, Zenon DEF Servos!UpdatePositions
  <2>3. ASSUME NEW c \in Servos!Channels
        PROVE  /\ servoData'[c] \in Datum
               /\ servoData'[c].positionReg = Servos!Neg(servoData'[c].position)
               /\ servoData'[c].position = 0 <=> servoData'[c].target = 0
               /\ ~Servos!Moves(servoData[c]) => servoData'[c].position = servoData'[c].target
    <3>1. /\ servoData[c] \in Datum /\ servoData[c].positionReg = Servos!Neg(servoData[c].position)
          /\ servoData[c].position = 0 <=> servoData[c].target = 0
      BY <1>1 DEF DataInv
    <3>2. servoData'[c] = Servos!UpdatePosition(servoData[c])
      BY <2>1
    <3> QED BY <3>1, <3>2, UpdateKeepsDatum
  <2>4. DataInv'
    BY <2>1, <2>3 DEF DataInv, Servos!Neg, Servos!Channels
  <2>5. Servos!NotMovingMeansThere'
    BY <2>2, <2>3 DEF Servos!NotMovingMeansThere, Servos!Channels
  <2> QED BY <1>12, <1>14, <2>1, <2>4, <2>5
<1> QED BY <1>10, <1>11, <1>13, <1>14 DEF Servos!ISR_T1

LEMMA InterruptApproaches ==
  ASSUME ServoInv, Servos!ISR_T1
  PROVE  \A c \in Servos!Channels : Servos!Approaches(servoData[c], servoData'[c].position)
<1> SUFFICES ASSUME NEW c \in Servos!Channels
             PROVE  Servos!Approaches(servoData[c], servoData'[c].position)
  OBVIOUS
<1> DEFINE d == servoData[c]
<1>1. servoData \in [Servos!Channels -> Datum]
  BY DEF ServoInv, DataInv
<1>2. d.target \in Nat /\ d.position \in Nat /\ d.speed \in Nat
  BY <1>1, ServoAssumption DEF Datum, Width
<1>3. servoData' = servoData \/ servoData' = [e \in Servos!Channels |-> Servos!UpdatePosition(servoData[e])]
  BY DEF Servos!ISR_T1, Servos!Load, Servos!Disable, Servos!Unselect, Servos!UpdatePositions
<1>4. CASE servoData' = servoData
  BY <1>2, <1>4 DEF Servos!Approaches, Servos!Up
<1>5. CASE servoData' = [e \in Servos!Channels |-> Servos!UpdatePosition(servoData[e])]
  <2> DEFINE position == IF Servos!Moves(d)
                         THEN IF Servos!Up(d) THEN d.position + d.speed ELSE d.position - d.speed
                         ELSE d.target
  <2>1. servoData'[c].position = position
    <3>1. servoData'[c] = [d EXCEPT !.position = position, !.positionReg = Servos!Neg(position)]
      BY <1>5 DEF Servos!UpdatePosition
    <3>2. d \in Datum
      BY <1>1
    <3> HIDE DEF position, d
    <3> QED BY <3>1, <3>2 DEF Datum
  <2>2. Servos!Approaches(d, position)
    <3> HIDE DEF d
    <3> QED BY <1>2 DEF Servos!Approaches, Servos!Moves, Servos!Up, Servos!Gap
  <2> QED BY <2>1, <2>2
<1> QED BY <1>3, <1>4, <1>5

\* The timer makes the pulses of a period of what is in use.
LEMMA PulseTimeKeepsServoInv ==
  ASSUME ServoInv, Servos!PulseTime
  PROVE  ServoInv'
<1>1. /\ DataInv /\ TimerInv /\ PulsesInv /\ servoCounter \in 0 .. 6 /\ Servos!NotMovingMeansThere
      /\ T1on => RegistersInv
  BY DEF ServoInv
<1>2. /\ pulses' = [c \in Servos!Channels |-> pulses[c] \o Servos!PulseOf(c)]
      /\ UNCHANGED <<servosStarted, servoCounter, servosMovingFlag, servoData, servoPins, SEL, T1CC,
                     active, T1IE, T1IF, T1on, T1CFG, stopping, due>>
  BY DEF Servos!PulseTime, Servos!dataVars
<1>3. T1on /\ early /\ ~T1IF /\ ~early' /\ RegistersInv
  <2>1. T1on /\ early /\ ~early' /\ ~(T1IF /\ T1IE) /\ ~(T1IF /\ stopping # <<>>)
    BY DEF Servos!PulseTime, Servos!OverflowCame
  <2> QED BY <1>1, <2>1 DEF TimerInv
<1>4. Servos!Disabled' = Servos!Disabled
  BY DEF Servos!Disabled, Servos!Timers, Servos!Timer
<1>5. DataInv' /\ Servos!NotMovingMeansThere' /\ TimerInv' /\ RegistersInv'
  <2>1. DataInv' /\ Servos!NotMovingMeansThere'
    BY <1>1, <1>2 DEF DataInv, Servos!NotMovingMeansThere
  <2>2. TimerInv'
    BY <1>1, <1>2, <1>3 DEF TimerInv
  <2>3. \A port \in {0, 1} : /\ Loaded(T1CC, port) => Loaded(T1CC, port)'
                             /\ Loaded(active, port) => Loaded(active, port)'
    BY <1>2 DEF Loaded
  <2>4. RegistersInv'
    BY <1>2, <1>3, <1>4, <2>3 DEF RegistersInv
  <2> QED BY <2>1, <2>2, <2>4
<1>6. PulsesInv'
  <2>1. ASSUME NEW c \in Servos!Channels
        PROVE  pulses'[c] = IF ToCome(Servos!Port(c))' THEN <<>> ELSE Servos!OwnPulse(c)'
    <3> DEFINE port == Servos!Port(c)
    <3>1. port \in {0, 1} /\ Servos!OwnPulse(c)' = Servos!OwnPulse(c) /\ due[c] \in Width
      BY <1>1, <1>2, ChannelIs DEF Servos!OwnPulse, PulsesInv
    <3>2. Servos!OwnPulse(c) \in Seq(Nat)
      BY <3>1, ServoAssumption DEF Servos!OwnPulse, Width
    <3>3. \A s \in Seq(Nat) : s \o <<>> = s /\ <<>> \o s = s
      BY ConcatEmptySeq
    <3>4. <<>> \in Seq(Nat)
      OBVIOUS
    <3>5. CASE servoCounter = 3 * port + 2
      <4>1. ToCome(port) /\ ~ToCome(port)'
        BY <1>2, <1>3, <3>1, <3>5 DEF ToCome
      <4>2. pulses[c] = <<>>
        BY <1>1, <4>1 DEF PulsesInv
      <4>3. T1CFG = port /\ Loaded(active, port)
        BY <1>3, <3>1, <3>5 DEF RegistersInv
      <4>4. Servos!PulseOf(c) = Servos!OwnPulse(c)
        <5>1. CASE c \in servoPins
          <6>1. c \in SEL /\ active[Servos!Timer(c)] = Servos!Neg(due[c])
            BY <4>3, <5>1 DEF Loaded
          <6>2. /\ Servos!Neg(due[c]) \in 0 .. UINT16 - 2 /\ (Servos!Neg(due[c]) = 0 <=> due[c] = 0)
                /\ Servos!Neg(Servos!Neg(due[c])) = due[c]
            BY <3>1, NegOfWidth
          <6>3. Servos!Neg(due[c]) # UINT16 - 1
            BY <6>2, ServoAssumption
          <6> QED BY <4>3, <6>1, <6>2, <6>3 DEF Servos!PulseOf, Servos!OwnPulse
        <5>2. CASE c \notin servoPins
          <6>1. c \notin SEL /\ due[c] = 0
            BY <1>1, <5>2 DEF TimerInv, PulsesInv
          <6> QED BY <6>1 DEF Servos!PulseOf, Servos!OwnPulse
        <5> QED BY <5>1, <5>2
      <4> QED BY <1>2, <3>1, <3>2, <3>3, <4>1, <4>2, <4>4
    <3>6. CASE servoCounter # 3 * port + 2
      <4>1. ToCome(port)' <=> ToCome(port)
        BY <1>2, <3>6 DEF ToCome
      <4>2. Servos!PulseOf(c) = <<>>
        <5>1. CASE servoCounter \in {2, 5}
          <6>1. T1CFG # port
            BY <1>3, <3>1, <3>6, <5>1 DEF RegistersInv
          <6> QED BY <6>1 DEF Servos!PulseOf
        <5>2. CASE servoCounter \notin {2, 5}
          <6>1. active[Servos!Timer(c)] = UINT16 - 1
            BY <1>3, <5>2, DisabledIs DEF RegistersInv
          <6> QED BY <6>1 DEF Servos!PulseOf
        <5> QED BY <5>1, <5>2
      <4>3. pulses[c] = (IF ToCome(port) THEN <<>> ELSE Servos!OwnPulse(c)) /\ pulses[c] \in Seq(Nat)
        BY <1>1, <3>2, <3>4 DEF PulsesInv
      <4> QED BY <1>2, <3>1, <3>3, <4>1, <4>2, <4>3
    <3> QED BY <3>5, <3>6
  <2> QED BY <1>1, <1>2, <2>1 DEF PulsesInv, Servos!Port
<1> QED BY <1>1, <1>2, <1>5, <1>6 DEF ServoInv

LEMMA OverflowKeepsServoInv ==
  ASSUME ServoInv, Servos!Overflow
  PROVE  ServoInv'
<1>1. /\ DataInv /\ TimerInv /\ PulsesInv /\ servoCounter \in 0 .. 6 /\ Servos!NotMovingMeansThere
      /\ T1on => RegistersInv
  BY DEF ServoInv
<1>2. /\ active' = T1CC
      /\ UNCHANGED <<servosStarted, servoCounter, servosMovingFlag, servoData, servoPins, SEL, T1CC,
                     T1IE, T1on, T1CFG, stopping, due, pulses>>
  BY DEF Servos!Overflow, Servos!dataVars, Servos!ghostVars
<1>3. T1on /\ ~early /\ early' /\ T1IF' /\ ~T1IF /\ RegistersInv
  <2>1. T1on /\ ~early /\ early' /\ T1IF'
    BY DEF Servos!Overflow
  <2> QED BY <1>1, <2>1 DEF TimerInv
<1>4. DataInv' /\ Servos!NotMovingMeansThere' /\ TimerInv'
  <2>1. DataInv' /\ Servos!NotMovingMeansThere'
    BY <1>1, <1>2 DEF DataInv, Servos!NotMovingMeansThere
  <2>2. TimerInv'
    BY <1>1, <1>2, <1>3 DEF TimerInv
  <2> QED BY <2>1, <2>2
<1>5. RegistersInv'
  <2>1. \A port \in {0, 1} : Loaded(T1CC, port) => Loaded(T1CC, port)'
    BY <1>2 DEF Loaded
  <2>2. Servos!Disabled' = Servos!Disabled
    BY DEF Servos!Disabled, Servos!Timers, Servos!Timer
  <2> QED BY <1>2, <1>3, <2>1, <2>2 DEF RegistersInv
<1>6. PulsesInv'
  <2>1. \A port \in {0, 1} : ToCome(port)' <=> ToCome(port)
    BY <1>2, <1>3 DEF ToCome
  <2>2. ASSUME NEW c \in Servos!Channels
        PROVE  pulses'[c] = IF ToCome(Servos!Port(c))' THEN <<>> ELSE Servos!OwnPulse(c)'
    <3>1. Servos!OwnPulse(c)' = Servos!OwnPulse(c)
      BY <1>2 DEF Servos!OwnPulse
    <3> QED BY <1>1, <1>2, <2>1, <3>1, ChannelIs DEF PulsesInv
  <2> QED BY <1>1, <1>2, <2>2 DEF PulsesInv, Servos!Port
<1> QED BY <1>1, <1>2, <1>4, <1>5, <1>6 DEF ServoInv

\* The timer starts anew, with the pins it is given or those it had.
LEMMA StartKeepsServoInv ==
  ASSUME ServoInv, NEW pins, Servos!StartTimer(pins, {}), stopping' = <<>>
  PROVE  ServoInv'
<1>1. DataInv /\ TimerInv /\ Servos!NotMovingMeansThere
  BY DEF ServoInv
<1>2. /\ servoCounter' = 0 /\ T1CC' = Servos!Disabled /\ active' = Servos!Disabled
      /\ pulses' = [c \in Servos!Channels |-> <<>>] /\ due' = [c \in Servos!Channels |-> 0]
      /\ UNCHANGED servosMovingFlag
      /\ SEL' = {}
      /\ servoData' = servoData \/ servoData' = [c \in Servos!Channels |-> Servos!NoData]
  BY DEF Servos!StartTimer
<1>3. T1on' /\ T1IE' /\ servosStarted' /\ early'
  BY DEF Servos!StartTimer
<1>4. DataInv' /\ Servos!NotMovingMeansThere'
  <2>1. CASE servoData' = servoData
    BY <1>1, <1>2, <2>1 DEF DataInv, Servos!NotMovingMeansThere
  <2>2. CASE servoData' = [c \in Servos!Channels |-> Servos!NoData]
    <3>1. 0 \in Width /\ Servos!Neg(0) = 0
      BY ServoAssumption, NegIs DEF Width
    <3>2. Servos!NoData \in Datum /\ Servos!NoData.positionReg = Servos!Neg(Servos!NoData.position)
          /\ Servos!NoData.position = Servos!NoData.target
      BY <3>1 DEF Servos!NoData, Datum
    <3> QED BY <2>2, <3>2 DEF DataInv, Servos!NotMovingMeansThere
  <2> QED BY <1>2, <2>1, <2>2
<1>5. TimerInv'
  BY <1>2, <1>3 DEF TimerInv
<1>6. RegistersInv'
  <2>1. Servos!Disabled' = Servos!Disabled
    BY DEF Servos!Disabled, Servos!Timers, Servos!Timer
  <2> QED BY <1>2, <2>1 DEF RegistersInv
<1>7. PulsesInv'
  <2>1. \A c \in Servos!Channels : ~ToCome(Servos!Port(c))'
    BY <1>2, ChannelIs DEF ToCome
  <2> QED BY <1>2, <2>1 DEF PulsesInv, Width, Servos!OwnPulse
<1> QED BY <1>2, <1>4, <1>5, <1>6, <1>7 DEF ServoInv

\* A call that ends while it waits for the overflow leaves no pin driven.
LEMMA StopSelIsEmpty ==
  ASSUME TimerInv
  PROVE  Servos!StopSel = {}
BY DEF TimerInv, Servos!StopSel

LEMMA StopKeepsServoInv ==
  ASSUME ServoInv, Servos!StopsAtOverflow
  PROVE  ServoInv'
<1>1. /\ DataInv /\ TimerInv /\ PulsesInv /\ servoCounter \in 0 .. 6 /\ Servos!NotMovingMeansThere
  BY DEF ServoInv
<1>2. Servos!StopSel = {} /\ stopping' = <<>>
  BY <1>1, StopSelIsEmpty DEF Servos!StopsAtOverflow
<1>3. CASE stopping # <<Servos!STOP>>
  <2>1. Servos!StartTimer(stopping[1], {})
    BY <1>2, <1>3 DEF Servos!StopsAtOverflow
  <2> QED BY <1>2, <2>1, StartKeepsServoInv
<1>4. CASE stopping = <<Servos!STOP>>
  <2>1. /\ SEL' = {}
        /\ UNCHANGED <<servoCounter, servosMovingFlag, servoData, servoPins, T1CC, active, T1IE,
                       T1IF, T1CFG, pulses, due>>
    BY <1>2, <1>4 DEF Servos!StopsAtOverflow, Servos!dataVars
  <2>2. ~T1on' /\ ~servosStarted' /\ ~early' /\ T1IF /\ stopping # <<>>
    BY <1>4 DEF Servos!StopsAtOverflow, Servos!OverflowCame
  <2>3. DataInv' /\ Servos!NotMovingMeansThere'
    BY <1>1, <2>1 DEF DataInv, Servos!NotMovingMeansThere
  <2>4. TimerInv'
    BY <1>1, <1>2, <2>1, <2>2 DEF TimerInv
  <2>5. PulsesInv'
    <3>1. \A port \in {0, 1} : ToCome(port)' <=> ToCome(port)
      BY <2>1, <2>2 DEF ToCome
    <3>2. ASSUME NEW c \in Servos!Channels
          PROVE  pulses'[c] = IF ToCome(Servos!Port(c))' THEN <<>> ELSE Servos!OwnPulse(c)'
      <4>1. Servos!OwnPulse(c)' = Servos!OwnPulse(c)
        BY <2>1 DEF Servos!OwnPulse
      <4> QED BY <1>1, <2>1, <3>1, <4>1, ChannelIs DEF PulsesInv
    <3> QED BY <1>1, <2>1, <3>2 DEF PulsesInv, Servos!Port
  <2> QED BY <1>1, <2>1, <2>2, <2>3, <2>4, <2>5 DEF ServoInv
<1> QED BY <1>3, <1>4

\* What touches neither the timer nor what it makes leaves its invariants.
LEMMA TimerIsKept ==
  ASSUME ServoInv, DataInv', Servos!NotMovingMeansThere', TimerInv',
         UNCHANGED <<servoCounter, servoPins, SEL, T1CC, active, T1IF, T1on, T1CFG, early, pulses, due>>
  PROVE  ServoInv'
<1>1. PulsesInv /\ servoCounter \in 0 .. 6 /\ (T1on => RegistersInv)
  BY DEF ServoInv
<1>2. \A port \in {0, 1} : /\ Loaded(T1CC, port)' <=> Loaded(T1CC, port)
                           /\ Loaded(active, port)' <=> Loaded(active, port)
  BY DEF Loaded
<1>3. RegistersInv => RegistersInv'
  <2>1. Servos!Disabled' = Servos!Disabled
    BY DEF Servos!Disabled, Servos!Timers, Servos!Timer
  <2> QED BY <1>2, <2>1 DEF RegistersInv
<1>4. PulsesInv'
  <2>1. ASSUME NEW c \in Servos!Channels
        PROVE  pulses'[c] = IF ToCome(Servos!Port(c))' THEN <<>> ELSE Servos!OwnPulse(c)'
    <3>1. Servos!OwnPulse(c)' = Servos!OwnPulse(c)
      BY DEF Servos!OwnPulse
    <3>2. ToCome(Servos!Port(c))' <=> ToCome(Servos!Port(c))
      BY DEF ToCome
    <3> QED BY <1>1, <3>1, <3>2 DEF PulsesInv
  <2> QED BY <1>1, <2>1 DEF PulsesInv, Servos!Port
<1> QED BY <1>1, <1>3, <1>4 DEF ServoInv

LEMMA TargetKeepsServoInv ==
  ASSUME ServoInv, NEW n \in DOMAIN servoAssignment, Servos!servoSetTargetHighRes(n)
  PROVE  ServoInv'
<1>1. /\ DataInv /\ TimerInv /\ Servos!NotMovingMeansThere
  BY DEF ServoInv
<1> DEFINE c == servoAssignment[n]
           d == servoData[c]
<1>2. PICK target \in Targets[c] :
        /\ servoData' = [servoData EXCEPT ![c] =
             IF d.speed = 0 \/ d.target = 0 \/ target = 0
             THEN [d EXCEPT !.target = target, !.position = target, !.positionReg = Servos!Neg(target)]
             ELSE [d EXCEPT !.target = target]]
        /\ servosMovingFlag' = (servosMovingFlag \/ Servos!StartsMoving(d, target))
  BY DEF Servos!servoSetTargetHighRes
<1>3. servosMovingFlag' <=> servosMovingFlag \/ Servos!StartsMoving(d, target)
  BY <1>2, Zenon
<1>4. /\ stopping = <<>> /\ stopping' = <<>> /\ T1IE' = servosStarted
      /\ UNCHANGED <<servosStarted, servoCounter, servoPins, SEL, T1CC, active, T1IF, T1on, T1CFG,
                     early, pulses, due>>
  BY DEF Servos!servoSetTargetHighRes, Servos!Number, Servos!ghostVars
<1>5. TimerInv'
  BY <1>1, <1>4 DEF TimerInv
<1>6. CASE c \notin Servos!Channels
  <2>1. servoData' = servoData
    BY <1>1, <1>2, <1>6 DEF DataInv
  <2>2. DataInv' /\ Servos!NotMovingMeansThere'
    BY <1>1, <1>3, <2>1 DEF DataInv, Servos!NotMovingMeansThere
  <2> QED BY <1>4, <1>5, <2>2, TimerIsKept
<1>7. CASE c \in Servos!Channels
  <2>1. /\ d \in Datum /\ d.positionReg = Servos!Neg(d.position) /\ (d.position = 0 <=> d.target = 0)
        /\ target \in Width
    BY <1>1, <1>7, ServoAssumption DEF DataInv, Width, Servos!Channels
  <2>2. /\ servoData'[c] = IF d.speed = 0 \/ d.target = 0 \/ target = 0
             THEN [d EXCEPT !.target = target, !.position = target, !.positionReg = Servos!Neg(target)]
             ELSE [d EXCEPT !.target = target]
        /\ \A other \in Servos!Channels : other # c => servoData'[other] = servoData[other]
        /\ DOMAIN servoData' = Servos!Channels /\ servoData' = [x \in Servos!Channels |-> servoData'[x]]
    BY <1>1, <1>2, <1>7 DEF DataInv
  <2>3. Servos!Neg(target) \in Nat
    BY <2>1, NegOfWidth, ServoAssumption
  <2>4. /\ servoData'[c] \in Datum /\ servoData'[c].positionReg = Servos!Neg(servoData'[c].position)
        /\ servoData'[c].position = 0 <=> servoData'[c].target = 0
        /\ ~Servos!StartsMoving(d, target) =>
             servoData'[c].position = servoData'[c].target
    <3>1. CASE d.speed = 0 \/ d.target = 0 \/ target = 0
      <4>1. servoData'[c] = [d EXCEPT !.target = target, !.position = target,
                                      !.positionReg = Servos!Neg(target)]
        BY <2>2, <3>1
      <4> QED BY <2>1, <2>3, <4>1 DEF Datum
    <3>2. CASE ~(d.speed = 0 \/ d.target = 0 \/ target = 0)
      <4>1. servoData'[c] = [d EXCEPT !.target = target]
        BY <2>2, <3>2
      <4>2. ~Servos!StartsMoving(d, target) => target = d.position
        BY <3>2 DEF Servos!StartsMoving
      <4> QED BY <2>1, <3>2, <4>1, <4>2 DEF Datum
    <3> QED BY <3>1, <3>2
  <2>5. DataInv'
    <3>1. \A x \in Servos!Channels :
            /\ servoData'[x] \in Datum /\ servoData'[x].positionReg = Servos!Neg(servoData'[x].position)
            /\ servoData'[x].position = 0 <=> servoData'[x].target = 0
      <4> SUFFICES ASSUME NEW x \in Servos!Channels, x # c
                   PROVE  /\ servoData'[x] \in Datum
                          /\ servoData'[x].positionReg = Servos!Neg(servoData'[x].position)
                          /\ servoData'[x].position = 0 <=> servoData'[x].target = 0
        BY <2>4
      <4>1. servoData'[x] = servoData[x]
        BY <2>2
      <4> QED BY <1>1, <4>1 DEF DataInv
    <3>2. servoData' \in [Servos!Channels -> Datum]
      BY <2>2, <3>1
    <3> QED BY <3>1, <3>2 DEF DataInv, Servos!Neg, Servos!Channels
  <2>6. Servos!NotMovingMeansThere'
    BY <1>1, <1>3, <2>2, <2>4 DEF Servos!NotMovingMeansThere, Servos!Channels
  <2> QED BY <1>4, <1>5, <2>5, <2>6, TimerIsKept
<1> QED BY <1>6, <1>7

LEMMA SpeedKeepsServoInv ==
  ASSUME ServoInv, NEW n \in DOMAIN servoAssignment, Servos!servoSetSpeed(n)
  PROVE  ServoInv'
<1>1. /\ DataInv /\ TimerInv /\ Servos!NotMovingMeansThere
  BY DEF ServoInv
<1>2. PICK speed \in Speeds : servoData' = [servoData EXCEPT ![servoAssignment[n]].speed = speed]
  BY DEF Servos!servoSetSpeed
<1>3. /\ stopping = <<>> /\ stopping' = <<>> /\ T1IE' = servosStarted
      /\ UNCHANGED <<servosStarted, servosMovingFlag, servoCounter, servoPins, SEL, T1CC, active,
                     T1IF, T1on, T1CFG, early, pulses, due>>
  BY DEF Servos!servoSetSpeed, Servos!Number, Servos!ghostVars
<1>4. TimerInv'
  BY <1>1, <1>3 DEF TimerInv
<1>5. ASSUME NEW x \in Servos!Channels
      PROVE  /\ servoData'[x] \in Datum /\ servoData'[x].positionReg = servoData[x].positionReg
             /\ servoData'[x].position = servoData[x].position /\ servoData'[x].target = servoData[x].target
  <2>1. servoData[x] \in Datum /\ speed \in Nat
    BY <1>1, ServoAssumption DEF DataInv
  <2>2. servoData'[x] = servoData[x] \/ servoData'[x] = [servoData[x] EXCEPT !.speed = speed]
    BY <1>1, <1>2 DEF DataInv
  <2> QED BY <2>1, <2>2 DEF Datum
<1>6. servoData' \in [Servos!Channels -> Datum]
  <2>1. servoData' = [x \in Servos!Channels |-> servoData'[x]]
    BY <1>1, <1>2 DEF DataInv
  <2> QED BY <1>5, <2>1
<1>7. DataInv' /\ Servos!NotMovingMeansThere'
  BY <1>1, <1>3, <1>5, <1>6 DEF DataInv, Servos!NotMovingMeansThere, Servos!Neg, Servos!Channels
<1> QED BY <1>3, <1>4, <1>7, TimerIsKept

LEMMA ServoInvStep ==
  ASSUME ServoInv, [Servos!Next]_(Servos!vars)
  PROVE  ServoInv'
<1>1. DataInv /\ TimerInv /\ Servos!NotMovingMeansThere
  BY DEF ServoInv
<1>2. CASE Servos!ISR_T1
  BY <1>2, InterruptKeepsServoInv
<1>3. CASE Servos!PulseTime
  BY <1>3, PulseTimeKeepsServoInv
<1>4. CASE Servos!Overflow
  BY <1>4, OverflowKeepsServoInv
<1>5. CASE Servos!StopsAtOverflow
  BY <1>5, StopKeepsServoInv
<1>6. ASSUME servosStarted, stopping = <<>>, ~T1IE', stopping' # <<>>,
             UNCHANGED <<servosStarted, servoCounter, servosMovingFlag, servoData, servoPins, SEL,
                         T1CC, active, T1IF, T1on, T1CFG, early, pulses, due>>
      PROVE  ServoInv'
  <2>1. DataInv' /\ Servos!NotMovingMeansThere'
    BY <1>1, <1>6 DEF DataInv, Servos!NotMovingMeansThere
  <2>2. TimerInv'
    BY <1>1, <1>6 DEF TimerInv
  <2> QED BY <1>6, <2>1, <2>2, TimerIsKept
<1>7. ASSUME NEW pins, Servos!servosStart(pins)
      PROVE  ServoInv'
  <2>1. CASE servosStarted
    BY <1>6, <1>7, <2>1 DEF Servos!servosStart, Servos!dataVars
  <2>2. CASE ~servosStarted
    <3>1. SEL = {}
      BY <1>1, <2>2 DEF TimerInv
    <3>2. Servos!StartTimer(pins, {}) /\ stopping' = <<>>
      BY <1>7, <2>2, <3>1 DEF Servos!servosStart
    <3> QED BY <3>2, StartKeepsServoInv
  <2> QED BY <2>1, <2>2
<1>8. CASE Servos!servosStop
  BY <1>6, <1>8 DEF Servos!servosStop, Servos!dataVars, Servos!ghostVars
<1>9. CASE \E n \in DOMAIN servoAssignment :
             Servos!servoSetTargetHighRes(n) \/ Servos!servoSetSpeed(n)
  BY <1>9, TargetKeepsServoInv, SpeedKeepsServoInv
<1>10. CASE UNCHANGED Servos!vars
  <2>1. UNCHANGED <<servosStarted, servoCounter, servosMovingFlag, servoData, servoPins, SEL, T1CC,
                    active, T1IE, T1IF, T1on, T1CFG, early, stopping, pulses, due>>
    BY <1>10 DEF Servos!vars, Servos!dataVars, Servos!timerVars, Servos!ghostVars
  <2>2. DataInv' /\ Servos!NotMovingMeansThere' /\ TimerInv'
    BY <1>1, <2>1 DEF DataInv, Servos!NotMovingMeansThere, TimerInv
  <2> QED BY <2>1, <2>2, TimerIsKept
<1> QED BY <1>2, <1>3, <1>4, <1>5, <1>7, <1>8, <1>9, <1>10 DEF Servos!Next

LEMMA ServoInvIsEnough == ServoInv => ServosAreDriven
<1> SUFFICES ASSUME ServoInv PROVE ServosAreDriven
  OBVIOUS
<1>1. PulsesInv /\ Servos!NotMovingMeansThere
  BY DEF ServoInv
<1>2. ASSUME NEW c \in Servos!Channels
      PROVE  /\ pulses[c] \in {<<>>, Servos!OwnPulse(c)}
             /\ servoCounter = 6 => pulses[c] = Servos!OwnPulse(c)
  <2>1. pulses[c] = IF ToCome(Servos!Port(c)) THEN <<>> ELSE Servos!OwnPulse(c)
    BY <1>1 DEF PulsesInv
  <2>2. servoCounter = 6 => ~ToCome(Servos!Port(c))
    BY ChannelIs DEF ToCome
  <2> QED BY <2>1, <2>2
<1> QED BY <1>1, <1>2 DEF ServosAreDriven, Servos!PulseIsOwn

LEMMA PulsesAreNotCut ==
  ASSUME ServoInv, [Servos!Next]_(Servos!vars), SEL \ SEL' # {} \/ T1CFG' # T1CFG
  PROVE  early
<1>1. TimerInv
  BY DEF ServoInv
<1>2. CASE Servos!ISR_T1
  <2>1. T1IF /\ T1IE
    BY <1>2 DEF Servos!ISR_T1
  <2> QED BY <1>1, <2>1 DEF TimerInv
<1>3. CASE Servos!StopsAtOverflow
  <2>1. T1IF /\ stopping # <<>>
    BY <1>3 DEF Servos!StopsAtOverflow, Servos!OverflowCame
  <2> QED BY <1>1, <2>1 DEF TimerInv
<1>4. ASSUME UNCHANGED <<SEL, T1CFG>>
      PROVE  FALSE
  BY <1>4
<1>5. CASE Servos!PulseTime \/ Servos!Overflow \/ Servos!servosStop
  BY <1>4, <1>5 DEF Servos!PulseTime, Servos!Overflow, Servos!servosStop
<1>6. ASSUME NEW pins, Servos!servosStart(pins)
      PROVE  FALSE
  <2>1. CASE servosStarted
    BY <1>4, <1>6, <2>1 DEF Servos!servosStart
  <2>2. CASE ~servosStarted
    <3>1. SEL = {}
      BY <1>1, <2>2 DEF TimerInv
    <3>2. UNCHANGED T1CFG
      BY <1>6, <2>2 DEF Servos!servosStart, Servos!StartTimer
    <3> QED BY <3>1, <3>2
  <2> QED BY <2>1, <2>2
<1>7. CASE \E n \in DOMAIN servoAssignment :
             Servos!servoSetTargetHighRes(n) \/ Servos!servoSetSpeed(n)
  BY <1>4, <1>7 DEF Servos!servoSetTargetHighRes, Servos!servoSetSpeed
<1>8. CASE UNCHANGED Servos!vars
  BY <1>4, <1>8 DEF Servos!vars, Servos!timerVars
<1> QED BY <1>2, <1>3, <1>5, <1>6, <1>7, <1>8 DEF Servos!Next

\* A servo that is said not to move has arrived, and each gets one pulse of its
\* own width in a period, whatever starts, stops and moves meanwhile (servo.c).
THEOREM ServosStayDriven == PeripheralsSpec => []ServosAreDriven
<1>1. PeripheralsInit => ServoInv
  BY ServoInvInit DEF PeripheralsInit
<1>2. ServoInv /\ [PeripheralsNext]_peripheralVars => ServoInv'
  BY ServoInvStep, StepsAreOfTheirComponent
<1> QED BY <1>1, <1>2, ServoInvIsEnough, PTL DEF PeripheralsSpec

-----------------------------------------------------------------------------
(* The containers: circles in arrays *)

Element == Tuples \cup {NoTuple}

\* The circle holds the sequence, from a place on.
Holds(s, data, from, size) == \A i \in 1 .. Len(s) : s[i] = data[(from + i - 1) % size]

LEMMA PutAtEnd ==
  ASSUME NEW size \in Nat \ {0}, NEW from \in Nat, NEW data \in [0 .. size - 1 -> Element],
         NEW s \in Seq(Tuples), Len(s) < size, Holds(s, data, from, size), NEW t \in Tuples
  PROVE  /\ [data EXCEPT ![(from + Len(s)) % size] = t] \in [0 .. size - 1 -> Element]
         /\ Holds(Append(s, t), [data EXCEPT ![(from + Len(s)) % size] = t], from, size)
<1> DEFINE at == (from + Len(s)) % size
           d == [data EXCEPT ![at] = t]
<1>1. Len(s) \in Nat /\ Append(s, t) \in Seq(Tuples) /\ Len(Append(s, t)) = Len(s) + 1
      /\ Append(s, t)[Len(s) + 1] = t /\ \A i \in 1 .. Len(s) : Append(s, t)[i] = s[i]
  OBVIOUS
<1>2. at \in 0 .. size - 1
  BY <1>1
<1>3. ASSUME NEW i \in 1 .. Len(s)
      PROVE  d[(from + i - 1) % size] = data[(from + i - 1) % size]
  <2> DEFINE a == from + i - 1
             k == Len(s) + 1 - i
  <2>1. a \in Int /\ k \in 1 .. size - 1 /\ a + k = from + Len(s)
    BY <1>1
  <2> HIDE DEF a, k
  <2>2. (a + k) % size # a % size
    BY <2>1, SlotsDiffer
  <2>3. a % size \in 0 .. size - 1
    BY <2>1
  <2>4. at # a % size
    BY <2>1, <2>2
  <2> HIDE DEF at
  <2>5. d[a % size] = data[a % size]
    BY <2>3, <2>4
  <2> QED BY <2>5 DEF a
<1>4. d[at] = t
  BY <1>2
<1>5. d \in [0 .. size - 1 -> Element]
  BY DEF Element
<1> HIDE DEF d
<1>6. ASSUME NEW i \in 1 .. Len(s) + 1
      PROVE  Append(s, t)[i] = d[(from + i - 1) % size]
  <2>1. CASE i \in 1 .. Len(s)
    <3>1. Append(s, t)[i] = s[i]
      BY <1>1, <2>1
    <3>2. s[i] = data[(from + i - 1) % size]
      BY <2>1 DEF Holds
    <3>3. d[(from + i - 1) % size] = data[(from + i - 1) % size]
      BY <1>3, <2>1
    <3> QED BY <3>1, <3>2, <3>3
  <2>2. CASE i = Len(s) + 1
    <3>1. from + i - 1 = from + Len(s)
      BY <1>1, <2>2
    <3>2. d[(from + i - 1) % size] = t
      BY <1>4, <3>1
    <3> QED BY <1>1, <2>2, <3>2
  <2> QED BY <1>1, <2>1, <2>2
<1>7. Holds(Append(s, t), d, from, size)
  BY <1>1, <1>6 DEF Holds
<1> QED BY <1>5, <1>7 DEF d

LEMMA TakeFirst ==
  ASSUME NEW size \in Nat \ {0}, NEW from \in Nat, NEW data, NEW s \in Seq(Tuples),
         Holds(s, data, from, size), NEW n \in 0 .. Len(s), NEW onward \in Nat,
         onward % size = (from + n) % size
  PROVE  /\ SubSeq(s, n + 1, Len(s)) \in Seq(Tuples)
         /\ Len(SubSeq(s, n + 1, Len(s))) = Len(s) - n
         /\ Holds(SubSeq(s, n + 1, Len(s)), data, onward, size)
<1> DEFINE rest == SubSeq(s, n + 1, Len(s))
<1>1. Len(s) \in Nat /\ rest \in Seq(Tuples) /\ Len(rest) = Len(s) - n
      /\ \A i \in 1 .. Len(s) - n : rest[i] = s[n + i]
  OBVIOUS
<1> HIDE DEF rest
<1>2. ASSUME NEW i \in 1 .. Len(s) - n
      PROVE  rest[i] = data[(onward + i - 1) % size]
  <2>1. n + i \in 1 .. Len(s) /\ i - 1 \in Int /\ from + n \in Int /\ onward \in Int
    BY <1>1
  <2>2. rest[i] = s[n + i]
    BY <1>1
  <2>3. s[n + i] = data[(from + (n + i) - 1) % size]
    BY <2>1 DEF Holds
  <2>4. ((onward % size) + (i - 1)) % size = (onward + (i - 1)) % size
    BY <2>1, RemainderOfSum, Zenon
  <2>5. (((from + n) % size) + (i - 1)) % size = ((from + n) + (i - 1)) % size
    BY <2>1, RemainderOfSum, Zenon
  <2>6. (onward + (i - 1)) % size = ((from + n) + (i - 1)) % size
    BY <2>4, <2>5, Zenon
  <2>7. onward + (i - 1) = onward + i - 1 /\ (from + n) + (i - 1) = from + (n + i) - 1
    BY <2>1
  <2>8. (onward + i - 1) % size = (from + (n + i) - 1) % size
    BY <2>6, <2>7, Zenon
  <2> QED BY <2>2, <2>3, <2>8, Zenon
<1>3. Holds(rest, data, onward, size)
  BY <1>1, <1>2 DEF Holds
<1> QED BY <1>1, <1>3 DEF rest

\* What a circle holds is what ContentsAreRight reads from it.
LEMMA HeldIsCircle ==
  ASSUME NEW size, NEW from, NEW data, NEW s \in Seq(Tuples), Holds(s, data, from, size)
  PROVE  s = Container!Circle(data, from, Len(s), size)
<1>1. Container!Circle(data, from, Len(s), size) = [i \in 1 .. Len(s) |-> data[(from + i - 1) % size]]
  BY DEF Container!Circle
<1>2. s = [i \in 1 .. Len(s) |-> s[i]]
  OBVIOUS
<1> QED BY <1>1, <1>2 DEF Holds

LEMMA NextOfEnd ==
  ASSUME NEW size \in Nat \ {0}, NEW from \in Int, NEW n \in Int
  PROVE  (((from + n) % size) + 1) % size = (from + (n + 1)) % size
<1>1. from + n \in Int /\ 1 \in Int /\ (from + n) + 1 = from + (n + 1)
  OBVIOUS
<1>2. (((from + n) % size) + 1) % size = ((from + n) + 1) % size
  BY <1>1, RemainderOfSum, Zenon
<1> QED BY <1>1, <1>2, Zenon

\* A circle that is one place short of a round, or not.
LEMMA EndOfCircle ==
  ASSUME NEW size \in Nat \ {0}, NEW from \in 0 .. size - 1, NEW n \in 0 .. size - 1,
         NEW to, to = (from + n) % size
  PROVE  /\ to \in 0 .. size - 1
         /\ Container!Distance(from, to, size) = n
         /\ (to + 1) % size = from <=> n = size - 1
         /\ to = from <=> n = 0
<1>1. from + n \in Int /\ from \in Int /\ n \in Int
  OBVIOUS
<1>2. to \in 0 .. size - 1
  BY <1>1
<1>3. Container!Distance(from, to, size) = n
  BY DistanceBack DEF Container!Distance
<1>4. (to + 1) % size = (from + (n + 1)) % size
  BY <1>1, NextOfEnd, Zenon
<1>5. from % size = from /\ (from + size) % size = from
  BY RemainderOfRound
<1>6. (to + 1) % size = from <=> n = size - 1
  <2>1. CASE n = size - 1
    <3>1. from + (n + 1) = from + size
      BY <2>1
    <3> QED BY <1>4, <1>5, <2>1, <3>1
  <2>2. CASE n # size - 1
    <3>1. n + 1 \in 1 .. size - 1
      BY <2>2
    <3>2. (from + (n + 1)) % size # from % size
      BY <1>1, <3>1, SlotsDiffer
    <3> QED BY <1>4, <1>5, <2>2, <3>2
  <2> QED BY <2>1, <2>2
<1>7. to = from <=> n = 0
  <2>1. CASE n = 0
    <3>1. from + n = from
      BY <2>1
    <3> QED BY <1>5, <2>1, <3>1
  <2>2. CASE n # 0
    <3>1. n \in 1 .. size - 1
      BY <2>2
    <3>2. (from + n) % size # from % size
      BY <1>1, <3>1, SlotsDiffer
    <3> QED BY <1>5, <2>2, <3>2
  <2> QED BY <2>1, <2>2
<1> QED BY <1>2, <1>3, <1>6, <1>7

-----------------------------------------------------------------------------
(* queue *)

QueueInv ==
  /\ queue \in [head : 0 .. QContSize - 1, tail : 0 .. QContSize - 1,
                data : [0 .. QContSize - 1 -> Element]]
  /\ queued \in Seq(Tuples) /\ Len(queued) < QContSize
  /\ queue.tail = (queue.head + Len(queued)) % QContSize
  /\ Holds(queued, queue.data, queue.head + 1, QContSize)

\* The places of the queue, and the next of each.
LEMMA QueueIs ==
  ASSUME QueueInv
  PROVE  /\ QContSize \in Nat \ {0} /\ QContSize > 1
         /\ queue.head \in 0 .. QContSize - 1 /\ queue.tail \in 0 .. QContSize - 1
         /\ queue.data \in [0 .. QContSize - 1 -> Element]
         /\ queued \in Seq(Tuples) /\ Len(queued) \in 0 .. QContSize - 1
         /\ Container!AfterSlot(queue.tail) = (queue.head + 1 + Len(queued)) % QContSize
         /\ Container!AfterSlot(queue.tail) = queue.head <=> Len(queued) = QContSize - 1
         /\ queue.tail = queue.head <=> Len(queued) = 0
         /\ Container!Distance(queue.head, queue.tail, QContSize) = Len(queued)
<1>1. QContSize \in Nat \ {0} /\ QContSize > 1
  BY ContainerAssumption
<1>2. /\ queue.head \in 0 .. QContSize - 1 /\ queue.tail \in 0 .. QContSize - 1
      /\ queue.data \in [0 .. QContSize - 1 -> Element] /\ queued \in Seq(Tuples)
  BY DEF QueueInv
<1>3. Len(queued) \in 0 .. QContSize - 1
  BY <1>1, <1>2 DEF QueueInv
<1>4. /\ Container!Distance(queue.head, queue.tail, QContSize) = Len(queued)
      /\ (queue.tail + 1) % QContSize = (queue.head + (Len(queued) + 1)) % QContSize
      /\ (queue.tail + 1) % QContSize = queue.head <=> Len(queued) = QContSize - 1
      /\ queue.tail = queue.head <=> Len(queued) = 0
  <2> DEFINE from == queue.head
             to == queue.tail
             n == Len(queued)
  <2>1. to = (from + n) % QContSize
    BY DEF QueueInv
  <2>2. from \in 0 .. QContSize - 1 /\ n \in 0 .. QContSize - 1
    BY <1>2, <1>3
  <2> HIDE DEF from, to, n
  <2>3. Container!Distance(from, to, QContSize) = n
    BY <1>1, <2>1, <2>2, EndOfCircle
  <2>4. (to + 1) % QContSize = (from + (n + 1)) % QContSize
    <3>1. from \in Int /\ n \in Int
      BY <2>2
    <3> QED BY <1>1, <2>1, <3>1, NextOfEnd, Zenon
  <2>5. (to + 1) % QContSize = from <=> n = QContSize - 1
    BY <1>1, <2>1, <2>2, EndOfCircle
  <2>6. to = from <=> n = 0
    BY <1>1, <2>1, <2>2, EndOfCircle
  <2> QED BY <2>3, <2>4, <2>5, <2>6 DEF from, to, n
<1>5. queue.head + (Len(queued) + 1) = queue.head + 1 + Len(queued)
  BY <1>2, <1>3
<1> QED BY <1>1, <1>2, <1>3, <1>4, <1>5 DEF Container!AfterSlot

LEMMA QueueInvInit == Container!Init => QueueInv
<1> SUFFICES ASSUME Container!Init PROVE QueueInv
  OBVIOUS
<1>1. /\ queue = [head |-> 0, tail |-> 0, data |-> [i \in 0 .. QContSize - 1 |-> NoTuple]]
      /\ queued = <<>>
  BY DEF Container!Init
<1>2. QContSize \in Nat \ {0}
  BY ContainerAssumption
<1>3. 0 \in 0 .. QContSize - 1 /\ (0 + 0) % QContSize = 0
  <2>1. 0 \in 0 .. QContSize - 1 /\ 0 + 0 = 0
    BY <1>2
  <2> QED BY <1>2, <2>1, RemainderOfRound
<1> QED BY <1>1, <1>2, <1>3 DEF QueueInv, Holds, Element

\* An element goes into the slot after the tail.
LEMMA PutKeepsQueueInv ==
  ASSUME QueueInv, NEW t \in Tuples, Container!AfterSlot(queue.tail) # queue.head,
         queue' = Container!Put(queue, t), queued' = Append(queued, t)
  PROVE  QueueInv'
<1> DEFINE slot == (queue.head + 1 + Len(queued)) % QContSize
<1>1. /\ queue.head \in 0 .. QContSize - 1 /\ queue.data \in [0 .. QContSize - 1 -> Element]
      /\ Len(queued) \in 0 .. QContSize - 2 /\ queued \in Seq(Tuples)
      /\ Container!AfterSlot(queue.tail) = slot /\ QContSize \in Nat \ {0}
  BY QueueIs
<1>2. queue' = [queue EXCEPT !.data[slot] = t, !.tail = slot]
  BY <1>1 DEF Container!Put
<1>3. slot \in 0 .. QContSize - 1
  <2> DEFINE n == queue.head + 1 + Len(queued)
  <2>1. n \in Int /\ QContSize \in Nat \ {0}
    BY <1>1
  <2> HIDE DEF n
  <2>2. n % QContSize \in 0 .. QContSize - 1
    BY <2>1
  <2> QED BY <2>2 DEF n
<1> DEFINE d == [queue.data EXCEPT ![slot] = t]
<1>4. /\ d \in [0 .. QContSize - 1 -> Element]
      /\ Holds(Append(queued, t), d, queue.head + 1, QContSize)
  <2>1. queue.head + 1 \in Nat /\ Len(queued) < QContSize /\ Holds(queued, queue.data, queue.head + 1, QContSize)
    BY <1>1 DEF QueueInv
  <2> QED BY <1>1, <2>1, PutAtEnd
<1>5. queue' = [head |-> queue.head, tail |-> slot, data |-> d]
  <2> HIDE DEF slot
  <2> QED BY <1>2 DEF QueueInv
<1>6. slot = (queue.head + Len(queued')) % QContSize
  <2>1. queue.head + 1 + Len(queued) = queue.head + Len(queued')
    BY <1>1
  <2> QED BY <2>1
<1>7. queued' \in Seq(Tuples) /\ Len(queued') < QContSize
  BY <1>1
<1> HIDE DEF slot, d
<1>8. queue'.head = queue.head /\ queue'.tail = slot /\ queue'.data = d
  BY <1>5
<1>9. Holds(queued', queue'.data, queue'.head + 1, QContSize)
  BY <1>4, <1>8
<1> QED BY <1>1, <1>3, <1>4, <1>5, <1>6, <1>7, <1>8, <1>9 DEF QueueInv, Holds, Element

\* The oldest element goes, and the head moves to its slot.
LEMMA PopKeepsQueueInv ==
  ASSUME QueueInv, queue.head # queue.tail,
         queue' = [queue EXCEPT !.head = Container!AfterSlot(@)], queued' = Tail(queued)
  PROVE  QueueInv'
<1> DEFINE next == Container!AfterSlot(queue.head)
<1>1. /\ queue.head \in 0 .. QContSize - 1 /\ queue.tail \in 0 .. QContSize - 1
      /\ queue.data \in [0 .. QContSize - 1 -> Element]
      /\ Len(queued) \in 1 .. QContSize - 1 /\ queued \in Seq(Tuples) /\ QContSize \in Nat \ {0}
  BY QueueIs
<1>2. next \in 0 .. QContSize - 1 /\ next = (queue.head + 1) % QContSize
  BY <1>1 DEF Container!AfterSlot
<1>3. (next + 1) % QContSize = ((queue.head + 1) + 1) % QContSize
  <2>1. queue.head + 1 \in Int /\ 1 \in Int
    BY <1>1
  <2> QED BY <1>1, <1>2, <2>1, RemainderOfSum, Zenon
<1> HIDE DEF next
<1>4. queue' = [head |-> next, tail |-> queue.tail, data |-> queue.data]
  BY DEF QueueInv, next
<1>5. queue'.head = next /\ queue'.tail = queue.tail /\ queue'.data = queue.data
  BY <1>4
<1>6. Tail(queued) = SubSeq(queued, 1 + 1, Len(queued))
  BY <1>1
<1>7. /\ queued' \in Seq(Tuples) /\ Len(queued') = Len(queued) - 1
      /\ Holds(queued', queue.data, next + 1, QContSize)
  <2>1. /\ queue.head + 1 \in Nat /\ next + 1 \in Nat /\ 1 \in 0 .. Len(queued)
        /\ Holds(queued, queue.data, queue.head + 1, QContSize)
    BY <1>1, <1>2 DEF QueueInv
  <2>2. /\ SubSeq(queued, 1 + 1, Len(queued)) \in Seq(Tuples)
        /\ Len(SubSeq(queued, 1 + 1, Len(queued))) = Len(queued) - 1
        /\ Holds(SubSeq(queued, 1 + 1, Len(queued)), queue.data, next + 1, QContSize)
    BY <1>1, <1>3, <2>1, TakeFirst
  <2> QED BY <1>6, <2>2
<1>8. queue.tail = (next + Len(queued')) % QContSize
  <2> DEFINE n == Len(queued) - 1
  <2>1. queue.head + 1 \in Int /\ n \in Int /\ (queue.head + 1) + n = queue.head + Len(queued)
    BY <1>1
  <2>2. queue.tail = (queue.head + Len(queued)) % QContSize
    BY DEF QueueInv
  <2> HIDE DEF n
  <2>3. (next + n) % QContSize = ((queue.head + 1) + n) % QContSize
    BY <1>1, <1>2, <2>1, RemainderOfSum, Zenon
  <2>4. (next + n) % QContSize = queue.tail
    BY <2>1, <2>2, <2>3, Zenon
  <2> QED BY <1>7, <2>4 DEF n
<1>9. Len(queued') < QContSize
  BY <1>1, <1>7
<1> QED BY <1>1, <1>2, <1>4, <1>5, <1>7, <1>8, <1>9 DEF QueueInv, Holds, Element

\* The oldest element makes room for one that is forced in.
LEMMA ForcedKeepsQueueInv ==
  ASSUME QueueInv, NEW t \in Tuples, Container!AfterSlot(queue.tail) = queue.head,
         queue' = Container!Forced(queue, t), queued' = Append(Tail(queued), t)
  PROVE  QueueInv'
<1> DEFINE next == Container!AfterSlot(queue.head)
           slot == queue.head
           rest == SubSeq(queued, 1 + 1, Len(queued))
           d == [queue.data EXCEPT ![slot] = t]
<1>1. /\ slot \in 0 .. QContSize - 1 /\ queue.data \in [0 .. QContSize - 1 -> Element]
      /\ Len(queued) = QContSize - 1 /\ queued \in Seq(Tuples)
      /\ QContSize \in Nat \ {0} /\ QContSize > 1
  BY QueueIs
<1>2. next \in 0 .. QContSize - 1 /\ next = (queue.head + 1) % QContSize
  BY <1>1 DEF Container!AfterSlot
<1>3. (next + 1) % QContSize = ((queue.head + 1) + 1) % QContSize
  <2>1. queue.head + 1 \in Int /\ 1 \in Int
    BY <1>1
  <2> QED BY <1>1, <1>2, <2>1, RemainderOfSum, Zenon
<1>4. queue' = [head |-> next, tail |-> slot, data |-> d]
  <2>1. Container!Put(queue, t) = [head |-> slot, tail |-> slot, data |-> d]
    <3>1. Container!Put(queue, t) = [queue EXCEPT !.data[slot] = t, !.tail = slot]
      BY DEF Container!Put
    <3>2. queue.head = slot
      OBVIOUS
    <3> HIDE DEF slot
    <3> QED BY <3>1, <3>2 DEF QueueInv
  <2>2. queue' = [Container!Put(queue, t) EXCEPT !.head = Container!AfterSlot(@)]
    BY DEF Container!Forced
  <2> QED BY <2>1, <2>2
<1> HIDE DEF next
<1>5. Tail(queued) = rest
  BY <1>1
<1>6. /\ rest \in Seq(Tuples) /\ Len(rest) = QContSize - 2
      /\ Holds(rest, queue.data, next + 1, QContSize)
  <2>1. /\ queue.head + 1 \in Nat /\ next + 1 \in Nat /\ 1 \in 0 .. Len(queued)
        /\ Holds(queued, queue.data, queue.head + 1, QContSize)
    BY <1>1, <1>2 DEF QueueInv
  <2>2. rest \in Seq(Tuples) /\ Len(rest) = Len(queued) - 1
    BY <1>1, <1>3, <2>1, TakeFirst
  <2>3. Holds(rest, queue.data, next + 1, QContSize)
    BY <1>1, <1>3, <2>1, TakeFirst
  <2> QED BY <1>1, <2>2, <2>3
<1> HIDE DEF rest
<1>7. (next + (QContSize - 1)) % QContSize = slot
  <2>1. queue.head + 1 \in Int /\ QContSize - 1 \in Int /\ (queue.head + 1) + (QContSize - 1) = queue.head + QContSize
    <3>1. queue.head \in Int /\ QContSize \in Int
      BY <1>1
    <3> QED BY ONLY <3>1
  <2>2. (next + (QContSize - 1)) % QContSize = ((queue.head + 1) + (QContSize - 1)) % QContSize
    BY <1>1, <1>2, <2>1, RemainderOfSum, Zenon
  <2>3. (queue.head + QContSize) % QContSize = queue.head
    BY <1>1, RemainderOfRound
  <2> QED BY <2>1, <2>2, <2>3
<1>8. next + 1 + Len(rest) = next + (QContSize - 1)
  BY <1>1, <1>2, <1>6
<1>9. d \in [0 .. QContSize - 1 -> Element] /\ Holds(Append(rest, t), d, next + 1, QContSize)
  <2>1. next + 1 \in Nat /\ Len(rest) < QContSize
    BY <1>1, <1>2, <1>6
  <2>2. d = [queue.data EXCEPT ![(next + 1 + Len(rest)) % QContSize] = t]
    BY <1>7, <1>8
  <2> HIDE DEF d
  <2> QED BY <1>1, <1>6, <2>1, <2>2, PutAtEnd
<1> HIDE DEF d, slot
<1>10. queue'.head = next /\ queue'.tail = slot /\ queue'.data = d
  BY <1>4
<1>11. queued' = Append(rest, t) /\ queued' \in Seq(Tuples) /\ Len(queued') = QContSize - 1
  BY <1>1, <1>5, <1>6
<1>12. slot = (next + Len(queued')) % QContSize
  BY <1>7, <1>11
<1>13. Len(queued') < QContSize
  BY <1>1, <1>11
<1> QED BY <1>1, <1>2, <1>4, <1>9, <1>10, <1>11, <1>12, <1>13 DEF QueueInv, Holds, Element

LEMMA QueueInvStep ==
  ASSUME QueueInv, Container!QPush \/ Container!QPushForce \/ Container!QPop \/ UNCHANGED <<queue, queued>>
  PROVE  QueueInv'
<1>1. CASE UNCHANGED <<queue, queued>>
  BY <1>1 DEF QueueInv, Holds, Element
<1>2. CASE Container!QPush
  BY <1>1, <1>2, PutKeepsQueueInv DEF Container!QPush
<1>3. CASE Container!QPushForce
  BY <1>3, PutKeepsQueueInv, ForcedKeepsQueueInv DEF Container!QPushForce
<1>4. CASE Container!QPop
  BY <1>4, PopKeepsQueueInv DEF Container!QPop
<1> QED BY <1>1, <1>2, <1>3, <1>4

-----------------------------------------------------------------------------
(* stack *)

StackInv ==
  /\ stack \in [top : 0 .. SContSize, data : [0 .. SContSize - 1 -> Element]]
  /\ stacked \in Seq(Tuples) /\ Len(stacked) = stack.top
  /\ \A i \in 1 .. stack.top : stacked[i] = stack.data[i - 1]

LEMMA StackInvInit == Container!Init => StackInv
<1> SUFFICES ASSUME Container!Init PROVE StackInv
  OBVIOUS
<1>1. stack = [top |-> 0, data |-> [i \in 0 .. SContSize - 1 |-> NoTuple]] /\ stacked = <<>>
  BY DEF Container!Init
<1> QED BY <1>1, ContainerAssumption DEF StackInv, Element

LEMMA StackInvStep ==
  ASSUME StackInv, Container!SPush \/ Container!SPop \/ UNCHANGED <<stack, stacked>>
  PROVE  StackInv'
<1>1. CASE UNCHANGED <<stack, stacked>>
  BY <1>1 DEF StackInv, Element
<1>2. /\ stack.top \in 0 .. SContSize /\ stack.data \in [0 .. SContSize - 1 -> Element]
      /\ stacked \in Seq(Tuples) /\ Len(stacked) = stack.top /\ SContSize \in Nat
      /\ \A i \in 1 .. stack.top : stacked[i] = stack.data[i - 1]
  BY ContainerAssumption DEF StackInv
<1>3. ASSUME NEW t \in Tuples, stack.top < SContSize, stacked' = Append(stacked, t),
             stack' = [data |-> [stack.data EXCEPT ![stack.top] = t], top |-> stack.top + 1]
      PROVE  StackInv'
  <2>1. stack'.top = stack.top + 1 /\ stack'.data = [stack.data EXCEPT ![stack.top] = t]
    BY <1>3
  <2>2. stack' \in [top : 0 .. SContSize, data : [0 .. SContSize - 1 -> Element]]
    <3>1. stack.top + 1 \in 0 .. SContSize
      BY <1>2, <1>3
    <3>2. [stack.data EXCEPT ![stack.top] = t] \in [0 .. SContSize - 1 -> Element]
      BY <1>2 DEF Element
    <3> QED BY <1>3, <3>1, <3>2
  <2>3. stacked' \in Seq(Tuples) /\ Len(stacked') = stack.top + 1 /\ stacked'[stack.top + 1] = t
        /\ \A i \in 1 .. stack.top : stacked'[i] = stacked[i]
    BY <1>2, <1>3
  <2>4. \A i \in 1 .. stack.top + 1 :
          [stack.data EXCEPT ![stack.top] = t][i - 1] = IF i = stack.top + 1 THEN t ELSE stack.data[i - 1]
    BY <1>2, <1>3
  <2>5. \A i \in 1 .. stack.top + 1 : i # stack.top + 1 => i \in 1 .. stack.top
    BY <1>2
  <2>6. \A i \in 1 .. stack.top + 1 : stacked'[i] = stack'.data[i - 1]
    BY <1>2, <2>1, <2>3, <2>4, <2>5
  <2> QED BY <2>1, <2>2, <2>3, <2>6 DEF StackInv, Element
<1>4. CASE Container!SPush
  BY <1>1, <1>3, <1>4 DEF Container!SPush
<1>5. CASE Container!SPop
  <2>1. stack.top > 0 /\ stack' = [stack EXCEPT !.top = @ - 1]
        /\ stacked' = SubSeq(stacked, 1, Len(stacked) - 1)
    BY <1>5 DEF Container!SPop, Container!Front
  <2>2. stack'.top = stack.top - 1 /\ stack'.data = stack.data
        /\ stack' = [top |-> stack.top - 1, data |-> stack.data]
    BY <2>1 DEF StackInv
  <2>3. stack' \in [top : 0 .. SContSize, data : [0 .. SContSize - 1 -> Element]]
    <3>1. stack.top - 1 \in 0 .. SContSize
      BY <1>2, <2>1
    <3> QED BY <1>2, <2>2, <3>1
  <2>4. stacked' \in Seq(Tuples) /\ Len(stacked') = stack.top - 1
        /\ \A i \in 1 .. stack.top - 1 : stacked'[i] = stacked[i]
    BY <1>2, <2>1
  <2>5. \A i \in 1 .. stack.top - 1 : i \in 1 .. stack.top
    BY <1>2
  <2> QED BY <1>2, <2>2, <2>3, <2>4, <2>5 DEF StackInv, Element
<1> QED BY <1>1, <1>4, <1>5

-----------------------------------------------------------------------------
(* reporting *)

ReportInv ==
  /\ report \in [head : 0 .. BUFSIZE - 1, tail : 0 .. BUFSIZE - 1,
                 data : [0 .. BUFSIZE - 1 -> Element], overflow : BOOLEAN]
  /\ written \in Seq(Tuples) /\ Len(written) < BUFSIZE
  /\ report.head = (report.tail + Len(written)) % BUFSIZE
  /\ Holds(written, report.data, report.tail, BUFSIZE)

LEMMA ReportIs ==
  ASSUME ReportInv
  PROVE  /\ BUFSIZE \in Nat \ {0}
         /\ report.head \in 0 .. BUFSIZE - 1 /\ report.tail \in 0 .. BUFSIZE - 1
         /\ report.data \in [0 .. BUFSIZE - 1 -> Element]
         /\ written \in Seq(Tuples) /\ Len(written) \in 0 .. BUFSIZE - 1
         /\ (report.head + 1) % BUFSIZE = (report.tail + (Len(written) + 1)) % BUFSIZE
         /\ Container!bufferfull <=> Len(written) = BUFSIZE - 1
         /\ Container!bufferempty <=> Len(written) = 0
         /\ Container!Distance(report.tail, report.head, BUFSIZE) = Len(written)
         /\ Container!bufferdatasize = Len(written)
<1>1. BUFSIZE \in Nat \ {0}
  BY ContainerAssumption
<1>2. /\ report.head \in 0 .. BUFSIZE - 1 /\ report.tail \in 0 .. BUFSIZE - 1
      /\ report.data \in [0 .. BUFSIZE - 1 -> Element] /\ written \in Seq(Tuples)
  BY DEF ReportInv
<1>3. Len(written) \in 0 .. BUFSIZE - 1
  BY <1>1, <1>2 DEF ReportInv
<1> DEFINE from == report.tail
           to == report.head
           n == Len(written)
<1>4. to = (from + n) % BUFSIZE
  BY DEF ReportInv
<1>5. from \in 0 .. BUFSIZE - 1 /\ n \in 0 .. BUFSIZE - 1 /\ to \in 0 .. BUFSIZE - 1
  BY <1>2, <1>3
<1>6. Container!bufferfull <=> (to + 1) % BUFSIZE = from
  BY DEF Container!bufferfull
<1>7. Container!bufferempty <=> to = from
  BY DEF Container!bufferempty
<1>8. Container!bufferdatasize =
        IF Container!bufferempty THEN 0 ELSE IF Container!bufferfull THEN BUFSIZE - 1
        ELSE IF to > from THEN to - from ELSE BUFSIZE - from + to
  BY DEF Container!bufferdatasize
<1> HIDE DEF from, to, n
<1>9. Container!Distance(from, to, BUFSIZE) = n
  BY <1>1, <1>4, <1>5, EndOfCircle
<1>10. (to + 1) % BUFSIZE = (from + (n + 1)) % BUFSIZE
  <2>1. from \in Int /\ n \in Int
    BY <1>5
  <2> QED BY <1>1, <1>4, <2>1, NextOfEnd, Zenon
<1>11. (to + 1) % BUFSIZE = from <=> n = BUFSIZE - 1
  <2>1. from \in 0 .. BUFSIZE - 1 /\ n \in 0 .. BUFSIZE - 1
    BY <1>5
  <2> QED BY ONLY <1>1, <1>4, <2>1, EndOfCircle
<1>12. to = from <=> n = 0
  <2>1. from \in 0 .. BUFSIZE - 1 /\ n \in 0 .. BUFSIZE - 1
    BY <1>5
  <2> QED BY ONLY <1>1, <1>4, <2>1, EndOfCircle
<1>13. to = IF from + n < BUFSIZE THEN from + n ELSE from + n - BUFSIZE
  <2> DEFINE sum == from + n
  <2>1. sum \in Int /\ sum >= 0 /\ sum < 2 * BUFSIZE /\ BUFSIZE \in Nat \ {0}
    BY <1>1, <1>5
  <2> HIDE DEF sum
  <2>2. sum % BUFSIZE = IF sum < BUFSIZE THEN sum ELSE sum - BUFSIZE
    BY ONLY <2>1, RemainderOnce
  <2>3. to = sum % BUFSIZE
    BY <1>4 DEF sum
  <2>4. to = IF sum < BUFSIZE THEN sum ELSE sum - BUFSIZE
    BY ONLY <2>2, <2>3
  <2>5. sum = from + n /\ from \in Int /\ n \in Int /\ BUFSIZE \in Int /\ to \in Int
    BY <1>1, <1>5 DEF sum
  <2> QED BY ONLY <2>4, <2>5
<1>14. Container!bufferdatasize = n
  <2>1. CASE n = 0 \/ n = BUFSIZE - 1
    <3>1. BUFSIZE - 1 = 0 \/ BUFSIZE - 1 # 0
      OBVIOUS
    <3> QED BY <1>6, <1>7, <1>8, <1>11, <1>12, <2>1
  <2>2. CASE n # 0 /\ n # BUFSIZE - 1
    <3>1. Container!bufferdatasize = IF to > from THEN to - from ELSE BUFSIZE - from + to
      BY <1>6, <1>7, <1>8, <1>11, <1>12, <2>2
    <3> QED BY <1>1, <1>5, <1>13, <2>2, <3>1
  <2> QED BY <2>1, <2>2
<1> QED BY <1>1, <1>2, <1>3, <1>6, <1>7, <1>9, <1>10, <1>11, <1>12, <1>14 DEF from, to, n

LEMMA ReportInvInit == Container!Init => ReportInv
<1> SUFFICES ASSUME Container!Init PROVE ReportInv
  OBVIOUS
<1>1. /\ report = [head |-> 0, tail |-> 0, data |-> [i \in 0 .. BUFSIZE - 1 |-> NoTuple],
                   overflow |-> FALSE]
      /\ written = <<>>
  BY DEF Container!Init
<1>2. BUFSIZE \in Nat \ {0}
  BY ContainerAssumption
<1>3. 0 \in 0 .. BUFSIZE - 1 /\ (0 + 0) % BUFSIZE = 0
  <2>1. 0 \in 0 .. BUFSIZE - 1 /\ 0 + 0 = 0
    BY <1>2
  <2> QED BY <1>2, <2>1, RemainderOfRound
<1> QED BY <1>1, <1>2, <1>3 DEF ReportInv, Holds, Element

LEMMA PutcharKeepsReportInv ==
  ASSUME ReportInv, NEW c \in Tuples, ~Container!bufferfull, written' = Append(written, c),
         report' = [report EXCEPT !.data[report.head] = c, !.head = Container!Wrapped(@),
                                  !.overflow = FALSE]
  PROVE  ReportInv'
<1> DEFINE slot == report.head
           next == Container!Wrapped(report.head)
           d == [report.data EXCEPT ![slot] = c]
<1>1. /\ slot \in 0 .. BUFSIZE - 1 /\ report.tail \in 0 .. BUFSIZE - 1
      /\ report.data \in [0 .. BUFSIZE - 1 -> Element]
      /\ written \in Seq(Tuples) /\ Len(written) \in 0 .. BUFSIZE - 2
      /\ (slot + 1) % BUFSIZE = (report.tail + (Len(written) + 1)) % BUFSIZE
      /\ BUFSIZE \in Nat \ {0}
  BY ReportIs
<1>2. next \in 0 .. BUFSIZE - 1 /\ next = (slot + 1) % BUFSIZE
  <2> DEFINE on == slot + 1
  <2>1. on \in Int /\ on >= 0 /\ on < 2 * BUFSIZE /\ BUFSIZE \in Nat \ {0}
    BY <1>1
  <2>2. next = IF slot < BUFSIZE - 1 THEN on ELSE 0
    BY DEF Container!Wrapped
  <2>3. slot \in 0 .. BUFSIZE - 1
    BY <1>1
  <2> HIDE DEF slot, next
  <2>4. IF slot < BUFSIZE - 1 THEN on < BUFSIZE ELSE on = BUFSIZE
    BY <1>1, <2>3
  <2> HIDE DEF on
  <2>5. on % BUFSIZE = IF on < BUFSIZE THEN on ELSE on - BUFSIZE
    BY ONLY <2>1, RemainderOnce
  <2>6. next = on % BUFSIZE /\ next \in 0 .. BUFSIZE - 1
    BY <2>1, <2>2, <2>4, <2>5
  <2> QED BY <2>6 DEF on
<1>3. report' = [head |-> next, tail |-> report.tail, data |-> d, overflow |-> FALSE]
  <2>1. report' = [report EXCEPT !.data[slot] = c, !.head = next, !.overflow = FALSE]
    BY DEF Container!Wrapped
  <2> HIDE DEF slot, next
  <2> QED BY <2>1 DEF ReportInv
<1>4. d \in [0 .. BUFSIZE - 1 -> Element] /\ Holds(Append(written, c), d, report.tail, BUFSIZE)
  <2>1. report.tail \in Nat /\ Len(written) < BUFSIZE /\ Holds(written, report.data, report.tail, BUFSIZE)
    BY <1>1 DEF ReportInv
  <2>2. slot = (report.tail + Len(written)) % BUFSIZE
    BY DEF ReportInv
  <2>3. d = [report.data EXCEPT ![(report.tail + Len(written)) % BUFSIZE] = c]
    BY <2>2
  <2> HIDE DEF slot, d
  <2> QED BY <1>1, <2>1, <2>3, PutAtEnd
<1>5. report'.head = next /\ report'.tail = report.tail /\ report'.data = d
  <2> HIDE DEF slot, next, d
  <2>1. report'.head = next
    BY ONLY <1>3
  <2>2. report'.tail = report.tail
    BY ONLY <1>3
  <2>3. report'.data = d
    BY ONLY <1>3
  <2> QED BY <2>1, <2>2, <2>3
<1> HIDE DEF slot, next, d
<1>6. written' \in Seq(Tuples) /\ Len(written') = Len(written) + 1 /\ Len(written') < BUFSIZE
  BY <1>1
<1>7. next = (report.tail + Len(written')) % BUFSIZE
  BY <1>1, <1>2, <1>6
<1> QED BY <1>1, <1>2, <1>3, <1>4, <1>5, <1>6, <1>7 DEF ReportInv, Holds, Element

LEMMA TakeKeepsReportInv ==
  ASSUME ReportInv, NEW n \in 0 .. Len(written), Container!Take(n)
  PROVE  ReportInv'
<1> DEFINE next == (report.tail + n) % BUFSIZE
<1>1. /\ report.head \in 0 .. BUFSIZE - 1 /\ report.tail \in 0 .. BUFSIZE - 1
      /\ report.data \in [0 .. BUFSIZE - 1 -> Element]
      /\ written \in Seq(Tuples) /\ Len(written) \in 0 .. BUFSIZE - 1 /\ BUFSIZE \in Nat \ {0}
  BY ReportIs
<1>2. next \in 0 .. BUFSIZE - 1
  <2>1. report.tail + n \in Int
    BY <1>1
  <2> QED BY <1>1, <2>1
<1>3. report' = [report EXCEPT !.tail = next] /\ written' = SubSeq(written, n + 1, Len(written))
  BY DEF Container!Take
<1>4. next % BUFSIZE = (report.tail + n) % BUFSIZE
  BY <1>1, <1>2, RemainderOfRound
<1>5. (next + (Len(written) - n)) % BUFSIZE = report.head
  <2>1. report.tail + n \in Int /\ Len(written) - n \in Int
        /\ (report.tail + n) + (Len(written) - n) = report.tail + Len(written)
    BY <1>1
  <2>2. (next + (Len(written) - n)) % BUFSIZE = ((report.tail + n) + (Len(written) - n)) % BUFSIZE
    BY <1>1, <2>1, RemainderOfSum, Zenon
  <2>3. report.head = (report.tail + Len(written)) % BUFSIZE
    BY DEF ReportInv
  <2> QED BY <2>1, <2>2, <2>3, Zenon
<1> HIDE DEF next
<1>6. report' = [head |-> report.head, tail |-> next, data |-> report.data,
                 overflow |-> report.overflow] /\ report.overflow \in BOOLEAN
  BY <1>3 DEF ReportInv
<1>7. report'.head = report.head /\ report'.tail = next /\ report'.data = report.data
  BY <1>6
<1>8. /\ written' \in Seq(Tuples) /\ Len(written') = Len(written) - n
      /\ Holds(written', report.data, next, BUFSIZE)
  <2>1. report.tail \in Nat /\ next \in Nat /\ Holds(written, report.data, report.tail, BUFSIZE)
    BY <1>1, <1>2 DEF ReportInv
  <2>2. written' \in Seq(Tuples) /\ Len(written') = Len(written) - n
    BY <1>1, <1>3, <1>4, <2>1, TakeFirst
  <2>3. Holds(written', report.data, next, BUFSIZE)
    BY <1>1, <1>3, <1>4, <2>1, TakeFirst
  <2> QED BY <2>2, <2>3
<1>9. Len(written') < BUFSIZE /\ report.head = (next + Len(written')) % BUFSIZE
  BY <1>1, <1>5, <1>8
<1> QED BY <1>1, <1>2, <1>6, <1>7, <1>8, <1>9 DEF ReportInv, Holds, Element

LEMMA ReportInvStep ==
  ASSUME ReportInv,
         \/ Container!putchar \/ Container!sendReportRadio \/ Container!sendReportUSB
         \/ UNCHANGED <<report, written>>
  PROVE  ReportInv'
<1>1. CASE UNCHANGED <<report, written>>
  BY <1>1 DEF ReportInv, Holds, Element
<1>2. ASSUME report' = [report EXCEPT !.overflow = TRUE], UNCHANGED written
      PROVE  ReportInv'
  <2>1. report' = [head |-> report.head, tail |-> report.tail, data |-> report.data, overflow |-> TRUE]
    BY <1>2 DEF ReportInv
  <2>2. report'.head = report.head /\ report'.tail = report.tail /\ report'.data = report.data
    BY ONLY <2>1
  <2>3. report' \in [head : 0 .. BUFSIZE - 1, tail : 0 .. BUFSIZE - 1,
                     data : [0 .. BUFSIZE - 1 -> Element], overflow : BOOLEAN]
    BY <2>1, ReportIs
  <2> QED BY <1>2, <2>2, <2>3 DEF ReportInv, Holds, Element
<1>3. CASE Container!putchar
  BY <1>2, <1>3, PutcharKeepsReportInv DEF Container!putchar
<1>4. ASSUME NEW m \in TxAvailable, Container!SendReport(m) PROVE ReportInv'
  <2> DEFINE n == IF Container!bufferdatasize >= m THEN m ELSE Container!bufferdatasize
  <2>1. Container!bufferdatasize = Len(written) /\ Len(written) \in Nat
    BY ReportIs
  <2>2. m \in Nat
    BY ContainerAssumption
  <2>3. n \in 0 .. Len(written)
    BY <2>1, <2>2
  <2>4. Container!Take(n)
    BY <1>4 DEF Container!SendReport
  <2> HIDE DEF n
  <2> QED BY <2>3, <2>4, TakeKeepsReportInv
<1>5. CASE Container!sendReportRadio \/ Container!sendReportUSB
  BY <1>4, <1>5 DEF Container!sendReportRadio, Container!sendReportUSB
<1> QED BY <1>1, <1>3, <1>5

-----------------------------------------------------------------------------
(* The text of the robot *)

Round == sizeOfCircularBuffer

\* The cells hold the sequence, and the cell after it is empty.
IsText(t, s) ==
  /\ t \in [read : 0 .. Round - 1, write : 0 .. Round - 1, data : [0 .. Round - 1 -> Element]]
  /\ s \in Seq(Tuples) /\ Len(s) < Round
  /\ t.write = (t.read + Len(s)) % Round
  /\ Holds(s, t.data, t.read, Round)
  /\ t.data[t.write] = NoTuple

TextInv == IsText(text, unsent)

LEMMA TextInvInit == Container!Init => TextInv
<1> SUFFICES ASSUME Container!Init PROVE TextInv
  OBVIOUS
<1>1. /\ text = [read |-> 0, write |-> 0, data |-> [i \in 0 .. Round - 1 |-> NoTuple]]
      /\ unsent = <<>>
  BY DEF Container!Init, Round
<1>2. Round \in Nat \ {0}
  BY ContainerAssumption DEF Round
<1>3. 0 \in 0 .. Round - 1 /\ (0 + 0) % Round = 0
  <2>1. 0 \in 0 .. Round - 1 /\ 0 + 0 = 0
    BY <1>2
  <2> QED BY <1>2, <2>1, RemainderOfRound
<1> QED BY <1>1, <1>2, <1>3 DEF TextInv, IsText, Holds, Element

\* What is not empty is not past the end.
LEMMA SendableIsUnsent ==
  ASSUME NEW t, NEW s, IsText(t, s), NEW n \in Nat, Container!Sendable(t, n)
  PROVE  n <= Len(s)
<1>1. Len(s) \in Nat /\ t.data[(t.read + Len(s)) % Round] = NoTuple
  BY DEF IsText
<1>2. SUFFICES ASSUME n > Len(s) PROVE FALSE
  BY <1>1
<1>3. Len(s) \in 0 .. n - 1
  BY <1>1, <1>2
<1> QED BY <1>1, <1>3 DEF Container!Sendable, Container!InText, Round

LEMMA SentKeepsText ==
  ASSUME NEW t, NEW s, IsText(t, s), NEW n \in 0 .. Len(s)
  PROVE  IsText(Container!Sent(t, n), SubSeq(s, n + 1, Len(s)))
<1> DEFINE next == (t.read + n) % Round
           d == [i \in 0 .. Round - 1 |-> IF (i - t.read + Round) % Round < n THEN NoTuple ELSE t.data[i]]
           rest == SubSeq(s, n + 1, Len(s))
<1>1. /\ t.read \in 0 .. Round - 1 /\ t.write \in 0 .. Round - 1 /\ t.data \in [0 .. Round - 1 -> Element]
      /\ s \in Seq(Tuples) /\ Len(s) \in 0 .. Round - 1 /\ Round \in Nat \ {0}
      /\ t.write = (t.read + Len(s)) % Round /\ Holds(s, t.data, t.read, Round)
      /\ t.data[t.write] = NoTuple
  BY ContainerAssumption DEF IsText, Round
<1>0. /\ t.read \in 0 .. Round - 1 /\ Len(s) \in 0 .. Round - 1 /\ Round \in Nat \ {0}
      /\ n \in 0 .. Len(s)
  BY <1>1
<1>2. Container!Sent(t, n) = [read |-> next, write |-> t.write, data |-> d]
  <2>1. DOMAIN t.data = 0 .. Round - 1
    BY <1>1
  <2>2. Container!Sent(t, n) = [t EXCEPT !.read = next, !.data = d]
    BY <2>1 DEF Container!Sent, Container!InText, Round
  <2> HIDE DEF next, d
  <2> QED BY <2>2 DEF IsText
<1>3. next \in 0 .. Round - 1 /\ next % Round = (t.read + n) % Round
  <2>1. t.read + n \in Int
    BY <1>1
  <2>2. next \in 0 .. Round - 1
    BY <1>1, <2>1
  <2> QED BY <1>1, <2>2, RemainderOfRound
<1>4. rest \in Seq(Tuples) /\ Len(rest) = Len(s) - n /\ Holds(rest, t.data, next, Round)
  <2>1. t.read \in Nat /\ next \in Nat
    BY <1>1, <1>3
  <2>2. rest \in Seq(Tuples) /\ Len(rest) = Len(s) - n
    BY <1>1
  <2>3. Holds(rest, t.data, next, Round)
    BY <1>1, <1>3, <2>1, TakeFirst
  <2> QED BY <2>2, <2>3
<1>5. ASSUME NEW i \in 1 .. Len(s) - n
      PROVE  d[(next + i - 1) % Round] = t.data[(next + i - 1) % Round]
  <2> DEFINE k == n + i - 1
             x == (t.read + k) % Round
  <2>1. k \in 0 .. Round - 1 /\ k >= n /\ t.read + n \in Int /\ i - 1 \in Int /\ t.read + k \in Int
        /\ (t.read + n) + (i - 1) = t.read + k
    BY ONLY <1>0, i \in 1 .. Len(s) - n DEF k
  <2>7. next + (i - 1) = next + i - 1
    BY <1>3
  <2>2. (next + (i - 1)) % Round = ((t.read + n) + (i - 1)) % Round
    BY <1>1, <2>1, RemainderOfSum, Zenon
  <2> HIDE DEF k, next
  <2>3. (next + i - 1) % Round = x
    BY <2>1, <2>2, <2>7, Zenon
  <2>4. (x - t.read + Round) % Round = k
    BY <1>1, <2>1, DistanceBack
  <2>5. x \in 0 .. Round - 1
    <3> DEFINE m == t.read + k
    <3>1. m \in Int /\ Round \in Nat \ {0}
      BY <1>0, <2>1
    <3> HIDE DEF m
    <3>2. m % Round \in 0 .. Round - 1
      BY ONLY <3>1
    <3> QED BY <3>2 DEF m, x
  <2> HIDE DEF x
  <2>6. d[x] = t.data[x]
    BY <2>1, <2>4, <2>5
  <2> QED BY <2>3, <2>6
<1>6. d[t.write] = NoTuple
  BY <1>1
<1>7. d \in [0 .. Round - 1 -> Element]
  BY <1>1 DEF Element
<1>8. (next + (Len(s) - n)) % Round = t.write
  <2>1. t.read + n \in Int /\ Len(s) - n \in Int /\ (t.read + n) + (Len(s) - n) = t.read + Len(s)
    BY <1>1
  <2>2. (next + (Len(s) - n)) % Round = ((t.read + n) + (Len(s) - n)) % Round
    BY <1>1, <2>1, RemainderOfSum, Zenon
  <2> QED BY <1>1, <2>1, <2>2, Zenon
<1> HIDE DEF d, next, rest
<1> DEFINE new == [read |-> next, write |-> t.write, data |-> d]
<1>9. Holds(rest, d, next, Round)
  BY <1>4, <1>5 DEF Holds
<1>10. new.read = next /\ new.write = t.write /\ new.data = d
  OBVIOUS
<1>11. new \in [read : 0 .. Round - 1, write : 0 .. Round - 1, data : [0 .. Round - 1 -> Element]]
  BY <1>1, <1>3, <1>7
<1>12. Len(rest) < Round /\ t.write = (next + Len(rest)) % Round
  BY <1>1, <1>4, <1>8
<1> HIDE DEF new
<1>13. IsText(new, rest)
  BY <1>4, <1>6, <1>9, <1>10, <1>11, <1>12 DEF IsText
<1> QED BY <1>2, <1>13 DEF new, rest

LEMMA StoredKeepsText ==
  ASSUME NEW t, NEW s, IsText(t, s), NEW more \in Seq(Tuples), Len(s) + Len(more) < Round
  PROVE  IsText(Container!Stored(t, more), s \o more)
<1> DEFINE next == (t.write + Len(more)) % Round
           at(i) == ((i - t.write + Round) % Round) + 1
           d == [i \in 0 .. Round - 1 |-> IF at(i) <= Len(more) THEN more[at(i)]
                                         ELSE IF at(i) = Len(more) + 1 THEN NoTuple ELSE t.data[i]]
<1>1. /\ t.read \in 0 .. Round - 1 /\ t.write \in 0 .. Round - 1 /\ t.data \in [0 .. Round - 1 -> Element]
      /\ s \in Seq(Tuples) /\ Len(s) \in 0 .. Round - 1 /\ Round \in Nat \ {0} /\ Len(more) \in 0 .. Round - 1
      /\ t.write = (t.read + Len(s)) % Round /\ Holds(s, t.data, t.read, Round)
  BY ContainerAssumption DEF IsText, Round
<1>0. /\ t.read \in 0 .. Round - 1 /\ t.write \in 0 .. Round - 1 /\ Round \in Nat \ {0}
      /\ Len(s) \in 0 .. Round - 1 /\ Len(more) \in 0 .. Round - 1 /\ Len(s) + Len(more) < Round
  BY <1>1
<1>2. Container!Stored(t, more) = [read |-> t.read, write |-> next, data |-> d]
  <2>1. DOMAIN t.data = 0 .. Round - 1
    BY <1>1
  <2>2. Container!Stored(t, more) = [t EXCEPT !.write = next, !.data = d]
    BY <2>1 DEF Container!Stored, Container!InText, Round
  <2> HIDE DEF next, d
  <2> QED BY <2>2 DEF IsText
<1>3. ASSUME NEW k \in 0 .. Round - 1
      PROVE  (t.write + k) % Round \in 0 .. Round - 1 /\ at((t.write + k) % Round) = k + 1
  <2>1. (((t.write + k) % Round) - t.write + Round) % Round = k
    BY <1>1, DistanceBack
  <2> DEFINE x == (t.write + k) % Round
  <2>2. t.write + k \in Int
    BY <1>0
  <2>3. x \in 0 .. Round - 1
    BY ONLY <1>0, <2>2 DEF x
  <2>4. (x - t.write + Round) % Round = k
    BY <2>1
  <2>5. at(x) = k + 1
    BY <2>4
  <2> QED BY <2>3, <2>5
<1>4. next \in 0 .. Round - 1 /\ at(next) = Len(more) + 1
  BY <1>1, <1>3
<1>5. d \in [0 .. Round - 1 -> Element]
  <2>1. ASSUME NEW i \in 0 .. Round - 1 PROVE at(i) \in 1 .. Round
    <3> DEFINE o == i - t.write + Round
    <3>1. o \in Int
      BY ONLY <1>0, i \in 0 .. Round - 1 DEF o
    <3>2. at(i) = (o % Round) + 1
      OBVIOUS
    <3> HIDE DEF o, at
    <3>3. o % Round \in 0 .. Round - 1
      BY ONLY <1>0, <3>1
    <3> QED BY ONLY <1>0, <3>2, <3>3
  <2> HIDE DEF at
  <2>2. ASSUME NEW i \in 0 .. Round - 1, at(i) <= Len(more) PROVE more[at(i)] \in Element
    <3>1. at(i) \in 1 .. Len(more)
      BY <1>1, <2>1, <2>2
    <3> QED BY <3>1 DEF Element
  <2> QED BY <1>1, <2>2 DEF Element
<1>6. ASSUME NEW i \in 1 .. Len(s)
      PROVE  d[(t.read + i - 1) % Round] = s[i]
  <2> DEFINE k == Round - Len(s) + i - 1
             x == (t.write + k) % Round
             y == t.read + i - 1
  <2>1. k \in 0 .. Round - 1 /\ k > Len(more) /\ t.read + Len(s) \in Int /\ k \in Int
        /\ (t.read + Len(s)) + k = y + Round /\ y \in Int /\ Round \in Int
    BY ONLY <1>0, i \in 1 .. Len(s) DEF k, y
  <2>2. (((t.read + Len(s)) % Round) + k) % Round = ((t.read + Len(s)) + k) % Round
    BY <1>1, <2>1, RemainderOfSum, Zenon
  <2>3. x \in 0 .. Round - 1 /\ at(x) = k + 1
    BY <1>3, <2>1
  <2>4. s[i] = t.data[y % Round]
    BY <1>1 DEF Holds
  <2> HIDE DEF k, y
  <2>5. x = (y + Round) % Round
    BY <1>1, <2>1, <2>2, Zenon
  <2>6. ((y % Round) + Round) % Round = (y + Round) % Round
    BY <1>1, <2>1, RemainderOfSum, Zenon
  <2>7. y % Round \in 0 .. Round - 1
    <3>1. y \in Int /\ Round \in Nat \ {0}
      BY <1>0, <2>1
    <3> QED BY ONLY <3>1
  <2>8. ((y % Round) + Round) % Round = y % Round
    BY <1>1, <2>7, RemainderOfRound
  <2>9. x = y % Round
    BY <2>5, <2>6, <2>8
  <2> HIDE DEF x, at
  <2>10. ~(at(x) <= Len(more)) /\ at(x) # Len(more) + 1
    BY ONLY <1>0, <2>1, <2>3
  <2>11. d[x] = t.data[x]
    BY <2>3, <2>10
  <2> QED BY <2>4, <2>9, <2>11 DEF y
<1>7. ASSUME NEW j \in 1 .. Len(more)
      PROVE  d[(t.read + (Len(s) + j) - 1) % Round] = more[j]
  <2> DEFINE k == j - 1
             x == (t.write + k) % Round
  <2>1. k \in 0 .. Round - 1 /\ t.read + Len(s) \in Int /\ k \in Int /\ k + 1 = j
        /\ (t.read + Len(s)) + k = t.read + (Len(s) + j) - 1
    BY ONLY <1>0, j \in 1 .. Len(more) DEF k
  <2>2. (((t.read + Len(s)) % Round) + k) % Round = ((t.read + Len(s)) + k) % Round
    BY <1>1, <2>1, RemainderOfSum, Zenon
  <2>3. x \in 0 .. Round - 1 /\ at(x) = j
    BY <1>3, <2>1
  <2> HIDE DEF k
  <2>4. x = (t.read + (Len(s) + j) - 1) % Round
    BY <1>1, <2>1, <2>2, Zenon
  <2> HIDE DEF x, at
  <2>5. d[x] = more[j]
    BY <1>1, <2>3
  <2> QED BY <2>4, <2>5
<1>8. d[next] = NoTuple
  <2> HIDE DEF at, next
  <2>1. ~(at(next) <= Len(more))
    BY <1>1, <1>4
  <2> QED BY <1>4, <2>1
<1>9. next = (t.read + (Len(s) + Len(more))) % Round
  <2>1. t.read + Len(s) \in Int /\ Len(more) \in Int
        /\ (t.read + Len(s)) + Len(more) = t.read + (Len(s) + Len(more))
    BY ONLY <1>0
  <2>2. (((t.read + Len(s)) % Round) + Len(more)) % Round = ((t.read + Len(s)) + Len(more)) % Round
    BY <1>1, <2>1, RemainderOfSum, Zenon
  <2> QED BY <1>1, <2>1, <2>2, Zenon
<1> HIDE DEF d, next
<1> DEFINE all == s \o more
<1>10. /\ all \in Seq(Tuples) /\ Len(all) = Len(s) + Len(more)
       /\ \A i \in 1 .. Len(s) : all[i] = s[i]
       /\ \A j \in 1 .. Len(more) : all[Len(s) + j] = more[j]
  BY <1>1
<1> HIDE DEF all
<1>11. ASSUME NEW i \in 1 .. Len(all)
       PROVE  all[i] = d[(t.read + i - 1) % Round]
  <2>1. CASE i \in 1 .. Len(s)
    BY <1>6, <1>10, <2>1
  <2>2. CASE i \notin 1 .. Len(s)
    <3> DEFINE j == i - Len(s)
    <3>1. j \in 1 .. Len(more) /\ i = Len(s) + j
      BY <1>1, <1>10, <2>2
    <3> HIDE DEF j
    <3> QED BY <1>7, <1>10, <3>1
  <2> QED BY <2>1, <2>2
<1> DEFINE new == [read |-> t.read, write |-> next, data |-> d]
<1>12. new.read = t.read /\ new.write = next /\ new.data = d
  OBVIOUS
<1>13. new \in [read : 0 .. Round - 1, write : 0 .. Round - 1, data : [0 .. Round - 1 -> Element]]
  BY <1>1, <1>4, <1>5
<1>14. Holds(all, d, t.read, Round)
  BY <1>11 DEF Holds
<1>15. Len(all) < Round /\ next = (t.read + Len(all)) % Round
  BY <1>1, <1>9, <1>10
<1> HIDE DEF new
<1>16. IsText(new, all)
  BY <1>8, <1>10, <1>12, <1>13, <1>14, <1>15 DEF IsText
<1> QED BY <1>2, <1>16 DEF new, all

LEMMA TransmitKeepsText ==
  ASSUME NEW t, NEW s, IsText(t, s), Container!transmits(t, s)
  PROVE  TextInv'
<1>1. PICK n \in 0 .. bytesToTransmitPerCall :
        /\ Container!Sendable(t, n) /\ text' = Container!Sent(t, n)
        /\ unsent' = SubSeq(s, n + 1, Len(s))
  BY DEF Container!transmits
<1>2. n \in Nat /\ Len(s) \in Nat
  BY ContainerAssumption DEF IsText
<1>3. n \in 0 .. Len(s)
  BY <1>1, <1>2, SendableIsUnsent
<1>4. IsText(text', unsent')
  BY <1>1, <1>3, SentKeepsText
<1> QED BY <1>4 DEF TextInv, IsText, Holds, Element, Round

LEMMA TextInvStep ==
  ASSUME TextInv,
         Container!sendBackString \/ Container!transmitFromCircularBuffer \/ UNCHANGED <<text, unsent>>
  PROVE  TextInv'
<1>1. CASE UNCHANGED <<text, unsent>>
  BY <1>1 DEF TextInv, IsText, Holds, Element, Round
<1>2. CASE Container!transmitFromCircularBuffer
  BY <1>2, TransmitKeepsText DEF TextInv, Container!transmitFromCircularBuffer
<1>3. CASE Container!sendBackString
  <2>1. PICK more \in Strings : /\ Len(unsent) + Len(more) < Round
                                /\ Container!transmits(Container!Stored(text, more), unsent \o more)
    BY <1>3 DEF Container!sendBackString, Round
  <2>2. more \in Seq(Tuples)
    BY ContainerAssumption
  <2>3. IsText(Container!Stored(text, more), unsent \o more)
    BY <2>1, <2>2, StoredKeepsText DEF TextInv
  <2> QED BY <2>1, <2>3, TransmitKeepsText
<1> QED BY <1>1, <1>2, <1>3

-----------------------------------------------------------------------------
ContentsInv == QueueInv /\ StackInv /\ ReportInv /\ TextInv

LEMMA ContentsInvInit == Container!Init => ContentsInv
BY QueueInvInit, StackInvInit, ReportInvInit, TextInvInit DEF ContentsInv

LEMMA ContentsInvStep == ContentsInv /\ [Container!Next]_(Container!vars) => ContentsInv'
<1> SUFFICES ASSUME ContentsInv, [Container!Next]_(Container!vars) PROVE ContentsInv'
  OBVIOUS
<1>1. Container!QPush \/ Container!QPushForce \/ Container!QPop \/ UNCHANGED <<queue, queued>>
  BY DEF Container!Next, Container!textVars, Container!vars
<1>2. Container!SPush \/ Container!SPop \/ UNCHANGED <<stack, stacked>>
  BY DEF Container!Next, Container!textVars, Container!vars
<1>3. \/ Container!putchar \/ Container!sendReportRadio \/ Container!sendReportUSB
      \/ UNCHANGED <<report, written>>
  BY DEF Container!Next, Container!textVars, Container!vars
<1>4. Container!sendBackString \/ Container!transmitFromCircularBuffer \/ UNCHANGED <<text, unsent>>
  BY DEF Container!Next, Container!textVars, Container!vars
<1> QED BY <1>1, <1>2, <1>3, <1>4, QueueInvStep, StackInvStep, ReportInvStep, TextInvStep DEF ContentsInv

LEMMA ContentsInvIsEnough == ContentsInv => ContentsAreRight
<1> SUFFICES ASSUME ContentsInv PROVE ContentsAreRight
  OBVIOUS
<1>1. /\ queued = Container!Circle(queue.data, queue.head + 1,
                    Container!Distance(queue.head, queue.tail, QContSize), QContSize)
      /\ Len(queued) < QContSize
  <2>1. QueueInv
    BY DEF ContentsInv
  <2>2. Container!Distance(queue.head, queue.tail, QContSize) = Len(queued)
    BY <2>1, QueueIs
  <2> QED BY <2>1, <2>2, HeldIsCircle DEF QueueInv
<1>2. stacked = [i \in 1 .. stack.top |-> stack.data[i - 1]]
  BY DEF ContentsInv, StackInv
<1>3. /\ written = Container!Circle(report.data, report.tail,
                     Container!Distance(report.tail, report.head, BUFSIZE), BUFSIZE)
      /\ Container!bufferdatasize = Len(written)
  <2>1. ReportInv
    BY DEF ContentsInv
  <2>2. /\ Container!Distance(report.tail, report.head, BUFSIZE) = Len(written)
        /\ Container!bufferdatasize = Len(written)
    BY <2>1, ReportIs
  <2> QED BY <2>1, <2>2, HeldIsCircle DEF ReportInv
<1>4. /\ unsent = Container!Circle(text.data, text.read, Len(unsent), Round)
      /\ text.data[(text.read + Len(unsent)) % Round] = NoTuple
  BY HeldIsCircle DEF ContentsInv, TextInv, IsText
<1> QED BY <1>1, <1>2, <1>3, <1>4
        DEF ContentsAreRight, Container!ContentsAreRight, Container!InText, Round

\* The containers hold what they stand for, and their sizes are told right,
\* after any sequence of calls (queue.c, stack.c, reporting.c, sendBackString).
THEOREM ContentsStayRight == PeripheralsSpec => []ContentsAreRight
<1>1. PeripheralsInit => ContentsInv
  BY ContentsInvInit DEF PeripheralsInit
<1>2. ContentsInv /\ [PeripheralsNext]_peripheralVars => ContentsInv'
  BY ContentsInvStep, StepsAreOfTheirComponent
<1> QED BY <1>1, <1>2, ContentsInvIsEnough, PTL DEF PeripheralsSpec

-----------------------------------------------------------------------------
(* board, the clock and the green LED *)

Frame == Wixel!Byte(timeMs)
LedAge == Wixel!Since(Frame, usbLastActivity)
VbusAge == Wixel!Since(Frame, lastCheck)

\* The copy of the time is made with the interrupt masked; each service was
\* called MaxGap milliseconds ago at most.
ClockInv ==
  /\ timeMs \in 0 .. UINT32 - 1 /\ time \in Nat
  /\ boardPc \in {"main", "low", "high", "copied"}
  /\ boardPc # "main" => ~T4IE
  /\ boardPc = "high" => time = Frame
  /\ boardPc = "copied" => time = timeMs
  /\ used \subseteq {"vbus", "led"} /\ gap \in [used -> 0 .. MaxGap]
  /\ T4IF => \A s \in used : gap[s] < MaxGap

\* oldT4IE has the mask of before the copy.
MaskInv ==
  /\ boardPc = "main" => T4IE = timing
  /\ boardPc # "main" => oldT4IE = timing

\* The clock of one byte tells the age of the last check, which is not older
\* than the period and the time since usbPowerPresent; the first check is due
\* before the clock comes round.
VbusInv ==
  /\ lastCheck \in 0 .. UINT8 - 1 /\ age \in 0 .. UINT8
  /\ "vbus" \in used =>
       \/ age = UINT8 /\ lastCheck = UINT8 \div 2 /\ gap["vbus"] > 0 /\ timeMs = gap["vbus"] - 1
       \/ age <= CheckPeriod + gap["vbus"] /\ VbusAge = age

\* Either something happened since the service was called, or the LED blinks
\* and the frame number tells for how long, or it does not and is on, or was
\* left off by the blink that ended when the service was called.
LedInv ==
  /\ usbLastActivity \in 0 .. UINT8 - 1 /\ quiet \in Nat
  /\ "led" \in used /\ usbDeviceState = "CONFIGURED" =>
       \/ quiet <= gap["led"]
       \/ /\ ~usbActivityFlag /\ usbBlinkActive
          /\ LedAge <= Hold + gap["led"] /\ quiet <= LedAge + MaxGap
       \/ /\ ~usbActivityFlag /\ ~usbBlinkActive
          /\ greenLed \/ quiet <= Hold + 2 * MaxGap + gap["led"]

BoardInv == ClockInv /\ VbusInv /\ LedInv

\* The time between two bytes, on a clock that comes round once at most.
LEMMA SinceIs ==
  ASSUME NEW now \in 0 .. UINT8 - 1, NEW then \in 0 .. UINT8 - 1
  PROVE  /\ Wixel!Since(now, then) = IF now >= then THEN now - then ELSE now + UINT8 - then
         /\ Wixel!Since(now, then) \in 0 .. UINT8 - 1
<1> USE BoardAssumption
<1> DEFINE n == now + UINT8 - then
<1>1. UINT8 \in Nat \ {0} /\ n \in Int /\ n >= 0 /\ n < 2 * UINT8
  OBVIOUS
<1> HIDE DEF n
<1>2. n % UINT8 = IF n < UINT8 THEN n ELSE n - UINT8
  BY ONLY <1>1, RemainderOnce
<1> USE DEF n
<1> QED BY <1>2 DEF Wixel!Since, Wixel!Byte

LEMMA FrameTyped ==
  ASSUME timeMs \in 0 .. UINT32 - 1
  PROVE  Frame \in 0 .. UINT8 - 1
BY BoardAssumption DEF Frame, Wixel!Byte

\* A millisecond later the frame number is the next one, also where the time
\* comes round.
LEMMA FrameOfNext ==
  ASSUME timeMs \in 0 .. UINT32 - 1, timeMs' = (timeMs + 1) % UINT32
  PROVE  /\ timeMs' \in 0 .. UINT32 - 1
         /\ Frame' = IF Frame = UINT8 - 1 THEN 0 ELSE Frame + 1
<1> USE BoardAssumption
<1>1. timeMs' \in 0 .. UINT32 - 1
  OBVIOUS
<1>2. (timeMs + 1) % UINT8 = IF timeMs % UINT8 = UINT8 - 1 THEN 0 ELSE (timeMs % UINT8) + 1
  <2>1. UINT8 \in Nat \ {0} /\ timeMs \in Nat
    OBVIOUS
  <2> QED BY ONLY <2>1, RemainderOfNext
<1>3. timeMs' = IF timeMs + 1 < UINT32 THEN timeMs + 1 ELSE timeMs + 1 - UINT32
  <2> DEFINE n == timeMs + 1
  <2>1. UINT32 \in Nat \ {0} /\ n \in Int /\ n >= 0 /\ n < 2 * UINT32
    OBVIOUS
  <2> HIDE DEF n
  <2>2. n % UINT32 = IF n < UINT32 THEN n ELSE n - UINT32
    BY ONLY <2>1, RemainderOnce
  <2> QED BY <2>2 DEF n
<1>4. timeMs' % UINT8 = (timeMs + 1) % UINT8
  <2>1. CASE timeMs + 1 < UINT32
    BY <1>3, <2>1
  <2>2. CASE timeMs + 1 >= UINT32
    <3>1. timeMs + 1 = UINT32 /\ timeMs' = 0
      BY <1>3, <2>2
    <3>2. 0 % UINT8 = 0
      <4>1. 0 \in Int /\ 0 >= 0 /\ 0 < 2 * UINT8 /\ 0 < UINT8 /\ UINT8 \in Nat \ {0}
        OBVIOUS
      <4> QED BY ONLY <4>1, RemainderOnce
    <3> QED BY <3>1, <3>2
  <2> QED BY <2>1, <2>2
<1> QED BY <1>1, <1>2, <1>4 DEF Frame, Wixel!Byte

LEMMA SinceOfNext ==
  ASSUME timeMs \in 0 .. UINT32 - 1, timeMs' = (timeMs + 1) % UINT32, NEW then \in 0 .. UINT8 - 1,
         Wixel!Since(Frame, then) < UINT8 - 1
  PROVE  Wixel!Since(Frame', then) = Wixel!Since(Frame, then) + 1
<1> USE BoardAssumption
<1>1. Frame \in 0 .. UINT8 - 1 /\ Frame' = IF Frame = UINT8 - 1 THEN 0 ELSE Frame + 1
  BY FrameTyped, FrameOfNext
<1>2. Frame' \in 0 .. UINT8 - 1
  BY <1>1
<1>3. Wixel!Since(Frame, then) = IF Frame >= then THEN Frame - then ELSE Frame + UINT8 - then
  BY <1>1, SinceIs
<1>4. Wixel!Since(Frame', then) = IF Frame' >= then THEN Frame' - then ELSE Frame' + UINT8 - then
  BY <1>2, SinceIs
<1> HIDE DEF Frame
<1> QED BY <1>1, <1>3, <1>4

LEMMA BoardInvInit == Wixel!Init => BoardInv
<1> SUFFICES ASSUME Wixel!Init PROVE BoardInv
  OBVIOUS
<1> USE BoardAssumption
<1>1. /\ timeMs = 0 /\ T4IF = FALSE /\ boardPc = "main" /\ time = 0 /\ lastCheck = UINT8 \div 2
      /\ usbDeviceState = "DETACHED" /\ usbLastActivity = 0 /\ age = UINT8 /\ quiet = 0
      /\ used \in SUBSET {"vbus", "led"} /\ gap = [s \in used |-> 1]
  BY DEF Wixel!Init
<1>2. ClockInv
  <2>1. gap \in [used -> 0 .. MaxGap] /\ timeMs \in 0 .. UINT32 - 1
    BY <1>1
  <2> QED BY <1>1, <2>1 DEF ClockInv
<1>3. VbusInv
  <2>1. UINT8 \div 2 \in 0 .. UINT8 - 1
    OBVIOUS
  <2> QED BY <1>1, <2>1 DEF VbusInv
<1>4. LedInv
  BY <1>1 DEF LedInv
<1> QED BY <1>2, <1>3, <1>4 DEF BoardInv

LEMMA TickKeepsBoardInv ==
  ASSUME BoardInv, Wixel!ISR_T4
  PROVE  BoardInv'
<1> USE BoardAssumption
<1>1. ClockInv /\ VbusInv /\ LedInv
  BY DEF BoardInv
<1>2. /\ T4IF' = FALSE /\ timeMs' = (timeMs + 1) % UINT32
      /\ age' = Wixel!UpTo(UINT8, age) /\ quiet' = Wixel!UpTo(Wixel!Quiet + 1, quiet)
      /\ gap' = [s \in used |-> gap[s] + 1]
      /\ UNCHANGED <<boardPc, time, lastCheck, usbDeviceState, usbActivityFlag, usbBlinkActive,
                     usbLastActivity, greenLed, used, T4IE>>
  BY DEF Wixel!ISR_T4
<1>3. T4IE /\ T4IF
  BY DEF Wixel!ISR_T4
<1>4. timeMs \in 0 .. UINT32 - 1 /\ used \subseteq {"vbus", "led"} /\ gap \in [used -> 0 .. MaxGap]
  BY <1>1 DEF ClockInv
<1>5. \A s \in used : gap[s] \in 0 .. MaxGap - 1 /\ gap'[s] = gap[s] + 1
  BY <1>1, <1>2, <1>3, <1>4 DEF ClockInv
<1>6. ClockInv'
  <2>1. timeMs' \in 0 .. UINT32 - 1
    BY <1>2, <1>4
  <2>2. gap' \in [used -> 0 .. MaxGap]
    BY <1>2, <1>5
  <2>3. boardPc' = "main" /\ time' \in Nat
    BY <1>1, <1>2, <1>3 DEF ClockInv
  <2> QED BY <1>2, <1>4, <2>1, <2>2, <2>3 DEF ClockInv
<1>7. VbusInv'
  <2>1. lastCheck \in 0 .. UINT8 - 1 /\ age \in 0 .. UINT8
    BY <1>1 DEF VbusInv
  <2>2. age' = (IF age < UINT8 THEN age + 1 ELSE UINT8) /\ age' \in 0 .. UINT8
    BY <1>2, <2>1 DEF Wixel!UpTo
  <2>3. ASSUME "vbus" \in used
        PROVE  \/ age' = UINT8 /\ lastCheck = UINT8 \div 2 /\ gap'["vbus"] > 0 /\ timeMs' = gap'["vbus"] - 1
               \/ age' <= CheckPeriod + gap'["vbus"] /\ VbusAge' = age'
    <3>1. gap["vbus"] \in 0 .. MaxGap - 1 /\ gap'["vbus"] = gap["vbus"] + 1
      BY <1>5, <2>3
    <3>2. CASE age = UINT8 /\ lastCheck = UINT8 \div 2 /\ gap["vbus"] > 0 /\ timeMs = gap["vbus"] - 1
      <4>1. CASE timeMs + 1 < UINT32
        <5>1. timeMs' = timeMs + 1
          BY <1>2, <1>4, <4>1
        <5> QED BY <2>2, <3>1, <3>2, <5>1
      <4>2. CASE timeMs + 1 >= UINT32
        <5>1. timeMs + 1 = UINT32 /\ UINT32 < UINT8
          BY <1>4, <3>1, <3>2, <4>2
        <5>2. UINT32 % UINT8 = UINT32
          BY <5>1
        <5> QED BY <5>1, <5>2
      <4> QED BY <1>4, <4>1, <4>2
    <3>3. CASE age <= CheckPeriod + gap["vbus"] /\ VbusAge = age
      <4>1. age < UINT8 - 1
        BY <2>1, <3>1, <3>3
      <4>2. Wixel!Since(Frame', lastCheck) = Wixel!Since(Frame, lastCheck) + 1
        BY <1>2, <1>4, <2>1, <3>3, <4>1, SinceOfNext DEF VbusAge
      <4>3. VbusAge' = VbusAge + 1
        BY <1>2, <4>2 DEF VbusAge
      <4> QED BY <2>1, <2>2, <3>1, <3>3, <4>1, <4>3
    <3> QED BY <1>1, <2>3, <3>2, <3>3 DEF VbusInv
  <2> QED BY <1>2, <2>1, <2>2, <2>3 DEF VbusInv
<1>8. LedInv'
  <2>1. usbLastActivity \in 0 .. UINT8 - 1 /\ quiet \in Nat
    BY <1>1 DEF LedInv
  <2>2. quiet' \in Nat /\ quiet' <= quiet + 1
    <3>1. Wixel!Quiet \in Nat
      BY DEF Wixel!Quiet
    <3> QED BY <1>2, <2>1, <3>1 DEF Wixel!UpTo
  <2>3. ASSUME "led" \in used, usbDeviceState = "CONFIGURED"
        PROVE  \/ quiet' <= gap'["led"]
               \/ /\ ~usbActivityFlag' /\ usbBlinkActive'
                  /\ LedAge' <= Hold + gap'["led"] /\ quiet' <= LedAge' + MaxGap
               \/ /\ ~usbActivityFlag' /\ ~usbBlinkActive'
                  /\ greenLed' \/ quiet' <= Hold + 2 * MaxGap + gap'["led"]
    <3>1. gap["led"] \in 0 .. MaxGap - 1 /\ gap'["led"] = gap["led"] + 1
      BY <1>5, <2>3
    <3>2. CASE quiet <= gap["led"]
      BY <2>1, <2>2, <3>1, <3>2
    <3>3. CASE /\ ~usbActivityFlag /\ usbBlinkActive
               /\ LedAge <= Hold + gap["led"] /\ quiet <= LedAge + MaxGap
      <4>1. LedAge \in 0 .. UINT8 - 1
        BY <1>4, <2>1, FrameTyped, SinceIs DEF LedAge
      <4>2. LedAge < UINT8 - 1
        BY <3>1, <3>3, <4>1
      <4>3. Wixel!Since(Frame', usbLastActivity) = Wixel!Since(Frame, usbLastActivity) + 1
        BY <1>2, <1>4, <2>1, <4>2, SinceOfNext DEF LedAge
      <4>4. LedAge' = LedAge + 1
        BY <1>2, <4>3 DEF LedAge
      <4>5. LedAge' <= Hold + gap'["led"] /\ quiet' <= LedAge' + MaxGap
        BY <2>1, <2>2, <3>1, <3>3, <4>1, <4>4
      <4> QED BY <1>2, <3>3, <4>5
    <3>4. CASE /\ ~usbActivityFlag /\ ~usbBlinkActive
               /\ greenLed \/ quiet <= Hold + 2 * MaxGap + gap["led"]
      <4>1. quiet <= Hold + 2 * MaxGap + gap["led"] => quiet' <= Hold + 2 * MaxGap + gap'["led"]
        BY <2>1, <2>2, <3>1
      <4> QED BY <1>2, <3>4, <4>1
    <3> QED BY <1>1, <2>3, <3>2, <3>3, <3>4 DEF LedInv
  <2> QED BY <1>2, <2>1, <2>2, <2>3 DEF LedInv
<1> QED BY <1>6, <1>7, <1>8 DEF BoardInv

LEMMA GetMsKeepsBoardInv ==
  ASSUME BoardInv, Wixel!getMs
  PROVE  BoardInv'
<1>1. ClockInv /\ VbusInv /\ LedInv
  BY DEF BoardInv
<1>2. UNCHANGED <<timeMs, T4IF, lastCheck, age, usbLastActivity, quiet, usbDeviceState,
                  usbActivityFlag, usbBlinkActive, greenLed, gap, used>>
  BY DEF Wixel!getMs, Wixel!vbusVars, Wixel!ledVars
<1>3. UNCHANGED <<Frame, VbusAge, LedAge>>
  BY <1>2 DEF Frame, VbusAge, LedAge
<1>4. VbusInv' /\ LedInv'
  BY <1>1, <1>2, <1>3 DEF VbusInv, LedInv
<1>5. timeMs \in 0 .. UINT32 - 1 /\ Frame \in 0 .. UINT8 - 1 /\ time \in Nat
  BY <1>1, FrameTyped DEF ClockInv
<1>6. ClockInv'
  <2> SUFFICES /\ boardPc' \in {"main", "low", "high", "copied"} /\ time' \in Nat
               /\ boardPc' # "main" => ~T4IE'
               /\ boardPc' = "high" => time' = Frame
               /\ boardPc' = "copied" => time' = timeMs
    BY <1>1, <1>2, <1>3 DEF ClockInv
  <2>1. CASE boardPc = "main" /\ boardPc' = "low" /\ T4IE' = Wixel!MaskedCopy /\ time' = 0
    BY <2>1 DEF Wixel!MaskedCopy
  <2>2. CASE boardPc = "low" /\ boardPc' = "high" /\ time' = Wixel!Byte(timeMs) /\ UNCHANGED T4IE
    <3>1. ~T4IE
      BY <1>1, <2>2 DEF ClockInv
    <3> QED BY <1>5, <2>2, <3>1, BoardAssumption DEF Frame
  <2>3. CASE boardPc = "high" /\ boardPc' = "copied" /\ time' = time + timeMs - Wixel!Byte(timeMs)
             /\ UNCHANGED T4IE
    <3>1. ~T4IE /\ time = Frame
      BY <1>1, <2>3 DEF ClockInv
    <3>2. time' = timeMs
      BY <1>5, <2>3, <3>1, BoardAssumption DEF Frame
    <3> QED BY <1>5, <2>3, <3>1, <3>2, BoardAssumption
  <2>4. CASE boardPc = "copied" /\ boardPc' = "main" /\ time' = 0
    BY <2>4
  <2> QED BY <2>1, <2>2, <2>3, <2>4 DEF Wixel!getMs
<1> QED BY <1>4, <1>6 DEF BoardInv

LEMMA CheckKeepsBoardInv ==
  ASSUME BoardInv, Wixel!usbPowerPresent
  PROVE  BoardInv'
<1> USE BoardAssumption
<1>1. ClockInv /\ VbusInv /\ LedInv
  BY DEF BoardInv
<1>2. /\ boardPc = "main" /\ "vbus" \in used
      /\ gap' = [gap EXCEPT !["vbus"] = 0]
      /\ UNCHANGED <<timeMs, T4IE, T4IF, boardPc, time, used, usbLastActivity, quiet, usbDeviceState,
                     usbActivityFlag, usbBlinkActive, greenLed>>
  BY DEF Wixel!usbPowerPresent, Wixel!clockVars, Wixel!ledVars
<1>3. UNCHANGED <<Frame, LedAge>>
  BY <1>2 DEF Frame, LedAge
<1>4. /\ timeMs \in 0 .. UINT32 - 1 /\ gap \in [used -> 0 .. MaxGap] /\ gap' \in [used -> 0 .. MaxGap]
      /\ gap'["vbus"] = 0 /\ \A s \in used : s # "vbus" => gap'[s] = gap[s]
  BY <1>1, <1>2 DEF ClockInv
<1>5. ClockInv'
  <2>1. T4IF => \A s \in used : gap'[s] < MaxGap
    BY <1>1, <1>4 DEF ClockInv
  <2> QED BY <1>1, <1>2, <1>3, <1>4, <2>1 DEF ClockInv
<1>6. LedInv'
  BY <1>1, <1>2, <1>3, <1>4 DEF LedInv
<1>7. VbusInv'
  <2>1. lastCheck \in 0 .. UINT8 - 1 /\ age \in 0 .. UINT8 /\ Frame \in 0 .. UINT8 - 1
    BY <1>1, <1>4, FrameTyped DEF VbusInv
  <2>2. VbusAge = (IF Frame >= lastCheck THEN Frame - lastCheck ELSE Frame + UINT8 - lastCheck)
    BY <2>1, SinceIs DEF VbusAge
  <2>3. gap["vbus"] \in 0 .. MaxGap
    BY <1>2, <1>4
  <2>4. CASE Wixel!CheckIsDue
    <3>1. lastCheck' = Frame /\ age' = 0
      BY <2>4 DEF Wixel!usbPowerPresent, Frame
    <3>2. VbusAge' = 0
      <4>1. VbusAge' = Wixel!Since(Frame, Frame)
        BY <1>3, <3>1 DEF VbusAge
      <4>2. Wixel!Since(Frame, Frame) = Frame - Frame
        BY <2>1, SinceIs
      <4> QED BY <2>1, <4>1, <4>2
    <3> QED BY <1>4, <2>1, <3>1, <3>2 DEF VbusInv
  <2>5. CASE ~Wixel!CheckIsDue
    <3>1. UNCHANGED <<lastCheck, age>>
      BY <2>5 DEF Wixel!usbPowerPresent
    <3>2. VbusAge' = VbusAge
      BY <1>3, <3>1 DEF VbusAge
    <3>3. VbusAge <= CheckPeriod
      BY <2>1, <2>2, <2>5 DEF Wixel!CheckIsDue, VbusAge, Frame
    <3>4. ~(age = UINT8 /\ lastCheck = UINT8 \div 2 /\ gap["vbus"] > 0 /\ timeMs = gap["vbus"] - 1)
      <4> SUFFICES ASSUME age = UINT8, lastCheck = UINT8 \div 2, gap["vbus"] > 0,
                          timeMs = gap["vbus"] - 1
                   PROVE  FALSE
        OBVIOUS
      <4>1. timeMs < lastCheck /\ timeMs \in 0 .. UINT8 - 1
        BY <2>1, <2>3
      <4>2. Frame = timeMs
        BY <4>1 DEF Frame, Wixel!Byte
      <4>3. VbusAge = timeMs + UINT8 - lastCheck
        BY <2>1, <2>2, <4>1, <4>2
      <4> QED BY <1>4, <2>1, <3>3, <4>3
    <3>5. VbusAge = age
      BY <1>1, <1>2, <3>4 DEF VbusInv
    <3> QED BY <1>2, <1>4, <2>1, <3>1, <3>2, <3>3, <3>5 DEF VbusInv
  <2> QED BY <2>4, <2>5
<1> QED BY <1>5, <1>6, <1>7 DEF BoardInv

LEMMA ShowKeepsBoardInv ==
  ASSUME BoardInv, Wixel!usbShowStatusWithGreenLed
  PROVE  BoardInv'
<1> USE BoardAssumption
<1>1. ClockInv /\ VbusInv /\ LedInv
  BY DEF BoardInv
<1>2. /\ boardPc = "main" /\ "led" \in used
      /\ gap' = [gap EXCEPT !["led"] = 0]
      /\ UNCHANGED <<timeMs, T4IE, T4IF, boardPc, time, used, lastCheck, age, quiet, usbDeviceState>>
      /\ usbLastActivity' = Wixel!Recorded.last
  BY DEF Wixel!usbShowStatusWithGreenLed, Wixel!clockVars, Wixel!vbusVars
<1>3. UNCHANGED <<Frame, VbusAge>>
  BY <1>2 DEF Frame, VbusAge
<1>4. /\ timeMs \in 0 .. UINT32 - 1 /\ gap \in [used -> 0 .. MaxGap] /\ gap' \in [used -> 0 .. MaxGap]
      /\ gap'["led"] = 0 /\ \A s \in used : s # "led" => gap'[s] = gap[s]
  BY <1>1, <1>2 DEF ClockInv
<1>5. ClockInv'
  <2>1. T4IF => \A s \in used : gap'[s] < MaxGap
    BY <1>1, <1>4 DEF ClockInv
  <2> QED BY <1>1, <1>2, <1>3, <1>4, <2>1 DEF ClockInv
<1>6. VbusInv'
  BY <1>1, <1>2, <1>3, <1>4 DEF VbusInv
<1>7. LedInv'
  <2>1. /\ Frame \in 0 .. UINT8 - 1 /\ usbLastActivity \in 0 .. UINT8 - 1 /\ quiet \in Nat
        /\ gap["led"] \in 0 .. MaxGap
    BY <1>1, <1>2, <1>4, FrameTyped DEF LedInv
  <2>2. usbLastActivity' = IF usbActivityFlag THEN Frame ELSE usbLastActivity
    BY <1>2 DEF Wixel!Recorded, Frame, Wixel!Frame
  <2>3. usbLastActivity' \in 0 .. UINT8 - 1
    BY <2>1, <2>2
  <2>4. LedAge' = (IF usbActivityFlag THEN 0 ELSE LedAge) /\ LedAge \in 0 .. UINT8 - 1
    <3>1. Wixel!Since(Frame, Frame) = 0
      BY <2>1, SinceIs
    <3> QED BY <1>3, <2>1, <2>2, <3>1, SinceIs DEF LedAge
  <2> SUFFICES ASSUME usbDeviceState = "CONFIGURED"
               PROVE  \/ quiet <= 0
                      \/ /\ ~usbActivityFlag' /\ usbBlinkActive'
                         /\ LedAge' <= Hold /\ quiet <= LedAge' + MaxGap
                      \/ /\ ~usbActivityFlag' /\ ~usbBlinkActive'
                         /\ greenLed' \/ quiet <= Hold + 2 * MaxGap
    BY <1>2, <1>4, <2>1, <2>3 DEF LedInv
  <2>5. ~usbActivityFlag'
    BY Zenon DEF Wixel!usbShowStatusWithGreenLed
  <2>6. Wixel!BlinkEnds(Wixel!Recorded) <=> LedAge' > Hold
    BY <1>2, <1>3 DEF Wixel!BlinkEnds, LedAge, Frame, Wixel!Frame
  <2>7. Wixel!Recorded.active <=> usbActivityFlag \/ usbBlinkActive
    BY DEF Wixel!Recorded
  <2>8. usbBlinkActive' <=> Wixel!Recorded.active /\ ~Wixel!BlinkEnds(Wixel!Recorded)
    BY Zenon DEF Wixel!usbShowStatusWithGreenLed
  <2>9. greenLed' \/ Wixel!Recorded.active
    BY Zenon DEF Wixel!usbShowStatusWithGreenLed
  <2>10. CASE usbActivityFlag \/ usbBlinkActive
    <3>1. quiet <= gap["led"] \/ (~usbActivityFlag /\ LedAge <= Hold + gap["led"] /\ quiet <= LedAge + MaxGap)
      BY <1>1, <1>2, <2>10 DEF LedInv
    <3>2. quiet <= LedAge' + MaxGap /\ quiet <= Hold + 2 * MaxGap
      BY <2>1, <2>4, <3>1
    <3>3. CASE LedAge' > Hold
      BY <2>5, <2>6, <2>8, <3>2, <3>3
    <3>4. CASE ~(LedAge' > Hold)
      <4>1. LedAge' <= Hold
        BY <2>1, <2>4, <3>4
      <4> QED BY <2>5, <2>6, <2>7, <2>8, <2>10, <3>2, <3>4, <4>1
    <3> QED BY <3>3, <3>4
  <2>11. CASE ~(usbActivityFlag \/ usbBlinkActive)
    BY <2>5, <2>7, <2>8, <2>9, <2>11
  <2> QED BY <2>10, <2>11
<1> QED BY <1>5, <1>6, <1>7 DEF BoardInv

LEMMA BoardInvStep ==
  ASSUME BoardInv, [Wixel!Next]_(Wixel!vars)
  PROVE  BoardInv'
<1>1. ClockInv /\ VbusInv /\ LedInv
  BY DEF BoardInv
<1>2. CASE Wixel!ISR_T4
  BY <1>2, TickKeepsBoardInv
<1>3. CASE Wixel!Timer4
  <2>1. /\ UNCHANGED <<timeMs, T4IE, boardPc, time, lastCheck, age, greenLed, usbDeviceState,
                       usbActivityFlag, usbBlinkActive, usbLastActivity, quiet, gap, used>>
        /\ \A s \in used : gap[s] < MaxGap
    BY <1>3 DEF Wixel!Timer4, Wixel!vbusVars, Wixel!ledVars
  <2>2. UNCHANGED <<Frame, VbusAge, LedAge>>
    BY <2>1 DEF Frame, VbusAge, LedAge
  <2> QED BY <1>1, <2>1, <2>2 DEF BoardInv, ClockInv, VbusInv, LedInv
<1>4. CASE Wixel!getMs
  BY <1>4, GetMsKeepsBoardInv
<1>5. CASE Wixel!usbPowerPresent
  BY <1>5, CheckKeepsBoardInv
<1>6. CASE Wixel!VbusChanges
  <2>1. UNCHANGED <<timeMs, T4IE, T4IF, boardPc, time, lastCheck, age, greenLed, usbDeviceState,
                    usbActivityFlag, usbBlinkActive, usbLastActivity, quiet, gap, used>>
    BY <1>6 DEF Wixel!VbusChanges, Wixel!clockVars, Wixel!ledVars
  <2>2. UNCHANGED <<Frame, VbusAge, LedAge>>
    BY <2>1 DEF Frame, VbusAge, LedAge
  <2> QED BY <1>1, <2>1, <2>2 DEF BoardInv, ClockInv, VbusInv, LedInv
<1>7. CASE Wixel!usbShowStatusWithGreenLed
  BY <1>7, ShowKeepsBoardInv
<1>8. CASE Wixel!UsbActivity \/ Wixel!UsbState
  <2>1. /\ UNCHANGED <<timeMs, T4IE, T4IF, boardPc, time, lastCheck, age, usbLastActivity, gap, used>>
        /\ quiet' = 0
    BY <1>8 DEF Wixel!UsbActivity, Wixel!UsbState, Wixel!clockVars, Wixel!vbusVars
  <2>2. UNCHANGED <<Frame, VbusAge, LedAge>>
    BY <2>1 DEF Frame, VbusAge, LedAge
  <2>3. ClockInv' /\ VbusInv'
    BY <1>1, <2>1, <2>2 DEF ClockInv, VbusInv
  <2>4. "led" \in used => quiet' <= gap["led"]
    <3>1. "led" \in used => gap["led"] \in 0 .. MaxGap
      BY <1>1 DEF ClockInv
    <3> QED BY <2>1, <3>1, BoardAssumption
  <2>5. LedInv'
    BY <1>1, <2>1, <2>4 DEF LedInv
  <2> QED BY <2>3, <2>5 DEF BoardInv
<1>9. CASE UNCHANGED Wixel!vars
  <2>1. UNCHANGED <<timeMs, T4IE, T4IF, boardPc, time, lastCheck, age, greenLed, usbDeviceState,
                    usbActivityFlag, usbBlinkActive, usbLastActivity, quiet, gap, used>>
    BY <1>9 DEF Wixel!vars, Wixel!clockVars, Wixel!vbusVars, Wixel!ledVars
  <2>2. UNCHANGED <<Frame, VbusAge, LedAge>>
    BY <2>1 DEF Frame, VbusAge, LedAge
  <2> QED BY <1>1, <2>1, <2>2 DEF BoardInv, ClockInv, VbusInv, LedInv
<1>10. CASE Wixel!timeInit
  <2>1. /\ UNCHANGED <<timeMs, T4IF, boardPc, time, lastCheck, age, greenLed, usbDeviceState,
                       usbActivityFlag, usbBlinkActive, usbLastActivity, quiet, gap, used>>
        /\ boardPc = "main"
    BY <1>10 DEF Wixel!timeInit, Wixel!vbusVars, Wixel!ledVars
  <2>2. UNCHANGED <<Frame, VbusAge, LedAge>>
    BY <2>1 DEF Frame, VbusAge, LedAge
  <2> QED BY <1>1, <2>1, <2>2 DEF BoardInv, ClockInv, VbusInv, LedInv
<1> QED BY <1>2, <1>3, <1>4, <1>5, <1>6, <1>7, <1>8, <1>9, <1>10 DEF Wixel!Next

LEMMA MaskInvStep ==
  ASSUME MaskInv, [Wixel!Next]_(Wixel!vars)
  PROVE  MaskInv'
<1>1. CASE UNCHANGED <<boardPc, T4IE, oldT4IE, timing>>
  BY <1>1 DEF MaskInv
<1>2. CASE Wixel!timeInit
  <2>1. boardPc = "main" /\ boardPc' = boardPc /\ T4IE' = TRUE /\ timing' = TRUE
    BY <1>2 DEF Wixel!timeInit
  <2> QED BY <2>1 DEF MaskInv
<1>3. CASE Wixel!getMs
  <2>1. timing' = timing
    BY <1>3 DEF Wixel!getMs
  <2>2. CASE boardPc = "main" /\ boardPc' = "low" /\ oldT4IE' = T4IE
    <3>1. oldT4IE' = timing'
      BY <2>1, <2>2 DEF MaskInv
    <3>2. boardPc' # "main"
      BY <2>2
    <3> QED BY <3>1, <3>2 DEF MaskInv
  <2>3. CASE boardPc \in {"low", "high"} /\ boardPc' \in {"high", "copied"} /\ oldT4IE' = oldT4IE
    <3>1. boardPc # "main" /\ boardPc' # "main"
      BY <2>3
    <3> QED BY <2>1, <2>3, <3>1 DEF MaskInv
  <2>4. CASE boardPc = "copied" /\ boardPc' = "main" /\ T4IE' = Wixel!RestoredMask
    <3>1. boardPc # "main"
      BY <2>4
    <3> QED BY <2>1, <2>4, <3>1 DEF MaskInv, Wixel!RestoredMask
  <2> QED BY <1>3, <2>2, <2>3, <2>4 DEF Wixel!getMs
<1>4. CASE Wixel!Next \/ UNCHANGED Wixel!vars
  <2>1. \/ UNCHANGED <<boardPc, T4IE, oldT4IE, timing>>
        \/ Wixel!timeInit \/ Wixel!getMs
    BY <1>4 DEF Wixel!Next, Wixel!vars, Wixel!clockVars, Wixel!ISR_T4, Wixel!Timer4,
       Wixel!usbPowerPresent, Wixel!VbusChanges, Wixel!usbShowStatusWithGreenLed,
       Wixel!UsbActivity, Wixel!UsbState
  <2> QED BY <1>1, <1>2, <1>3, <2>1
<1> QED BY <1>4

LEMMA BoardInvIsEnough == BoardInv /\ MaskInv => BoardIsExact
<1> SUFFICES ASSUME BoardInv, MaskInv PROVE BoardIsExact
  OBVIOUS
<1> USE BoardAssumption
<1>1. ClockInv /\ VbusInv /\ LedInv
  BY DEF BoardInv
<1>2. Wixel!TimeIsExact
  BY <1>1 DEF ClockInv, MaskInv, Wixel!TimeIsExact
<1>3. Wixel!VbusIsRecent
  <2> SUFFICES ASSUME "vbus" \in used, gap["vbus"] = 0 PROVE age <= CheckPeriod
    BY DEF Wixel!VbusIsRecent
  <2>1. ~(gap["vbus"] > 0)
    OBVIOUS
  <2>2. age <= CheckPeriod + gap["vbus"]
    BY <1>1, <2>1 DEF VbusInv
  <2> QED BY <2>2
<1>4. Wixel!SteadyWhenQuiet
  <2> SUFFICES ASSUME "led" \in used, gap["led"] = 0, usbDeviceState = "CONFIGURED",
                      quiet > Wixel!Quiet
               PROVE  greenLed
    BY DEF Wixel!SteadyWhenQuiet
  <2>1. quiet \in Nat /\ timeMs \in 0 .. UINT32 - 1 /\ usbLastActivity \in 0 .. UINT8 - 1
    BY <1>1 DEF ClockInv, LedInv
  <2>2. LedAge \in 0 .. UINT8 - 1
    BY <2>1, FrameTyped, SinceIs DEF LedAge
  <2>3. quiet > Hold + 3 * MaxGap
    BY DEF Wixel!Quiet
  <2>4. ~(quiet <= 0) /\ ~(LedAge <= Hold /\ quiet <= LedAge + MaxGap) /\ ~(quiet <= Hold + 2 * MaxGap)
    BY <2>1, <2>2, <2>3
  <2>5. \/ quiet <= 0
        \/ LedAge <= Hold + 0 /\ quiet <= LedAge + MaxGap
        \/ greenLed \/ quiet <= Hold + 2 * MaxGap + 0
    BY <1>1 DEF LedInv
  <2> QED BY <2>2, <2>4, <2>5
<1> QED BY <1>2, <1>3, <1>4 DEF BoardIsExact, Wixel!BoardIsExact

\* The time is read whole and leaves Timer 4 as it was, the USB power is not
\* older than its period, and the green LED tells of a bus at rest (time.c,
\* board.c, green_led.c).
THEOREM BoardStaysExact == PeripheralsSpec => []BoardIsExact
<1>1. PeripheralsInit => BoardInv /\ MaskInv
  BY BoardInvInit DEF PeripheralsInit, MaskInv, Wixel!Init
<1>2. BoardInv /\ MaskInv /\ [PeripheralsNext]_peripheralVars => BoardInv' /\ MaskInv'
  BY BoardInvStep, MaskInvStep, StepsAreOfTheirComponent
<1> QED BY <1>1, <1>2, BoardInvIsEnough, PTL DEF PeripheralsSpec

-----------------------------------------------------------------------------
(* onewire *)

Bits == 1 .. ROMBITS
AgreeBelow(a, b, n) == \A i \in Bits : i < n => a[i] = b[i]

\* The addresses part at a bit, where the first has a 0.
PartAt(a, b, p) == AgreeBelow(a, b, p) /\ a[p] = 0 /\ b[p] = 1
Before(a, b) == \E p \in Bits : PartAt(a, b, p)
LastFound == found[Len(found)]
IsFound(d) == \E i \in 1 .. Len(found) : found[i] = d

SearchTypes ==
  /\ ROM_NO \in [Bits -> {0, 1}] /\ LastDiscrepancy \in 0 .. ROMBITS /\ LastDeviceFlag \in BOOLEAN
  /\ id_bit_number \in 0 .. ROMBITS + 1 /\ last_zero \in 0 .. ROMBITS
  /\ selected \subseteq devices /\ devices \subseteq Addresses
  /\ found \in Seq(Addresses) /\ steady \in BOOLEAN

\* The bits that are known are those of an address.
PathInv ==
  id_bit_number > 0 =>
    /\ \A d \in selected : AgreeBelow(d, ROM_NO, id_bit_number)
    /\ \E a \in Addresses : AgreeBelow(a, ROM_NO, id_bit_number)
    /\ steady => \A d \in devices : AgreeBelow(d, ROM_NO, id_bit_number) => d \in selected
    /\ steady /\ id_bit_number = ROMBITS + 1 =>
         \E d \in devices : AgreeBelow(d, ROM_NO, id_bit_number)

\* What is not found comes later in the tree, from the last discrepancy on.
FoundInv ==
  /\ found = <<>> => LastDiscrepancy = 0 /\ ~LastDeviceFlag
  /\ found # <<>> =>
       /\ \A i \in 1 .. Len(found) : found[i] \in devices
       /\ \A i, j \in 1 .. Len(found) : i < j => Before(found[i], found[j])
       /\ LastDeviceFlag <=> LastDiscrepancy = 0
       /\ LastDiscrepancy > 0 => \E d \in devices : PartAt(LastFound, d, LastDiscrepancy)
       /\ \A d \in devices :
            IsFound(d) \/ \E p \in Bits : PartAt(LastFound, d, p) /\ p <= LastDiscrepancy
       /\ \A i \in Bits : i >= id_bit_number => ROM_NO[i] = LastFound[i]

\* The path goes along the last one to the last discrepancy, and there to the
\* other side; last_zero is the last bit where a device is left behind that was
\* not found.
BranchInv ==
  id_bit_number > 0 =>
    /\ ~LastDeviceFlag
    /\ found # <<>> =>
         /\ AgreeBelow(ROM_NO, LastFound, id_bit_number) \/ id_bit_number > LastDiscrepancy
         /\ AgreeBelow(ROM_NO, LastFound, LastDiscrepancy) \/ id_bit_number < LastDiscrepancy
         /\ id_bit_number > LastDiscrepancy => ROM_NO[LastDiscrepancy] = 1
    /\ last_zero < id_bit_number
    /\ last_zero > 0 => \E d \in devices : PartAt(ROM_NO, d, last_zero)
    /\ \A d \in devices, p \in Bits : p < id_bit_number =>
         /\ PartAt(ROM_NO, d, p) => p <= last_zero
         /\ PartAt(d, ROM_NO, p) => IsFound(d)

OneWireInv == SearchTypes /\ PathInv /\ (steady => FoundInv /\ BranchInv)

LEMMA BitsAre == /\ ROMBITS \in Nat \ {0} /\ Addresses \subseteq [Bits -> {0, 1}]
                 /\ \A i \in Bits : i \in Nat /\ i >= 1 /\ i <= ROMBITS
BY OneWireAssumption DEF Bits

\* Addresses are in one order of the tree.
LEMMA AddressesPart ==
  ASSUME NEW a \in [Bits -> {0, 1}], NEW b \in [Bits -> {0, 1}], a # b
  PROVE  \E p \in Bits : PartAt(a, b, p) \/ PartAt(b, a, p)
<1> DEFINE D == {i \in Bits : a[i] # b[i]}
<1>1. D # {}
  <2>1. SUFFICES ASSUME D = {} PROVE a = b
    OBVIOUS
  <2>2. \A i \in Bits : a[i] = b[i]
    BY <2>1
  <2> QED BY <2>2
<1>2. D \subseteq Nat
  BY BitsAre
<1>3. PICK p \in D : \A m \in D : p <= m
  BY <1>1, <1>2, LeastExists
<1>4. ASSUME NEW i \in Bits, i < p PROVE a[i] = b[i]
  <2>1. i \in Nat /\ p \in Nat
    BY BitsAre
  <2> QED BY <1>3, <1>4, <2>1
<1>5. p \in Bits /\ a[p] # b[p] /\ a[p] \in {0, 1} /\ b[p] \in {0, 1}
  OBVIOUS
<1> QED BY <1>4, <1>5 DEF PartAt, AgreeBelow

LEMMA BeforeGoesOn ==
  ASSUME NEW a, NEW b, NEW c, Before(a, b), Before(b, c)
  PROVE  Before(a, c)
<1>1. PICK p \in Bits : PartAt(a, b, p)
  BY DEF Before
<1>2. PICK q \in Bits : PartAt(b, c, q)
  BY DEF Before
<1>3. p \in Nat /\ q \in Nat
  BY BitsAre
<1>4. \A i \in Bits : i \in Nat
  BY BitsAre
<1>5. CASE p < q
  <2>1. PartAt(a, c, p)
    BY <1>1, <1>2, <1>3, <1>4, <1>5 DEF PartAt, AgreeBelow
  <2> QED BY <2>1 DEF Before
<1>6. CASE q < p
  <2>1. PartAt(a, c, q)
    BY <1>1, <1>2, <1>3, <1>4, <1>6 DEF PartAt, AgreeBelow
  <2> QED BY <2>1 DEF Before
<1>7. p # q
  BY <1>1, <1>2 DEF PartAt
<1> QED BY <1>3, <1>5, <1>6, <1>7

LEMMA OneWireInvInit == OneWireBus!Init => OneWireInv
<1> SUFFICES ASSUME OneWireBus!Init PROVE OneWireInv
  OBVIOUS
<1>1. /\ ROM_NO = [i \in Bits |-> 0] /\ LastDiscrepancy = 0 /\ LastDeviceFlag = FALSE
      /\ id_bit_number = 0 /\ last_zero = 0 /\ selected = {} /\ devices \subseteq Addresses
      /\ found = <<>> /\ steady = TRUE
  BY DEF OneWireBus!Init, Bits
<1>2. SearchTypes
  <2>1. ROM_NO \in [Bits -> {0, 1}] /\ found \in Seq(Addresses)
    BY <1>1
  <2>2. 0 \in 0 .. ROMBITS /\ 0 \in 0 .. ROMBITS + 1
    BY BitsAre
  <2> QED BY <1>1, <2>1, <2>2 DEF SearchTypes
<1> QED BY <1>1, <1>2 DEF OneWireInv, PathInv, FoundInv, BranchInv

\* A search that fails forgets what was found.
LEMMA FailsKeeps ==
  ASSUME OneWireInv, ROM_NO' = ROM_NO \/ ROM_NO' = [i \in Bits |-> 0],
         LastDiscrepancy' = 0, LastDeviceFlag' = FALSE, id_bit_number' = 0,
         last_zero' \in {0, last_zero}, selected' \in {{}, selected},
         found' = <<>>, steady' = TRUE, UNCHANGED devices
  PROVE  OneWireInv'
<1>1. SearchTypes'
  <2>1. ROM_NO' \in [Bits -> {0, 1}]
    <3>1. [i \in Bits |-> 0] \in [Bits -> {0, 1}]
      OBVIOUS
    <3> QED BY <3>1 DEF OneWireInv, SearchTypes
  <2>2. found' \in Seq(Addresses)
    OBVIOUS
  <2>3. 0 \in 0 .. ROMBITS /\ 0 \in 0 .. ROMBITS + 1
    BY BitsAre
  <2>4. last_zero' \in 0 .. ROMBITS
    BY <2>3 DEF OneWireInv, SearchTypes
  <2>5. selected' \subseteq devices' /\ devices' \subseteq Addresses
    BY DEF OneWireInv, SearchTypes
  <2> QED BY <2>1, <2>2, <2>3, <2>4, <2>5 DEF SearchTypes
<1> QED BY <1>1 DEF OneWireInv, PathInv, FoundInv, BranchInv

LEMMA SearchBeginsKeeps ==
  ASSUME OneWireInv, OneWireBus!SearchBegins
  PROVE  OneWireInv'
<1>1. /\ id_bit_number = 0 /\ ~LastDeviceFlag /\ devices # {}
      /\ id_bit_number' = 1 /\ last_zero' = 0 /\ selected' = devices
      /\ UNCHANGED <<ROM_NO, LastDiscrepancy, LastDeviceFlag, devices, found, steady>>
  BY DEF OneWireBus!SearchBegins, OneWireBus!onewire_reset
<1>2. SearchTypes'
  BY <1>1, BitsAre DEF OneWireInv, SearchTypes
<1>3. \A i \in Bits : ~(i < 1) /\ i >= 0
  BY BitsAre
<1>4. \A a, b : AgreeBelow(a, b, 1)
  BY <1>3 DEF AgreeBelow
<1>5. 1 # ROMBITS + 1 /\ 1 > 0 /\ 0 < 1
  BY BitsAre
<1>6. PathInv'
  <2>1. \E a \in Addresses : TRUE
    BY <1>1 DEF OneWireInv, SearchTypes
  <2>2. PathInv' <=> (1 > 0 =>
          /\ \A d \in devices : AgreeBelow(d, ROM_NO, 1)
          /\ \E a \in Addresses : AgreeBelow(a, ROM_NO, 1)
          /\ steady => \A d \in devices : AgreeBelow(d, ROM_NO, 1) => d \in devices
          /\ steady /\ 1 = ROMBITS + 1 => \E d \in devices : AgreeBelow(d, ROM_NO, 1))
    BY <1>1 DEF PathInv, AgreeBelow
  <2> QED BY <1>4, <1>5, <2>1, <2>2
<1>7. ASSUME steady PROVE FoundInv' /\ BranchInv'
  <2>1. FoundInv
    BY <1>7 DEF OneWireInv
  <2>2. \A i \in Bits : found # <<>> => ROM_NO[i] = LastFound[i]
    BY <1>1, <1>3, <2>1 DEF FoundInv
  <2>3. FoundInv'
    BY <1>1, <2>1, <2>2 DEF FoundInv, LastFound, IsFound, PartAt, AgreeBelow, Before
  <2>4. found # <<>> => LastDiscrepancy \in Nat /\ LastDiscrepancy >= 1
    BY <1>1, <2>1 DEF FoundInv, OneWireInv, SearchTypes
  <2>5. BranchInv'
    <3>1. found # <<>> => ~(1 > LastDiscrepancy)
      BY <2>4
    <3>2. found # <<>> => AgreeBelow(ROM_NO, LastFound, LastDiscrepancy) \/ 1 < LastDiscrepancy
      <4>1. CASE LastDiscrepancy = 1
        BY <1>4, <4>1
      <4> QED BY <2>4, <4>1
    <3>3. LastFound' = LastFound /\ ROM_NO' = ROM_NO
      BY <1>1 DEF LastFound
    <3>4. ~(0 > 0)
      OBVIOUS
    <3> QED BY <1>1, <1>3, <1>4, <1>5, <3>1, <3>2, <3>3, <3>4 DEF BranchInv, AgreeBelow, PartAt, IsFound
  <2> QED BY <2>3, <2>5
<1> QED BY <1>1, <1>2, <1>6, <1>7 DEF OneWireInv

\* Devices have different bits where the search is.
Split == (\E d \in selected : d[id_bit_number] = 0) /\ (\E d \in selected : d[id_bit_number] = 1)

\* What a bit of the search reads and writes.
LEMMA SearchBitIs ==
  ASSUME SearchTypes, OneWireBus!SearchBit
  PROVE  \E v \in {0, 1} :
           /\ ROM_NO' = [ROM_NO EXCEPT ![id_bit_number] = v]
           /\ \E d \in selected : d[id_bit_number] = v
           /\ Split => v = OneWireBus!Direction(id_bit_number)
           /\ last_zero' = IF Split /\ v = 0 THEN id_bit_number ELSE last_zero
           /\ selected' = {d \in selected : d[id_bit_number] = v}
<1> DEFINE b == id_bit_number
           zero == OneWireBus!onewire_read_bit(1)
           one == OneWireBus!onewire_read_bit(0)
           v == IF zero # one THEN zero ELSE OneWireBus!Direction(b)
<1>1. /\ zero = 0 \/ one = 0
      /\ ROM_NO' = [ROM_NO EXCEPT ![b] = v]
      /\ last_zero' = IF zero = one /\ v = 0 THEN b ELSE last_zero
      /\ selected' = {d \in selected : d[b] = v}
      /\ b \in Bits
  BY DEF OneWireBus!SearchBit, Bits
<1>2. \A d \in selected : d[b] \in {0, 1}
  BY <1>1, BitsAre DEF SearchTypes
<1>3. zero = IF \E d \in selected : d[b] = 0 THEN 0 ELSE 1
  BY <1>2 DEF OneWireBus!onewire_read_bit
<1>4. one = IF \E d \in selected : d[b] = 1 THEN 0 ELSE 1
  BY <1>2 DEF OneWireBus!onewire_read_bit
<1>5. OneWireBus!Direction(b) \in {0, 1}
  BY <1>1 DEF OneWireBus!Direction, SearchTypes
<1> HIDE DEF zero, one
<1>6. Split <=> zero = one
  BY <1>1, <1>3, <1>4 DEF Split
<1>7. v \in {0, 1} /\ \E d \in selected : d[b] = v
  BY <1>1, <1>3, <1>4, <1>5
<1>8. Split => v = OneWireBus!Direction(b)
  BY <1>6
<1>9. last_zero' = IF Split /\ v = 0 THEN b ELSE last_zero
  BY <1>1, <1>6
<1> HIDE DEF v
<1> QED BY <1>1, <1>7, <1>8, <1>9

LEMMA AgreeOnward ==
  ASSUME NEW a, NEW f \in [Bits -> {0, 1}], NEW b \in Bits, NEW v \in {0, 1}
  PROVE  AgreeBelow(a, [f EXCEPT ![b] = v], b + 1) <=> AgreeBelow(a, f, b) /\ a[b] = v
<1>1. \A i \in Bits : i < b + 1 <=> i < b \/ i = b
  BY BitsAre
<1>2. \A i \in Bits : i < b => i # b
  BY BitsAre
<1> QED BY <1>1, <1>2 DEF AgreeBelow

\* A bit that is written changes no way that ends before it.
LEMMA WriteAhead ==
  ASSUME NEW a, NEW f \in [Bits -> {0, 1}], NEW b \in Bits, NEW v \in {0, 1},
         NEW n \in Nat, n <= b
  PROVE  /\ AgreeBelow([f EXCEPT ![b] = v], a, n) <=> AgreeBelow(f, a, n)
         /\ AgreeBelow(a, [f EXCEPT ![b] = v], n) <=> AgreeBelow(a, f, n)
         /\ n < b => (PartAt([f EXCEPT ![b] = v], a, n) <=> PartAt(f, a, n)) \/ n = 0
         /\ n < b => (PartAt(a, [f EXCEPT ![b] = v], n) <=> PartAt(a, f, n)) \/ n = 0
<1> DEFINE g == [f EXCEPT ![b] = v]
<1>1. \A i \in Bits : i < n => g[i] = f[i]
  BY BitsAre
<1>2. n < b /\ n # 0 => g[n] = f[n]
  BY BitsAre DEF Bits
<1> HIDE DEF g
<1>3. /\ AgreeBelow(g, a, n) <=> AgreeBelow(f, a, n)
      /\ AgreeBelow(a, g, n) <=> AgreeBelow(a, f, n)
  BY <1>1 DEF AgreeBelow
<1> QED BY <1>2, <1>3 DEF PartAt, g

LEMMA SearchBitKeeps ==
  ASSUME OneWireInv, OneWireBus!SearchBit
  PROVE  OneWireInv'
<1> DEFINE b == id_bit_number
           low == LastDiscrepancy
<1>1. PICK v \in {0, 1} :
        /\ ROM_NO' = [ROM_NO EXCEPT ![b] = v]
        /\ \E d \in selected : d[b] = v
        /\ Split => v = OneWireBus!Direction(b)
        /\ last_zero' = IF Split /\ v = 0 THEN b ELSE last_zero
        /\ selected' = {d \in selected : d[b] = v}
  BY SearchBitIs DEF OneWireInv
<1>2. /\ b \in Bits /\ id_bit_number' = b + 1
      /\ UNCHANGED <<LastDiscrepancy, LastDeviceFlag, devices, found, steady>>
  BY DEF OneWireBus!SearchBit, Bits
<1>3. /\ ROM_NO \in [Bits -> {0, 1}] /\ low \in 0 .. ROMBITS /\ last_zero \in 0 .. ROMBITS
      /\ selected \subseteq devices /\ devices \subseteq [Bits -> {0, 1}]
      /\ devices \subseteq Addresses
  BY BitsAre DEF OneWireInv, SearchTypes
<1>4. b \in Nat /\ b > 0 /\ b <= ROMBITS /\ ROMBITS \in Nat /\ b + 1 > 0
  BY <1>2, BitsAre
<1>5. SearchTypes'
  <2>1. ROM_NO' \in [Bits -> {0, 1}]
    BY <1>1, <1>3
  <2>2. last_zero' \in 0 .. ROMBITS
    BY <1>1, <1>3, <1>4
  <2>3. b + 1 \in 0 .. ROMBITS + 1
    BY <1>4
  <2> QED BY <1>1, <1>2, <2>1, <2>2, <2>3 DEF OneWireInv, SearchTypes
<1>6. /\ \A d \in selected : AgreeBelow(d, ROM_NO, b)
      /\ steady => \A d \in devices : AgreeBelow(d, ROM_NO, b) => d \in selected
  BY <1>4 DEF OneWireInv, PathInv
<1>7. \A a : AgreeBelow(a, ROM_NO', b + 1) <=> AgreeBelow(a, ROM_NO, b) /\ a[b] = v
  BY <1>1, <1>2, <1>3, AgreeOnward
<1>8. PathInv'
  <2>1. \A d \in selected' : AgreeBelow(d, ROM_NO', b + 1)
    BY <1>1, <1>6, <1>7
  <2>2. \E d \in selected : AgreeBelow(d, ROM_NO', b + 1)
    BY <1>1, <1>6, <1>7
  <2>3. steady => \A d \in devices : AgreeBelow(d, ROM_NO', b + 1) => d \in selected'
    BY <1>1, <1>6, <1>7
  <2>4. (id_bit_number > 0)' => 
          /\ \A d \in selected' : AgreeBelow(d, ROM_NO', b + 1)
          /\ \E a \in Addresses : AgreeBelow(a, ROM_NO', b + 1)
          /\ steady => \A d \in devices : AgreeBelow(d, ROM_NO', b + 1) => d \in selected'
          /\ steady /\ b + 1 = ROMBITS + 1 => \E d \in devices : AgreeBelow(d, ROM_NO', b + 1)
    BY <1>3, <2>1, <2>2, <2>3
  <2> HIDE DEF b
  <2> QED BY <1>2, <2>4 DEF PathInv, AgreeBelow
<1>9. ASSUME steady PROVE FoundInv' /\ BranchInv'
  <2>1. FoundInv /\ BranchInv
    BY <1>9 DEF OneWireInv
  <2>2. \A i \in Bits : i >= b + 1 => i >= b /\ ROM_NO'[i] = ROM_NO[i]
    BY <1>1, <1>3, <1>4, BitsAre
  <2>3. FoundInv'
    <3>1. found # <<>> => \A i \in Bits : i >= b + 1 => ROM_NO'[i] = LastFound[i]
      BY <2>1, <2>2 DEF FoundInv
    <3> HIDE DEF b
    <3> QED BY <1>2, <2>1, <3>1 DEF FoundInv, LastFound, IsFound, PartAt, AgreeBelow, Before
  <2>4. ~LastDeviceFlag /\ last_zero < b
    BY <1>4, <2>1 DEF BranchInv
  <2>5. \A d \in selected : d[b] = v \/ Split
    <3>1. \A d \in selected : d[b] \in {0, 1}
      BY <1>2, <1>3
    <3> QED BY <1>1, <3>1 DEF Split
  <2>6. found # <<>> => /\ low \in Bits /\ low > 0
                        /\ \E d \in devices : PartAt(LastFound, d, low)
                        /\ LastFound \in [Bits -> {0, 1}]
                        /\ b <= low => AgreeBelow(ROM_NO, LastFound, b)
                        /\ low <= b => AgreeBelow(ROM_NO, LastFound, low)
                        /\ b > low => ROM_NO[low] = 1
                        /\ ROM_NO[b] = LastFound[b]
    <3> SUFFICES ASSUME found # <<>> PROVE
          /\ low \in Bits /\ low > 0
          /\ \E d \in devices : PartAt(LastFound, d, low)
          /\ LastFound \in [Bits -> {0, 1}]
          /\ b <= low => AgreeBelow(ROM_NO, LastFound, b)
          /\ low <= b => AgreeBelow(ROM_NO, LastFound, low)
          /\ b > low => ROM_NO[low] = 1
          /\ ROM_NO[b] = LastFound[b]
      OBVIOUS
    <3>1. low # 0 /\ (LastDiscrepancy > 0 => \E d \in devices : PartAt(LastFound, d, LastDiscrepancy))
      BY <2>1, <2>4 DEF FoundInv
    <3>2. low \in Bits /\ low > 0
      BY <1>3, <3>1 DEF Bits
    <3>3. LastFound \in [Bits -> {0, 1}]
      <4>1. found \in Seq(Addresses)
        BY DEF OneWireInv, SearchTypes
      <4>2. LastFound \in Addresses
        BY <4>1 DEF LastFound
      <4> QED BY <4>2, BitsAre
    <3>4. /\ AgreeBelow(ROM_NO, LastFound, b) \/ b > low
          /\ AgreeBelow(ROM_NO, LastFound, low) \/ b < low
          /\ b > low => ROM_NO[low] = 1
      BY <1>4, <2>1 DEF BranchInv
    <3>5. (b <= low => ~(b > low)) /\ (low <= b => ~(b < low)) /\ b >= b
      BY <1>3, <1>4
    <3>6. ROM_NO[b] = LastFound[b]
      BY <1>2, <2>1, <3>5 DEF FoundInv
    <3> QED BY <3>1, <3>2, <3>3, <3>4, <3>5, <3>6
  <2>7. ASSUME found # <<>>
        PROVE  /\ AgreeBelow(ROM_NO', LastFound, b + 1) \/ b + 1 > low
               /\ AgreeBelow(ROM_NO', LastFound, low) \/ b + 1 < low
               /\ b + 1 > low => ROM_NO'[low] = 1
    <3>1. PICK d \in devices : PartAt(LastFound, d, low)
      BY <2>6, <2>7
    <3>2. low \in Nat
      BY <1>3
    <3>3. CASE b < low
      <4>1. AgreeBelow(ROM_NO, LastFound, b)
        BY <1>4, <2>6, <2>7, <3>2, <3>3
      <4>2. AgreeBelow(d, ROM_NO, b) /\ d[b] = LastFound[b]
        <5>1. \A i \in Bits : i < b => i < low
          BY <1>4, <3>2, <3>3, BitsAre
        <5> QED BY <1>2, <3>1, <3>3, <4>1, <5>1 DEF PartAt, AgreeBelow
      <4>3. d \in selected
        BY <1>6, <1>9, <4>2
      <4>4. v = LastFound[b]
        <5>1. CASE Split
          BY <1>1, <2>6, <2>7, <3>3, <5>1 DEF OneWireBus!Direction
        <5> QED BY <2>5, <4>2, <4>3, <5>1
      <4>5. AgreeBelow(LastFound, ROM_NO', b + 1)
        BY <1>7, <4>1, <4>4 DEF AgreeBelow
      <4>6. AgreeBelow(ROM_NO', LastFound, b + 1)
        BY <4>5 DEF AgreeBelow
      <4>7. b + 1 < low \/ b + 1 = low
        BY <1>4, <3>2, <3>3
      <4>8. ~(b + 1 > low)
        BY <1>4, <3>2, <3>3
      <4> QED BY <4>6, <4>7, <4>8
    <3>4. CASE low <= b
      <4>1. AgreeBelow(ROM_NO, LastFound, low)
        BY <2>6, <2>7, <3>4
      <4>2. AgreeBelow(ROM_NO', LastFound, low)
        BY <1>1, <1>2, <1>3, <3>2, <3>4, <4>1, WriteAhead
      <4>3. b + 1 > low
        BY <1>4, <3>2, <3>4
      <4>4. ROM_NO'[low] = 1
        <5>1. CASE low < b
          <6>1. ROM_NO[low] = 1
            BY <2>6, <2>7, <5>1
          <6>2. low \in Bits /\ low # b
            BY <1>4, <2>6, <2>7, <3>2, <5>1
          <6> QED BY <1>1, <1>3, <6>1, <6>2
        <5>2. CASE low = b
          <6>1. AgreeBelow(d, ROM_NO, b) /\ d[b] = 1
            BY <3>1, <4>1, <5>2 DEF PartAt, AgreeBelow
          <6>2. d \in selected
            BY <1>6, <1>9, <6>1
          <6>3. v = 1
            <7>1. CASE Split
              <8>1. ~(b < low)
                BY <1>4, <3>2, <5>2
              <8> QED BY <1>1, <5>2, <7>1, <8>1 DEF OneWireBus!Direction
            <7> QED BY <2>5, <6>1, <6>2, <7>1
          <6> QED BY <1>1, <1>2, <1>3, <5>2, <6>3
        <5> QED BY <1>4, <3>2, <3>4, <5>1, <5>2
      <4> QED BY <4>2, <4>3, <4>4
    <3> QED BY <1>4, <3>2, <3>3, <3>4
  <2>8. last_zero' < b + 1 /\ last_zero <= last_zero'
    BY <1>1, <1>3, <1>4, <2>4
  <2>9. last_zero' > 0 => \E d \in devices : PartAt(ROM_NO', d, last_zero')
    <3>1. CASE Split /\ v = 0
      <4>1. PICK d \in selected : d[b] = 1
        BY <3>1 DEF Split
      <4>2. ROM_NO'[b] = 0
        BY <1>1, <1>2, <1>3, <3>1
      <4>3. AgreeBelow(d, ROM_NO', b)
        <5>1. b <= b
          BY <1>4
        <5> QED BY <1>1, <1>2, <1>3, <1>4, <1>6, <5>1, WriteAhead
      <4>4. PartAt(ROM_NO', d, b)
        BY <4>1, <4>2, <4>3 DEF PartAt, AgreeBelow
      <4> QED BY <1>1, <1>3, <3>1, <4>4
    <3>2. CASE ~(Split /\ v = 0)
      <4>1. last_zero' = last_zero
        BY <1>1, <3>2
      <4>2. SUFFICES ASSUME last_zero > 0 PROVE \E d \in devices : PartAt(ROM_NO', d, last_zero)
        BY <4>1
      <4>3. PICK d \in devices : PartAt(ROM_NO, d, last_zero)
        BY <1>4, <2>1, <4>2 DEF BranchInv
      <4>4. last_zero \in Nat /\ last_zero # 0 /\ last_zero < b /\ last_zero <= b
        BY <1>3, <1>4, <2>4, <4>2
      <4>5. PartAt(ROM_NO', d, last_zero)
        BY <1>1, <1>2, <1>3, <4>3, <4>4, WriteAhead
      <4> QED BY <4>5
    <3> QED BY <3>1, <3>2
  <2>10. ASSUME NEW d \in devices, NEW p \in Bits, p < b + 1
         PROVE  /\ PartAt(ROM_NO', d, p) => p <= last_zero'
                /\ PartAt(d, ROM_NO', p) => IsFound(d)
    <3>1. p \in Nat /\ p # 0 /\ (p < b \/ p = b)
      BY <1>4, <2>10, BitsAre
    <3>2. CASE p < b
      <4>1. /\ PartAt(ROM_NO, d, p) => p <= last_zero
            /\ PartAt(d, ROM_NO, p) => IsFound(d)
        BY <1>4, <2>1, <3>2 DEF BranchInv
      <4>2. p <= b
        BY <1>4, <3>1, <3>2
      <4>3. /\ PartAt(ROM_NO', d, p) <=> PartAt(ROM_NO, d, p)
            /\ PartAt(d, ROM_NO', p) <=> PartAt(d, ROM_NO, p)
        BY <1>1, <1>2, <1>3, <3>1, <3>2, <4>2, WriteAhead
      <4>4. p <= last_zero => p <= last_zero'
        <5>1. last_zero' \in Nat
          BY <1>1, <1>3, <1>4
        <5> QED BY <1>3, <2>8, <3>1, <5>1
      <4> QED BY <4>1, <4>3, <4>4
    <3>3. CASE p = b
      <4>1. ROM_NO'[b] = v
        BY <1>1, <1>2, <1>3
      <4>2. ASSUME AgreeBelow(d, ROM_NO', b), d[b] # v, d[b] \in {0, 1}
            PROVE  d \in selected /\ Split
        <5>1. b <= b
          BY <1>4
        <5>2. AgreeBelow(d, ROM_NO, b)
          BY <1>1, <1>2, <1>3, <1>4, <4>2, <5>1, WriteAhead
        <5>3. d \in selected
          BY <1>6, <1>9, <5>2
        <5> QED BY <1>1, <2>5, <4>2, <5>3
      <4>3. PartAt(ROM_NO', d, p) => p <= last_zero'
        <5>1. SUFFICES ASSUME PartAt(ROM_NO', d, b) PROVE b <= last_zero'
          BY <3>3
        <5>2. AgreeBelow(d, ROM_NO', b) /\ v = 0 /\ d[b] = 1
          BY <4>1, <5>1 DEF PartAt, AgreeBelow
        <5>3. last_zero' = b
          BY <1>1, <4>2, <5>2
        <5> QED BY <1>4, <5>3
      <4>4. PartAt(d, ROM_NO', p) => IsFound(d)
        <5>1. SUFFICES ASSUME PartAt(d, ROM_NO', b) PROVE IsFound(d)
          BY <3>3
        <5>2. AgreeBelow(d, ROM_NO', b) /\ v = 1 /\ d[b] = 0
          BY <4>1, <5>1 DEF PartAt
        <5>3. d \in selected /\ OneWireBus!Direction(b) = 1
          BY <1>1, <4>2, <5>2
        <5>4. AgreeBelow(d, ROM_NO, b)
          BY <1>6, <5>3
        <5>5. low \in Nat
          BY <1>3
        <5>6. (b < low /\ ROM_NO[b] = 1) \/ b = low
          BY <5>3 DEF OneWireBus!Direction
        <5>7. found # <<>>
          <6>1. low # 0
            BY <1>4, <5>5, <5>6
          <6> QED BY <2>1, <6>1 DEF FoundInv
        <5>8. AgreeBelow(d, LastFound, b)
          <6>1. b <= low
            BY <1>4, <5>5, <5>6
          <6>2. AgreeBelow(ROM_NO, LastFound, b)
            BY <2>6, <5>7, <6>1
          <6> QED BY <5>4, <6>2 DEF AgreeBelow
        <5>9. ASSUME NEW q \in Bits, PartAt(LastFound, d, q), q <= low PROVE FALSE
          <6>1. q \in Nat
            BY BitsAre
          <6>2. ~(q < b)
            <7>1. SUFFICES ASSUME q < b PROVE FALSE
              OBVIOUS
            <7>2. d[q] = LastFound[q]
              BY <5>8, <7>1 DEF AgreeBelow
            <7> QED BY <5>9, <7>2 DEF PartAt
          <6>3. q # b
            BY <5>2, <5>9 DEF PartAt
          <6>4. b < q
            BY <1>4, <6>1, <6>2, <6>3
          <6>5. LastFound[b] = 0
            BY <1>2, <5>2, <5>9, <6>4 DEF PartAt, AgreeBelow
          <6>6. b < low
            BY <1>4, <5>5, <5>9, <6>1, <6>4
          <6>7. ROM_NO[b] = 1
            BY <1>4, <5>5, <5>6, <6>6
          <6> QED BY <2>6, <5>7, <6>5, <6>7
        <5> QED BY <2>1, <5>7, <5>9 DEF FoundInv
      <4> QED BY <4>3, <4>4
    <3> QED BY <3>1, <3>2, <3>3
  <2>11. BranchInv'
    <3>1. LastFound' = LastFound /\ \A d : IsFound(d)' <=> IsFound(d)
      BY <1>2 DEF LastFound, IsFound
    <3>2. b + 1 > 0 =>
            /\ ~LastDeviceFlag
            /\ found # <<>> =>
                 /\ AgreeBelow(ROM_NO', LastFound, b + 1) \/ b + 1 > low
                 /\ AgreeBelow(ROM_NO', LastFound, low) \/ b + 1 < low
                 /\ b + 1 > low => ROM_NO'[low] = 1
            /\ last_zero' < b + 1
            /\ last_zero' > 0 => \E d \in devices : PartAt(ROM_NO', d, last_zero')
            /\ \A d \in devices, p \in Bits : p < b + 1 =>
                 /\ PartAt(ROM_NO', d, p) => p <= last_zero'
                 /\ PartAt(d, ROM_NO', p) => IsFound(d)
      BY <2>4, <2>7, <2>8, <2>9, <2>10
    <3> HIDE DEF b
    <3> QED BY <1>2, <3>1, <3>2 DEF BranchInv, AgreeBelow, PartAt, IsFound, LastFound
  <2> QED BY <2>3, <2>11
<1> QED BY <1>2, <1>5, <1>8, <1>9 DEF OneWireInv

\* The address at the end of a path is the next one of the tree.
LEMMA SearchEndsKeeps ==
  ASSUME OneWireInv, id_bit_number = ROMBITS + 1,
         LastDiscrepancy' = last_zero, LastDeviceFlag' = (last_zero = 0),
         id_bit_number' = 0, last_zero' = 0, selected' = {}, found' = Append(found, ROM_NO),
         UNCHANGED <<ROM_NO, devices, steady>>
  PROVE  OneWireInv'
<1>1. /\ ROM_NO \in [Bits -> {0, 1}] /\ devices \subseteq [Bits -> {0, 1}]
      /\ last_zero \in 0 .. ROMBITS /\ found \in Seq(Addresses) /\ ROMBITS \in Nat
      /\ LastDiscrepancy \in 0 .. ROMBITS
  BY BitsAre DEF OneWireInv, SearchTypes
<1>2. id_bit_number > 0 /\ \A i \in Bits : i < id_bit_number
  BY BitsAre
<1>3. ASSUME NEW a \in [Bits -> {0, 1}], AgreeBelow(a, ROM_NO, id_bit_number) PROVE a = ROM_NO
  <2>1. \A i \in Bits : a[i] = ROM_NO[i]
    BY <1>2, <1>3 DEF AgreeBelow
  <2> QED BY <1>1, <2>1
<1>4. ROM_NO \in Addresses
  BY <1>2, <1>3, BitsAre DEF OneWireInv, PathInv
<1>5. /\ found' \in Seq(Addresses) /\ Len(found') = Len(found) + 1 /\ Len(found) \in Nat
      /\ found'[Len(found) + 1] = ROM_NO /\ \A i \in 1 .. Len(found) : found'[i] = found[i]
      /\ found' # <<>>
  BY <1>1, <1>4
<1>6. SearchTypes'
  <2>1. 0 \in 0 .. ROMBITS /\ 0 \in 0 .. ROMBITS + 1
    BY <1>1
  <2>2. LastDeviceFlag' \in BOOLEAN
    OBVIOUS
  <2> QED BY <1>1, <1>5, <2>1, <2>2 DEF OneWireInv, SearchTypes
<1>7. PathInv' /\ BranchInv'
  BY DEF PathInv, BranchInv
<1>8. ASSUME steady PROVE FoundInv'
  <2>1. FoundInv /\ BranchInv
    BY <1>8 DEF OneWireInv
  <2>2. ROM_NO \in devices
    BY <1>1, <1>2, <1>3, <1>8 DEF OneWireInv, PathInv
  <2>3. LastFound' = ROM_NO
    BY <1>5 DEF LastFound
  <2>4. ASSUME NEW i \in 1 .. Len(found) PROVE Before(found[i], ROM_NO)
    <3>1. found # <<>> /\ Len(found) \in 1 .. Len(found)
      BY <1>1
    <3>2. LastDiscrepancy > 0 /\ LastDiscrepancy \in Bits
      <4>1. LastDiscrepancy # 0
        BY <1>2, <2>1, <3>1 DEF FoundInv, BranchInv
      <4> QED BY <1>1, <4>1 DEF Bits
    <3>3. id_bit_number > LastDiscrepancy /\ ~(id_bit_number < LastDiscrepancy)
      BY <1>1
    <3>4. AgreeBelow(ROM_NO, LastFound, LastDiscrepancy) /\ ROM_NO[LastDiscrepancy] = 1
      BY <1>2, <2>1, <3>1, <3>3 DEF BranchInv
    <3>5. LastFound[LastDiscrepancy] = 0
      BY <2>1, <3>1, <3>2 DEF FoundInv, PartAt
    <3>6. PartAt(LastFound, ROM_NO, LastDiscrepancy)
      BY <3>4, <3>5 DEF PartAt, AgreeBelow
    <3>7. Before(LastFound, ROM_NO)
      BY <3>2, <3>6 DEF Before
    <3>8. CASE i = Len(found)
      BY <3>7, <3>8 DEF LastFound
    <3>9. CASE i # Len(found)
      <4>1. i < Len(found)
        BY <1>5, <3>9
      <4>2. Before(found[i], LastFound)
        BY <2>1, <3>1, <4>1 DEF FoundInv, LastFound
      <4> QED BY <3>7, <4>2, BeforeGoesOn
    <3> QED BY <3>8, <3>9
  <2>5. \A i \in 1 .. Len(found) + 1 : i \in 1 .. Len(found) \/ i = Len(found) + 1
    BY <1>5
  <2>6. \A i \in 1 .. Len(found) : found[i] \in devices
    BY <1>5, <2>1 DEF FoundInv
  <2>7. \A i \in 1 .. Len(found) + 1 : found'[i] \in devices
    BY <1>5, <2>2, <2>5, <2>6
  <2>8. ASSUME NEW i \in 1 .. Len(found) + 1, NEW j \in 1 .. Len(found) + 1, i < j
        PROVE  Before(found'[i], found'[j])
    <3>1. i \in 1 .. Len(found)
      BY <1>5, <2>8
    <3>2. CASE j \in 1 .. Len(found)
      <4>1. found # <<>>
        BY <1>5, <3>1
      <4> QED BY <1>5, <2>1, <2>8, <3>1, <3>2, <4>1 DEF FoundInv
    <3>3. CASE j = Len(found) + 1
      BY <1>5, <2>4, <3>1, <3>3
    <3> QED BY <2>5, <3>2, <3>3
  <2>9. last_zero > 0 => \E d \in devices : PartAt(ROM_NO, d, last_zero)
    BY <1>2, <2>1 DEF BranchInv
  <2>10. ASSUME NEW d \in devices
         PROVE  (\E i \in 1 .. Len(found) + 1 : found'[i] = d)
                \/ \E p \in Bits : PartAt(ROM_NO, d, p) /\ p <= last_zero
    <3>1. CASE d = ROM_NO
      <4>1. Len(found) + 1 \in 1 .. Len(found) + 1
        BY <1>5
      <4> QED BY <1>5, <3>1, <4>1
    <3>2. CASE d # ROM_NO
      <4>1. PICK p \in Bits : PartAt(ROM_NO, d, p) \/ PartAt(d, ROM_NO, p)
        BY <1>1, <3>2, AddressesPart
      <4>2. /\ PartAt(ROM_NO, d, p) => p <= last_zero
            /\ PartAt(d, ROM_NO, p) => IsFound(d)
        BY <1>2, <2>1 DEF BranchInv
      <4>3. IsFound(d) => \E i \in 1 .. Len(found) + 1 : found'[i] = d
        <5>1. \A i \in 1 .. Len(found) : i \in 1 .. Len(found) + 1
          BY <1>5
        <5> QED BY <1>5, <5>1 DEF IsFound
      <4> QED BY <4>1, <4>2, <4>3
    <3> QED BY <3>1, <3>2
  <2>11. LastDeviceFlag' <=> LastDiscrepancy' = 0
    OBVIOUS
  <2> QED BY <1>5, <2>3, <2>7, <2>8, <2>9, <2>10, <2>11
          DEF FoundInv, IsFound, PartAt, AgreeBelow, Before
<1> QED BY <1>6, <1>7, <1>8 DEF OneWireInv

\* Once a device came or went, only the path counts.
LEMMA DevicesKeep ==
  ASSUME OneWireInv, steady' = FALSE, devices' \subseteq Addresses,
         selected' \subseteq selected, selected' \subseteq devices',
         UNCHANGED <<ROM_NO, LastDiscrepancy, LastDeviceFlag, id_bit_number, last_zero, found>>
  PROVE  OneWireInv'
<1>1. SearchTypes'
  BY DEF OneWireInv, SearchTypes
<1>2. PathInv'
  BY DEF OneWireInv, PathInv, AgreeBelow
<1> QED BY <1>1, <1>2 DEF OneWireInv

LEMMA OneWireInvStep == OneWireInv /\ [OneWireBus!Next]_(OneWireBus!vars) => OneWireInv'
<1> SUFFICES ASSUME OneWireInv, [OneWireBus!Next]_(OneWireBus!vars) PROVE OneWireInv'
  OBVIOUS
<1>1. ASSUME OneWireBus!Fails PROVE OneWireInv'
  BY <1>1, FailsKeeps DEF OneWireBus!Fails, OneWireBus!Anew
<1>2. CASE OneWireBus!SearchFails
  BY <1>1, <1>2 DEF OneWireBus!SearchFails
<1>3. CASE OneWireBus!SearchBegins
  BY <1>3, SearchBeginsKeeps
<1>4. CASE OneWireBus!SearchBit
  BY <1>4, SearchBitKeeps
<1>5. CASE OneWireBus!NobodyAnswers
  BY <1>1, <1>5 DEF OneWireBus!NobodyAnswers
<1>6. CASE OneWireBus!SearchEnds
  BY <1>1, <1>6, SearchEndsKeeps DEF OneWireBus!SearchEnds
<1>7. CASE OneWireBus!onewire_reset_search
  BY <1>7, FailsKeeps DEF OneWireBus!onewire_reset_search, OneWireBus!Anew, Bits
<1>8. CASE OneWireBus!DeviceGoes
  <2>1. PICK d \in devices : devices' = devices \ {d} /\ selected' = selected \ {d}
    BY <1>8 DEF OneWireBus!DeviceGoes
  <2>2. /\ devices' \subseteq Addresses /\ selected' \subseteq selected
        /\ selected' \subseteq devices'
    BY <2>1 DEF OneWireInv, SearchTypes
  <2> QED BY <1>8, <2>2, DevicesKeep DEF OneWireBus!DeviceGoes
<1>9. CASE OneWireBus!DeviceComes
  <2>1. PICK d \in Addresses \ devices : devices' = devices \cup {d} /\ selected' = selected
    BY <1>9 DEF OneWireBus!DeviceComes
  <2>2. /\ devices' \subseteq Addresses /\ selected' \subseteq selected
        /\ selected' \subseteq devices'
    BY <2>1 DEF OneWireInv, SearchTypes
  <2> QED BY <1>9, <2>2, DevicesKeep DEF OneWireBus!DeviceComes
<1>10. CASE UNCHANGED OneWireBus!vars
  BY <1>10 DEF OneWireBus!vars, OneWireInv, SearchTypes, PathInv, FoundInv, BranchInv, LastFound,
     IsFound, PartAt, AgreeBelow, Before
<1> QED BY <1>2, <1>3, <1>4, <1>5, <1>6, <1>7, <1>8, <1>9, <1>10
        DEF OneWireBus!Next, OneWireBus!onewire_search

LEMMA OneWireInvIsEnough == OneWireInv => SearchFindsAll
<1> SUFFICES ASSUME OneWireInv PROVE SearchFindsAll
  OBVIOUS
<1>1. found \in Seq(Addresses) /\ Len(found) \in Nat /\ DOMAIN found = 1 .. Len(found)
  BY DEF OneWireInv, SearchTypes
<1>2. OneWireBus!Range(found) \subseteq Addresses
  BY <1>1 DEF OneWireBus!Range
<1>3. ASSUME steady
      PROVE  /\ OneWireBus!IsInjective(found) /\ OneWireBus!Range(found) \subseteq devices
             /\ LastDeviceFlag => OneWireBus!Range(found) = devices
  <2>1. FoundInv
    BY <1>3 DEF OneWireInv
  <2>2. CASE found = <<>>
    <3>1. DOMAIN found = {} /\ ~LastDeviceFlag
      BY <2>1, <2>2 DEF FoundInv
    <3> QED BY <3>1 DEF OneWireBus!IsInjective, OneWireBus!Range
  <2>3. CASE found # <<>>
    <3>1. \A i \in 1 .. Len(found) : found[i] \in devices
      BY <2>1, <2>3 DEF FoundInv
    <3>2. OneWireBus!Range(found) \subseteq devices
      BY <1>1, <3>1 DEF OneWireBus!Range
    <3>3. \A a : ~Before(a, a)
      BY DEF Before, PartAt
    <3>4. \A i, j \in 1 .. Len(found) : found[i] = found[j] => ~(i < j)
      BY <2>1, <2>3, <3>3 DEF FoundInv
    <3>5. \A i, j \in 1 .. Len(found) : i = j \/ i < j \/ j < i
      BY <1>1
    <3>6. OneWireBus!IsInjective(found)
      BY <1>1, <3>4, <3>5 DEF OneWireBus!IsInjective
    <3>7. ASSUME LastDeviceFlag, NEW d \in devices PROVE IsFound(d)
      <4>1. LastDiscrepancy = 0
        BY <2>1, <2>3, <3>7 DEF FoundInv
      <4>2. \A p \in Bits : ~(p <= 0)
        BY BitsAre
      <4> QED BY <2>1, <2>3, <4>1, <4>2 DEF FoundInv
    <3>8. LastDeviceFlag => OneWireBus!Range(found) = devices
      BY <1>1, <3>2, <3>7 DEF OneWireBus!Range, IsFound
    <3> QED BY <3>2, <3>6, <3>8
  <2> QED BY <2>2, <2>3
<1> QED BY <1>2, <1>3 DEF SearchFindsAll, OneWireBus!SearchFindsAll

\* The calls of onewire_search find every device once, for every set of
\* addresses, and say which of them was the last (onewire.c).
THEOREM SearchesFindAll == PeripheralsSpec => []SearchFindsAll
<1>1. PeripheralsInit => OneWireInv
  BY OneWireInvInit DEF PeripheralsInit
<1>2. OneWireInv /\ [PeripheralsNext]_peripheralVars => OneWireInv'
  BY OneWireInvStep, StepsAreOfTheirComponent
<1> QED BY <1>1, <1>2, OneWireInvIsEnough, PTL DEF PeripheralsSpec

-----------------------------------------------------------------------------
(* the robot with April tags *)

N == numberOfAprilTagLocations
Cell == [name : Tags \cup {NoTag}, x : Int, count : Nat, visited : BOOLEAN]

\* Every tag found has a cell of its name; a cell was not visited yet.
Named(cells) ==
  \A i \in 1 .. numberOfTagsFound : \E j \in 1 .. N : cells[j].name = listOfTagsFound[i]
Unvisited(cells) == \A i \in 1 .. N : ~cells[i].visited

\* The orders of the cells that lose no tag.
Orders == {cells \in [1 .. N -> Cell] : Named(cells) /\ Unvisited(cells)}

RobotTypes ==
  /\ locations \in [1 .. N -> Cell] /\ backup_locations \in [1 .. N -> Cell]
  /\ listOfTagsFound \in [1 .. N -> Tags \cup {NoTag}]
  /\ numberOfTagsFound \in 0 .. N /\ randomSamples \in Nat /\ unseen \in Nat

\* Until the first sample the cells are in the order of the tags; from then on
\* there are as many tags as cells, and the order tried as well as the best one
\* have them all.  What was visited was hit.
CellsInv ==
  /\ randomSamples = 0 =>
       \A i \in 1 .. N : locations[i].name = listOfTagsFound[i]
  /\ randomSamples > 0 => numberOfTagsFound = N /\ Named(locations) /\ Named(backup_locations)
  /\ randomSamples > 0 <=> ~firstTime
  /\ randomSamples <= numberOfTrials => Unvisited(locations)
  /\ randomSamples \in 1 .. numberOfTrials => Unvisited(backup_locations)
  /\ \A i \in 1 .. N : locations[i].visited => locations[i].name \in hit
  /\ returned => TagRobot!EndsAfterEveryTag /\ randomSamples > 0

\* A motor that turns is one the program knows of.
MotorsInv ==
  motors # "still" => currentAction # "none" /\ ~waitForKeyPressToStart /\ randomSamples > numberOfTrials

RobotInv == RobotTypes /\ CellsInv /\ MotorsInv

\* The recursion of permuteAprilTagsList, a cell of it, has a solution.
ShuffledFrom(orders, i) == UNION {{TagRobot!Swapped(c, i, j) : j \in i .. N} : c \in orders}

LEMMA ShuffleIsDefined ==
  ASSUME NEW cells
  PROVE  \E f : f = [i \in 0 .. N |-> IF i = 0 THEN {cells} ELSE ShuffledFrom(f[i - 1], i)]
<1> DEFINE Solves(f, n) == f = [i \in 0 .. n |-> IF i = 0 THEN {cells} ELSE ShuffledFrom(f[i - 1], i)]
           Without == {n \in Nat : ~\E f : Solves(f, n)}
<1>1. Without = {}
  <2> SUFFICES ASSUME Without # {} PROVE FALSE
    OBVIOUS
  <2>1. Without \subseteq Nat
    OBVIOUS
  <2>2. PICK n \in Without : \A m \in Without : n <= m
    <3> HIDE DEF Without
    <3> QED BY <2>1, LeastExists
  <2>3. CASE n = 0
    <3>1. Solves([i \in 0 .. 0 |-> {cells}], 0)
      OBVIOUS
    <3> QED BY <2>3, <3>1
  <2>4. CASE n # 0
    <3>1. n - 1 \in Nat /\ n - 1 \notin Without /\ n \in Nat
      <4>1. n \in Nat
        BY <2>1
      <4> HIDE DEF Without
      <4> QED BY <2>2, <2>4, <4>1
    <3>2. PICK f : Solves(f, n - 1)
      BY <3>1
    <3> DEFINE g == [i \in 0 .. n |-> IF i = n THEN ShuffledFrom(f[n - 1], n) ELSE f[i]]
    <3>3. \A i \in 0 .. n - 1 : g[i] = f[i]
      BY <3>1
    <3>4. ASSUME NEW i \in 0 .. n
          PROVE  g[i] = IF i = 0 THEN {cells} ELSE ShuffledFrom(g[i - 1], i)
      <4>1. CASE i = n
        BY <2>4, <3>1, <3>3, <4>1
      <4>2. CASE i # n
        <5>1. i \in 0 .. n - 1 /\ (i # 0 => i - 1 \in 0 .. n - 1)
          BY <3>1, <4>2
        <5>2. f[i] = IF i = 0 THEN {cells} ELSE ShuffledFrom(f[i - 1], i)
          BY <3>2, <5>1
        <5>3. i # 0 => g[i - 1] = f[i - 1]
          BY <3>3, <5>1
        <5>4. g[i] = f[i]
          BY <3>3, <5>1
        <5> HIDE DEF g
        <5> QED BY <5>2, <5>3, <5>4
      <4> QED BY <4>1, <4>2
    <3>5. g = [i \in 0 .. n |-> g[i]]
      OBVIOUS
    <3>6. Solves(g, n)
      <4> HIDE DEF g
      <4> QED BY <3>4, <3>5
    <3> QED BY <3>6
  <2> QED BY <2>3, <2>4
<1>2. N \in Nat
  BY RobotAssumption DEF N
<1> QED BY <1>1, <1>2

\* A shuffle ends in an order that its exchanges do not leave.
LEMMA ShuffleStaysIn ==
  ASSUME NEW good, NEW cells \in good,
         \A c \in good : \A i \in 1 .. N : \A j \in i .. N : TagRobot!Swapped(c, i, j) \in good
  PROVE  TagRobot!permuteAprilTagsList(cells) \subseteq good
<1> DEFINE after == CHOOSE f : f = [i \in 0 .. N |-> IF i = 0 THEN {cells} ELSE ShuffledFrom(f[i - 1], i)]
<1>1. after = [i \in 0 .. N |-> IF i = 0 THEN {cells} ELSE ShuffledFrom(after[i - 1], i)]
  BY ShuffleIsDefined
<1>2. TagRobot!permuteAprilTagsList(cells) = after[N]
  BY DEF TagRobot!permuteAprilTagsList, ShuffledFrom, N
<1> HIDE DEF after
<1> DEFINE Left == {i \in 0 .. N : ~(after[i] \subseteq good)}
<1>3. N \in Nat
  BY RobotAssumption DEF N
<1>4. Left = {}
  <2> SUFFICES ASSUME Left # {} PROVE FALSE
    OBVIOUS
  <2>1. Left \subseteq Nat
    BY <1>3
  <2>2. PICK n \in Left : \A m \in Left : n <= m
    <3> HIDE DEF Left
    <3> QED BY <2>1, LeastExists
  <2>3. n \in 0 .. N /\ ~(after[n] \subseteq good)
    OBVIOUS
  <2>4. n # 0
    BY <1>1, <2>3
  <2>5. n - 1 \in 0 .. N /\ n - 1 \notin Left /\ n \in 1 .. N
    BY <1>3, <2>2, <2>3, <2>4
  <2>6. after[n - 1] \subseteq good
    BY <2>5
  <2>7. after[n] = ShuffledFrom(after[n - 1], n)
    BY <1>1, <2>3, <2>4
  <2>8. after[n] \subseteq good
    BY <2>5, <2>6, <2>7 DEF ShuffledFrom
  <2> QED BY <2>3, <2>8
<1> QED BY <1>2, <1>3, <1>4

LEMMA SwappedIsOrder ==
  ASSUME NEW c \in Orders, NEW i \in 1 .. N, NEW j \in i .. N
  PROVE  TagRobot!Swapped(c, i, j) \in Orders
<1>1. N \in Nat
  BY RobotAssumption DEF N
<1>2. j \in 1 .. N /\ c \in [1 .. N -> Cell] /\ Named(c) /\ Unvisited(c)
  BY <1>1 DEF Orders
<1> DEFINE s == TagRobot!Swapped(c, i, j)
<1>3. s = [c EXCEPT ![i] = c[j], ![j] = c[i]]
  BY DEF TagRobot!Swapped
<1>4. s \in [1 .. N -> Cell] /\ s[j] = c[i] /\ (i # j => s[i] = c[j])
      /\ \A k \in 1 .. N : k # i /\ k # j => s[k] = c[k]
  BY <1>2, <1>3
<1> HIDE DEF s
<1>5. Unvisited(s)
  BY <1>2, <1>4 DEF Unvisited
<1>6. \A k \in 1 .. N : \E l \in 1 .. N : s[l] = c[k]
  BY <1>2, <1>4
<1>7. Named(s)
  <2> SUFFICES ASSUME NEW t \in 1 .. numberOfTagsFound
               PROVE  \E l \in 1 .. N : s[l].name = listOfTagsFound[t]
    BY DEF Named
  <2>1. PICK k \in 1 .. N : c[k].name = listOfTagsFound[t]
    BY <1>2 DEF Named
  <2>2. PICK l \in 1 .. N : s[l] = c[k]
    BY <1>6
  <2> QED BY <2>1, <2>2
<1> QED BY <1>4, <1>5, <1>7 DEF Orders, s

LEMMA ShuffleLosesNoTag ==
  ASSUME NEW cells \in Orders
  PROVE  TagRobot!permuteAprilTagsList(cells) \subseteq Orders
BY ShuffleStaysIn, SwappedIsOrder

LEMMA RobotInvInit == TagRobot!Init => RobotInv
<1> SUFFICES ASSUME TagRobot!Init PROVE RobotInv
  OBVIOUS
<1>1. /\ locations = [i \in 1 .. N |-> [name |-> NoTag, x |-> 0, count |-> 0, visited |-> FALSE]]
      /\ backup_locations = locations
      /\ listOfTagsFound = [i \in 1 .. N |-> NoTag] /\ numberOfTagsFound = 0
      /\ randomSamples = 0 /\ motors = "still" /\ unseen = 0
  BY DEF TagRobot!Init, TagRobot!Cells, N
<1>2. firstTime /\ ~returned
  BY DEF TagRobot!Init
<1>3. N \in Nat /\ numberOfTrials \in Nat \ {0}
  BY RobotAssumption DEF N
<1>4. RobotTypes
  BY <1>1, <1>3 DEF RobotTypes, Cell
<1>5. CellsInv
  BY <1>1, <1>2, <1>3 DEF CellsInv, Unvisited
<1> QED BY <1>1, <1>4, <1>5 DEF RobotInv, MotorsInv

\* A reading leaves the name of a cell, and what is known of it.
LEMMA AveragedIs ==
  ASSUME NEW cell \in Cell, NEW x \in Int
  PROVE  LET e == TagRobot!Averaged(cell, x) IN
         e \in Cell /\ e.name = cell.name /\ e.visited = cell.visited
<1> DEFINE n == IF cell.count < AverageUpTo THEN cell.count + 1 ELSE cell.count
           y == IF n % AverageEvery = 1 /\ n < AverageUpTo THEN (cell.x * (n - 1) + x) \div n ELSE cell.x
<1>1. cell.count \in Nat /\ cell.x \in Int /\ AverageUpTo \in Nat
  BY RobotAssumption DEF Cell
<1>2. n \in Nat /\ (n < AverageUpTo => n \in Nat \ {0})
  BY <1>1
<1>3. y \in Int
  <2> HIDE DEF n
  <2>1. n \in Nat \ {0} => (cell.x * (n - 1) + x) \div n \in Int
    <3> SUFFICES ASSUME n \in Nat \ {0} PROVE (cell.x * (n - 1) + x) \div n \in Int
      OBVIOUS
    <3> DEFINE p == cell.x * (n - 1) + x
    <3>1. p \in Int
      BY <1>1
    <3> HIDE DEF p
    <3>2. p \div n \in Int
      BY <3>1
    <3> QED BY <3>2 DEF p
  <2> QED BY <1>1, <1>2, <2>1
<1>4. TagRobot!Averaged(cell, x) = [cell EXCEPT !.count = n, !.x = y]
  BY DEF TagRobot!Averaged, Cell
<1> HIDE DEF n, y
<1> QED BY <1>2, <1>3, <1>4 DEF Cell

LEMMA TagSeenKeepsCells ==
  ASSUME RobotTypes, CellsInv, NEW id \in Tags, NEW x \in Spots, TagRobot!TagSeen(id, x),
         UNCHANGED <<randomSamples, backup_locations, firstTime, hit, returned>>
  PROVE  RobotTypes' /\ CellsInv'
<1>1. N \in Nat /\ x \in Int
  BY RobotAssumption DEF N
<1>2. UNCHANGED unseen
  BY DEF TagRobot!TagSeen
\* The names, and what was visited, stay; so do the tags, but for a new one.
<1>3. ASSUME UNCHANGED <<listOfTagsFound, numberOfTagsFound>>, locations' \in [1 .. N -> Cell],
             \A i \in 1 .. N : /\ locations'[i].name = locations[i].name
                               /\ locations'[i].visited = locations[i].visited
      PROVE  RobotTypes' /\ CellsInv'
  <2>1. RobotTypes'
    BY <1>2, <1>3 DEF RobotTypes, N
  <2>2. Unvisited(locations) => Unvisited(locations')
    BY <1>3 DEF Unvisited
  <2>3. /\ Named(locations) => Named(locations)'
        /\ Named(backup_locations) => Named(backup_locations)'
    BY <1>3 DEF Named, N
  <2>4. TagRobot!EndsAfterEveryTag => TagRobot!EndsAfterEveryTag'
    BY <1>3 DEF TagRobot!EndsAfterEveryTag, TagRobot!Cells
  <2> QED BY <1>3, <2>1, <2>2, <2>3, <2>4 DEF CellsInv, N, Unvisited
<1>4. CASE TagRobot!tagAlreadyFound(id) # {}
  <2> DEFINE at == TagRobot!Min(TagRobot!tagAlreadyFound(id))
  <2>1. /\ locations' = [locations EXCEPT ![at] = TagRobot!Averaged(locations[at], x)]
        /\ UNCHANGED <<listOfTagsFound, numberOfTagsFound>>
    BY <1>4 DEF TagRobot!TagSeen
  <2> HIDE DEF at
  <2>2. ASSUME NEW i \in 1 .. N
        PROVE  /\ locations'[i] \in Cell
               /\ locations'[i].name = locations[i].name
               /\ locations'[i].visited = locations[i].visited
    <3>1. locations[i] \in Cell
      BY DEF RobotTypes
    <3>2. CASE i = at
      <4>1. locations'[i] = TagRobot!Averaged(locations[i], x)
        BY <2>1, <3>2 DEF RobotTypes
      <4> QED BY <1>1, <3>1, <4>1, AveragedIs
    <3>3. CASE i # at
      BY <2>1, <3>1, <3>3 DEF RobotTypes
    <3> QED BY <3>2, <3>3
  <2>3. locations' \in [1 .. N -> Cell]
    <3>1. locations' = [i \in 1 .. N |-> locations'[i]]
      BY <2>1 DEF RobotTypes
    <3> QED BY <2>2, <3>1
  <2> QED BY <1>3, <2>1, <2>2, <2>3
<1>5. CASE TagRobot!tagAlreadyFound(id) = {} /\ numberOfTagsFound >= N
  <2>1. UNCHANGED <<locations, listOfTagsFound, numberOfTagsFound>>
    BY <1>5 DEF TagRobot!TagSeen, TagRobot!tagVars, N
  <2> QED BY <1>3, <2>1 DEF RobotTypes
<1>6. CASE TagRobot!tagAlreadyFound(id) = {} /\ ~(numberOfTagsFound >= N)
  <2> DEFINE new == numberOfTagsFound + 1
  <2>1. /\ numberOfTagsFound' = new
        /\ locations' = [locations EXCEPT ![new] =
                           [TagRobot!Averaged(locations[new], x) EXCEPT !.name = id]]
        /\ listOfTagsFound' = [listOfTagsFound EXCEPT ![new] = id]
    BY <1>6 DEF TagRobot!TagSeen, N
  <2>2. new \in 1 .. N /\ randomSamples = 0 /\ ~returned
    <3>1. numberOfTagsFound \in 0 .. N /\ randomSamples \in Nat
      BY DEF RobotTypes
    <3>2. ~(randomSamples > 0)
      BY <1>1, <1>6, <3>1 DEF CellsInv
    <3> QED BY <1>1, <1>6, <3>1, <3>2 DEF CellsInv
  <2> HIDE DEF new
  <2>3. /\ locations'[new] \in Cell /\ locations'[new].name = id
        /\ locations'[new].visited = locations[new].visited
    <3>1. locations[new] \in Cell
      BY <2>2 DEF RobotTypes
    <3>2. TagRobot!Averaged(locations[new], x) \in Cell
          /\ TagRobot!Averaged(locations[new], x).visited = locations[new].visited
      BY <1>1, <3>1, AveragedIs
    <3>3. locations'[new] = [TagRobot!Averaged(locations[new], x) EXCEPT !.name = id]
      BY <2>1, <2>2 DEF RobotTypes
    <3> QED BY <3>2, <3>3 DEF Cell
  <2>4. \A i \in 1 .. N : i # new => locations'[i] = locations[i] /\ listOfTagsFound'[i] = listOfTagsFound[i]
    BY <2>1, <2>2 DEF RobotTypes
  <2>5. listOfTagsFound'[new] = id
    BY <2>1, <2>2 DEF RobotTypes
  <2>6. locations' \in [1 .. N -> Cell]
    <3>1. locations' = [i \in 1 .. N |-> locations'[i]]
      BY <2>1 DEF RobotTypes
    <3>2. \A i \in 1 .. N : locations'[i] \in Cell
      BY <2>3, <2>4 DEF RobotTypes
    <3> QED BY <3>1, <3>2
  <2>7. listOfTagsFound' \in [1 .. N -> Tags \cup {NoTag}]
    BY <2>1 DEF RobotTypes
  <2>8. RobotTypes'
    <3>1. numberOfTagsFound' \in 0 .. N
      BY <2>1, <2>2
    <3> QED BY <1>2, <2>6, <2>7, <3>1 DEF RobotTypes, N
  <2>9. \A i \in 1 .. N : locations'[i].visited = locations[i].visited
    BY <2>3, <2>4
  <2>10. Unvisited(locations)
    BY <2>2, RobotAssumption DEF CellsInv
  <2>11. Unvisited(locations')
    BY <2>9, <2>10 DEF Unvisited
  <2>12. \A i \in 1 .. N : locations'[i].name = listOfTagsFound'[i]
    BY <2>2, <2>3, <2>4, <2>5 DEF CellsInv
  <2> QED BY <2>2, <2>8, <2>11, <2>12, RobotAssumption DEF CellsInv, Unvisited, N
<1> QED BY <1>4, <1>5, <1>6

LEMMA PacketKeepsRobotInv ==
  ASSUME RobotInv, TagRobot!Packet
  PROVE  RobotInv'
<1>1. RobotTypes /\ CellsInv /\ MotorsInv
  BY DEF RobotInv
<1>2. UNCHANGED <<firstTime, waitForKeyPressToStart, backup_locations, randomSamples, currentAction,
                  motors, returned, hit>>
  BY DEF TagRobot!Packet, TagRobot!pathVars, TagRobot!driveVars
<1>3. MotorsInv'
  BY <1>1, <1>2 DEF MotorsInv
<1>4. PICK x \in Spots : \/ \E heading \in Headings : TagRobot!RobotSeen(x, heading)
                         \/ \E id \in Tags : TagRobot!TagSeen(id, x)
  BY DEF TagRobot!Packet, TagRobot!readCameraInfo
<1>5. ASSUME NEW heading \in Headings, TagRobot!RobotSeen(x, heading)
      PROVE  RobotTypes' /\ CellsInv'
  <2>1. /\ UNCHANGED <<locations, listOfTagsFound, numberOfTagsFound>>
        /\ unseen' = 0 \/ unseen' = unseen
    BY <1>5 DEF TagRobot!RobotSeen, TagRobot!tagVars
  <2>2. RobotTypes'
    BY <1>1, <1>2, <2>1 DEF RobotTypes, N
  <2>3. CellsInv'
    BY <1>1, <1>2, <2>1 DEF CellsInv, Named, Unvisited, TagRobot!EndsAfterEveryTag, TagRobot!Cells, N
  <2> QED BY <2>2, <2>3
<1>6. ASSUME NEW id \in Tags, TagRobot!TagSeen(id, x)
      PROVE  RobotTypes' /\ CellsInv'
  BY <1>1, <1>2, <1>6, TagSeenKeepsCells
<1> QED BY <1>3, <1>4, <1>5, <1>6 DEF RobotInv

\* A sample, with all tags found, keeps them all.
LEMMA SampleKeepsCells ==
  ASSUME RobotTypes, CellsInv, TagRobot!findLeastCostPath, randomSamples <= numberOfTrials,
         numberOfTagsFound = N, ~firstTime',
         UNCHANGED <<listOfTagsFound, numberOfTagsFound, unseen, hit, returned>>
  PROVE  RobotTypes' /\ CellsInv'
<1>1. N \in Nat /\ numberOfTrials \in Nat \ {0} /\ randomSamples \in Nat
  BY RobotAssumption DEF RobotTypes, N
<1>2. randomSamples' = randomSamples + 1 /\ randomSamples' \in Nat /\ randomSamples' > 0
  BY <1>1 DEF TagRobot!findLeastCostPath
<1>3. Unvisited(locations) /\ Named(locations) /\ locations \in Orders
  <2>1. Unvisited(locations)
    BY DEF CellsInv
  <2>2. Named(locations)
    BY <1>1 DEF CellsInv, Named
  <2> QED BY <2>1, <2>2 DEF Orders, RobotTypes
<1>4. randomSamples # 0 => backup_locations \in Orders
  <2> SUFFICES ASSUME randomSamples # 0 PROVE backup_locations \in Orders
    OBVIOUS
  <2>1. randomSamples > 0 /\ randomSamples \in 1 .. numberOfTrials
    BY <1>1
  <2> QED BY <2>1 DEF CellsInv, Orders, RobotTypes
<1>5. locations' \in Orders /\ backup_locations' \in Orders
  <2>1. CASE TagRobot!FirstSample
    BY <1>3, <2>1 DEF TagRobot!FirstSample
  <2>2. CASE TagRobot!LastSample
    BY <1>1, <1>4, <2>2 DEF TagRobot!LastSample
  <2>3. CASE TagRobot!Sample
    <3>1. /\ randomSamples \in 1 .. numberOfTrials - 1
          /\ locations' \in TagRobot!permuteAprilTagsList(locations)
          /\ backup_locations' \in {locations', backup_locations}
      BY <2>3 DEF TagRobot!Sample
    <3>2. locations' \in Orders
      BY <1>3, <3>1, ShuffleLosesNoTag
    <3>3. backup_locations \in Orders
      BY <1>1, <1>4, <3>1
    <3> QED BY <3>1, <3>2, <3>3
  <2> QED BY <2>1, <2>2, <2>3 DEF TagRobot!findLeastCostPath
<1>6. /\ locations' \in [1 .. N -> Cell] /\ backup_locations' \in [1 .. N -> Cell]
      /\ Named(locations)' /\ Named(backup_locations)'
      /\ Unvisited(locations)' /\ Unvisited(backup_locations)'
  BY <1>5 DEF Orders, Named, Unvisited, N
<1>7. RobotTypes'
  BY <1>2, <1>6 DEF RobotTypes, N
<1>8. returned' => TagRobot!EndsAfterEveryTag'
  BY DEF CellsInv, TagRobot!EndsAfterEveryTag, TagRobot!Cells
<1>9. CellsInv'
  <2>1. \A i \in 1 .. N : locations'[i].visited => locations'[i].name \in hit'
    BY <1>6 DEF Unvisited
  <2>2. numberOfTagsFound' = N'
    BY DEF N
  <2> QED BY <1>2, <1>6, <1>8, <2>1, <2>2 DEF CellsInv, N
<1> QED BY <1>7, <1>9

LEMMA LocatedKeepsRobotInv ==
  ASSUME RobotInv, TagRobot!Located
  PROVE  RobotInv'
<1>1. RobotTypes /\ CellsInv /\ MotorsInv
  BY DEF RobotInv
<1>2. UNCHANGED <<listOfTagsFound, numberOfTagsFound, waitForKeyPressToStart, unseen, currentAction,
                  motors, returned, hit>>
  BY DEF TagRobot!Located, TagRobot!driveVars
<1>3. CASE UNCHANGED <<firstTime, locations, backup_locations, randomSamples>>
  <2>1. RobotTypes'
    BY <1>1, <1>2, <1>3 DEF RobotTypes, N
  <2>2. CellsInv'
    BY <1>1, <1>2, <1>3 DEF CellsInv, Named, Unvisited, TagRobot!EndsAfterEveryTag, TagRobot!Cells, N
  <2>3. MotorsInv'
    BY <1>1, <1>2, <1>3 DEF MotorsInv
  <2> QED BY <2>1, <2>2, <2>3 DEF RobotInv
<1>4. CASE ~(numberOfTagsFound < N) /\ firstTime /\ ~firstTime' /\ TagRobot!findLeastCostPath
  <2>1. randomSamples = 0 /\ randomSamples <= numberOfTrials /\ numberOfTagsFound = N
        /\ numberOfTrials \in Nat
    <3>1. /\ randomSamples \in Nat /\ numberOfTagsFound \in 0 .. N /\ N \in Nat
          /\ numberOfTrials \in Nat \ {0}
      BY <1>1, RobotAssumption DEF RobotTypes, N
    <3>2. ~(randomSamples > 0)
      BY <1>1, <1>4 DEF CellsInv
    <3> QED BY <1>4, <3>1, <3>2
  <2>2. RobotTypes' /\ CellsInv'
    BY <1>1, <1>2, <1>4, <2>1, SampleKeepsCells
  <2>3. MotorsInv'
    <3>1. ~(randomSamples > numberOfTrials)
      BY <2>1
    <3>2. motors = "still"
      BY <1>1, <3>1 DEF MotorsInv
    <3> QED BY <1>2, <3>2 DEF MotorsInv
  <2> QED BY <2>2, <2>3 DEF RobotInv
<1> QED BY <1>3, <1>4 DEF TagRobot!Located, TagRobot!pathVars, N

LEMMA CheckActionKeepsRobotInv ==
  ASSUME RobotInv, TagRobot!checkAction, ~waitForKeyPressToStart, randomSamples > numberOfTrials,
         UNCHANGED <<listOfTagsFound, numberOfTagsFound, firstTime, waitForKeyPressToStart,
                     backup_locations, randomSamples, unseen>>
  PROVE  RobotInv'
<1>1. RobotTypes /\ CellsInv /\ MotorsInv
  BY DEF RobotInv
<1>2. /\ numberOfTrials \in Nat \ {0} /\ randomSamples > 0 /\ N \in Nat
      /\ ~(randomSamples <= numberOfTrials) /\ randomSamples \notin 1 .. numberOfTrials
      /\ randomSamples # 0
  BY <1>1, RobotAssumption DEF RobotTypes, N
<1> DEFINE ahead == {i \in TagRobot!Cells : ~locations[i].visited
                                             /\ ~TagRobot!closeEnoughToAprilTag(locations[i])}
           target == IF ahead = {} THEN N + 1 ELSE TagRobot!Min(ahead)
           reached == {i \in TagRobot!Cells : i < target /\ ~locations[i].visited}
           action == IF reached = {} THEN currentAction ELSE "none"
<1>3. /\ locations' = [i \in 1 .. N |->
                         IF i < target THEN [locations[i] EXCEPT !.visited = TRUE] ELSE locations[i]]
      /\ hit' = hit \cup {locations[i].name : i \in reached}
      /\ IF ahead = {} THEN TagRobot!stop /\ currentAction' = action
         ELSE TagRobot!moveTowardAprilTag(locations[target], action) /\ UNCHANGED returned
  BY DEF TagRobot!checkAction, N, TagRobot!Cells
<1>4. reached = {i \in 1 .. N : i < target /\ ~locations[i].visited}
  BY DEF TagRobot!Cells, N
<1>5. ahead = {} => \A i \in 1 .. N : i < target
  BY <1>2
<1> HIDE DEF ahead, target, reached, action
<1>6. ASSUME NEW i \in 1 .. N
      PROVE  /\ locations'[i] \in Cell /\ locations'[i].name = locations[i].name
             /\ locations'[i].visited <=> locations[i].visited \/ i \in reached
             /\ i < target => locations'[i].visited
  <2>1. locations[i] \in Cell
    BY <1>1 DEF RobotTypes
  <2>2. CASE i < target
    <3>1. locations'[i] = [locations[i] EXCEPT !.visited = TRUE]
      BY <1>3, <2>2
    <3>2. locations'[i] \in Cell /\ locations'[i].name = locations[i].name /\ locations'[i].visited
      BY <2>1, <3>1 DEF Cell
    <3> QED BY <1>4, <2>2, <3>2
  <2>3. CASE ~(i < target)
    BY <1>3, <1>4, <2>1, <2>3
  <2> QED BY <2>2, <2>3
<1>7. RobotTypes'
  <2>1. locations' \in [1 .. N -> Cell]
    BY <1>3, <1>6
  <2> QED BY <1>1, <2>1 DEF RobotTypes, N
<1>8. \A i \in 1 .. N : locations'[i].visited => locations'[i].name \in hit'
  BY <1>1, <1>3, <1>6 DEF CellsInv
<1>9. Named(locations)' /\ Named(backup_locations)' /\ numberOfTagsFound = N
  <2>1. Named(locations) /\ Named(backup_locations) /\ numberOfTagsFound = N
    BY <1>1, <1>2 DEF CellsInv
  <2>2. Named(locations)'
    <3> SUFFICES ASSUME NEW t \in 1 .. numberOfTagsFound
                 PROVE  \E l \in 1 .. N : locations'[l].name = listOfTagsFound[t]
      BY DEF Named, N
    <3>1. PICK l \in 1 .. N : locations[l].name = listOfTagsFound[t]
      BY <2>1 DEF Named
    <3> QED BY <1>6, <3>1
  <2> QED BY <2>1, <2>2 DEF Named, N
<1>10. returned' => TagRobot!EndsAfterEveryTag'
  <2>1. CASE ahead = {}
    <3>1. ASSUME NEW t \in 1 .. N
          PROVE  listOfTagsFound[t] \in hit'
      <4>1. PICK l \in 1 .. N : locations'[l].name = listOfTagsFound[t]
        BY <1>9, <3>1 DEF Named, N
      <4>2. locations'[l].visited
        BY <1>5, <1>6, <2>1
      <4> QED BY <1>8, <4>1, <4>2
    <3> QED BY <1>9, <3>1 DEF TagRobot!EndsAfterEveryTag, TagRobot!Cells, N
  <2>2. CASE ahead # {}
    <3>1. UNCHANGED returned
      BY <1>3, <2>2
    <3>2. hit \subseteq hit'
      BY <1>3
    <3> QED BY <1>1, <3>1, <3>2 DEF CellsInv, TagRobot!EndsAfterEveryTag, TagRobot!Cells
  <2> QED BY <2>1, <2>2
<1>11. CellsInv'
  BY <1>1, <1>2, <1>8, <1>9, <1>10 DEF CellsInv, N
<1>12. MotorsInv'
  <2>1. motors' = "still" \/ currentAction' # "none"
    <3>1. CASE ahead = {}
      BY <1>3, <3>1 DEF TagRobot!stop, TagRobot!brake
    <3>2. CASE ahead # {}
      BY <1>3, <3>2 DEF TagRobot!moveTowardAprilTag, TagRobot!moveForward, TagRobot!turnTowardTag,
         TagRobot!goForward, TagRobot!turnLeft, TagRobot!turnRight
    <3> QED BY <3>1, <3>2
  <2> QED BY <2>1 DEF MotorsInv
<1> QED BY <1>7, <1>11, <1>12 DEF RobotInv

LEMMA ActKeepsRobotInv ==
  ASSUME RobotInv, TagRobot!Act
  PROVE  /\ RobotInv'
         /\ unseen > TooLong => motors' = "still"
<1>1. RobotTypes /\ CellsInv /\ MotorsInv
  BY DEF RobotInv
<1>2. UNCHANGED <<listOfTagsFound, numberOfTagsFound, firstTime, waitForKeyPressToStart, unseen>>
  BY DEF TagRobot!Act
<1>3. randomSamples \in Nat /\ numberOfTrials \in Nat /\ unseen \in Nat /\ TooLong \in Nat
  BY <1>1, RobotAssumption DEF RobotTypes
\* Before the path is found, and while a key is waited for, the motors are still.
<1>4. waitForKeyPressToStart \/ randomSamples <= numberOfTrials => motors = "still"
  BY <1>1, <1>3 DEF MotorsInv
<1>5. CASE /\ waitForKeyPressToStart \/ (randomSamples <= numberOfTrials /\ firstTime)
           /\ UNCHANGED <<locations, TagRobot!pathVars, TagRobot!driveVars>>
  <2>1. UNCHANGED <<locations, backup_locations, randomSamples, currentAction, motors, returned, hit>>
    BY <1>5 DEF TagRobot!pathVars, TagRobot!driveVars
  <2>2. RobotTypes'
    BY <1>1, <1>2, <2>1 DEF RobotTypes, N
  <2>3. CellsInv'
    BY <1>1, <1>2, <2>1 DEF CellsInv, Named, Unvisited, TagRobot!EndsAfterEveryTag, TagRobot!Cells, N
  <2> QED BY <1>4, <1>5, <2>1, <2>2, <2>3 DEF RobotInv, MotorsInv
<1>6. CASE /\ ~waitForKeyPressToStart /\ randomSamples <= numberOfTrials /\ ~firstTime
           /\ TagRobot!findLeastCostPath /\ UNCHANGED TagRobot!driveVars
  <2>1. UNCHANGED <<currentAction, motors, returned, hit>>
    BY <1>6 DEF TagRobot!driveVars
  <2>2. numberOfTagsFound = N
    BY <1>1, <1>6 DEF CellsInv
  <2>3. RobotTypes' /\ CellsInv'
    BY <1>1, <1>2, <1>6, <2>1, <2>2, SampleKeepsCells
  <2> QED BY <1>4, <1>6, <2>1, <2>3 DEF RobotInv, MotorsInv
<1>7. ASSUME ~waitForKeyPressToStart, randomSamples > numberOfTrials,
             UNCHANGED TagRobot!pathVars,
             IF currentAction # "none" /\ unseen > TooLong
             THEN /\ currentAction' = "none" /\ TagRobot!brake
                  /\ UNCHANGED <<power, returned, hit, locations>>
             ELSE IF unseen < TooLong THEN TagRobot!checkAction
             ELSE UNCHANGED <<TagRobot!driveVars, locations>>
      PROVE  RobotInv' /\ (unseen > TooLong => motors' = "still")
  <2>1. UNCHANGED <<backup_locations, randomSamples>>
    BY <1>7 DEF TagRobot!pathVars
  <2>2. CASE unseen < TooLong
    <3>1. TagRobot!checkAction /\ ~(unseen > TooLong)
      BY <1>3, <1>7, <2>2
    <3> QED BY <1>2, <1>7, <2>1, <3>1, CheckActionKeepsRobotInv
  <2>3. CASE ~(unseen < TooLong)
    <3>1. /\ UNCHANGED <<locations, returned, hit>>
          /\ \/ currentAction # "none" /\ motors' = "still"
             \/ UNCHANGED <<currentAction, motors>> /\ ~(currentAction # "none" /\ unseen > TooLong)
      BY <1>3, <1>7, <2>3 DEF TagRobot!brake, TagRobot!driveVars
    <3>2. RobotTypes'
      BY <1>1, <1>2, <2>1, <3>1 DEF RobotTypes, N
    <3>3. CellsInv'
      BY <1>1, <1>2, <2>1, <3>1
         DEF CellsInv, Named, Unvisited, TagRobot!EndsAfterEveryTag, TagRobot!Cells, N
    <3>4. MotorsInv' /\ (unseen > TooLong => motors' = "still")
      BY <1>1, <1>2, <2>1, <3>1 DEF MotorsInv
    <3> QED BY <3>2, <3>3, <3>4 DEF RobotInv
  <2> QED BY <2>2, <2>3
<1> QED BY <1>5, <1>6, <1>7 DEF TagRobot!Act

LEMMA RobotInvStep ==
  ASSUME RobotInv, [TagRobot!Next]_(TagRobot!vars)
  PROVE  RobotInv'
<1>1. RobotTypes /\ CellsInv /\ MotorsInv
  BY DEF RobotInv
<1>2. CASE TagRobot!Read
  <2>1. UNCHANGED <<locations, listOfTagsFound, numberOfTagsFound, firstTime, backup_locations,
                    randomSamples, currentAction, motors, returned, hit, unseen>>
    BY <1>2 DEF TagRobot!Read, TagRobot!tagVars, TagRobot!pathVars, TagRobot!driveVars
  <2>2. waitForKeyPressToStart' = waitForKeyPressToStart \/ waitForKeyPressToStart
    BY <1>2 DEF TagRobot!Read, TagRobot!ReadByte
  <2>3. RobotTypes'
    BY <1>1, <2>1 DEF RobotTypes, N
  <2>4. CellsInv'
    BY <1>1, <2>1 DEF CellsInv, Named, Unvisited, TagRobot!EndsAfterEveryTag, TagRobot!Cells, N
  <2>5. MotorsInv'
    BY <1>1, <2>1, <2>2 DEF MotorsInv
  <2> QED BY <2>3, <2>4, <2>5 DEF RobotInv
<1>3. CASE TagRobot!Packet
  BY <1>3, PacketKeepsRobotInv
<1>4. CASE TagRobot!Located
  BY <1>4, LocatedKeepsRobotInv
<1>5. CASE TagRobot!Act
  BY <1>5, ActKeepsRobotInv
<1>6. CASE TagRobot!updateMode \/ TagRobot!Tick \/ UNCHANGED TagRobot!vars
  <2>1. UNCHANGED <<locations, listOfTagsFound, numberOfTagsFound, firstTime, backup_locations,
                    randomSamples, currentAction, motors, returned, hit, waitForKeyPressToStart>>
    BY <1>6 DEF TagRobot!updateMode, TagRobot!Tick, TagRobot!vars, TagRobot!tagVars,
       TagRobot!pathVars, TagRobot!driveVars
  <2>2. unseen' \in Nat
    BY <1>1, <1>6 DEF RobotTypes, TagRobot!updateMode, TagRobot!Tick, TagRobot!vars
  <2>3. RobotTypes'
    BY <1>1, <2>1, <2>2 DEF RobotTypes, N
  <2>4. CellsInv'
    BY <1>1, <2>1 DEF CellsInv, Named, Unvisited, TagRobot!EndsAfterEveryTag, TagRobot!Cells, N
  <2>5. MotorsInv'
    BY <1>1, <2>1 DEF MotorsInv
  <2> QED BY <2>3, <2>4, <2>5 DEF RobotInv
<1> QED BY <1>2, <1>3, <1>4, <1>5, <1>6 DEF TagRobot!Next

LEMMA UnseenRobotIsStopped ==
  ASSUME RobotInv, [TagRobot!Next]_(TagRobot!vars), robotPc = "act", robotPc' = "read",
         unseen > TooLong
  PROVE  motors' = "still"
<1>1. CASE TagRobot!Act
  BY <1>1, ActKeepsRobotInv
<1>2. ~TagRobot!Read /\ ~TagRobot!Packet /\ ~TagRobot!Located /\ ~TagRobot!updateMode /\ ~TagRobot!Tick
  BY DEF TagRobot!Read, TagRobot!Packet, TagRobot!Located, TagRobot!updateMode, TagRobot!Tick
<1>3. ~UNCHANGED TagRobot!vars
  BY DEF TagRobot!vars
<1> QED BY <1>1, <1>2, <1>3 DEF TagRobot!Next

LEMMA RobotInvIsEnough == RobotInv => EndsAfterEveryTag
<1> SUFFICES ASSUME RobotInv PROVE EndsAfterEveryTag
  OBVIOUS
<1>1. CellsInv
  BY DEF RobotInv
<1> QED BY <1>1 DEF CellsInv, EndsAfterEveryTag, TagRobot!EndsAfterEveryTag

\* The program of the robot ends only when every tag found was hit, in
\* whatever order a shuffle left them (jwsRunRobot, permuteAprilTagsList).
THEOREM RobotHitsEveryTag == PeripheralsSpec => []EndsAfterEveryTag
<1>1. PeripheralsInit => RobotInv
  BY RobotInvInit DEF PeripheralsInit
<1>2. RobotInv /\ [PeripheralsNext]_peripheralVars => RobotInv'
  BY RobotInvStep, StepsAreOfTheirComponent
<1> QED BY <1>1, <1>2, RobotInvIsEnough, PTL DEF PeripheralsSpec

\* No pulse of a servo is cut, no servo passes its target or exceeds its speed,
\* and a robot that is out of sight for too long stands still (servo.c,
\* checkAction).
THEOREM StepsStaySafe == PeripheralsSpec => StepsAreSafe
<1>1. PeripheralsInit => ServoInv /\ RobotInv
  BY ServoInvInit, RobotInvInit DEF PeripheralsInit
<1>2. ServoInv /\ RobotInv /\ [PeripheralsNext]_peripheralVars => (ServoInv /\ RobotInv)'
  BY ServoInvStep, RobotInvStep, StepsAreOfTheirComponent
<1>3. ServoInv /\ [PeripheralsNext]_peripheralVars =>
        [(SEL \ SEL' # {} \/ T1CFG' # T1CFG) => early]_(Servos!vars)
  BY PulsesAreNotCut, StepsAreOfTheirComponent
<1>4. RobotInv /\ [PeripheralsNext]_peripheralVars =>
        [robotPc = "act" /\ robotPc' = "read" /\ unseen > TooLong => motors' = "still"]_(TagRobot!vars)
  BY UnseenRobotIsStopped, StepsAreOfTheirComponent
<1>5. ServoInv /\ [PeripheralsNext]_peripheralVars =>
        [Servos!ISR_T1 => \A c \in Servos!Channels :
           Servos!Approaches(servoData[c], servoData'[c].position)]_(Servos!vars)
  BY InterruptApproaches
<1> QED BY <1>1, <1>2, <1>3, <1>4, <1>5, PTL
        DEF PeripheralsSpec, StepsAreSafe, Servos!PulsesAreWhole, Servos!NeverPastTarget,
            TagRobot!UnseenRobotStops
=============================================================================

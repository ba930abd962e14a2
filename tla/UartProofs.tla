----------------------------- MODULE UartProofs -----------------------------
(***************************************************************************)
(* Proofs about Uart, for rings of every size above 1 and any number of    *)
(* bytes: type correctness, no lost TX interrupt, and the order of the     *)
(* bytes on the wire and in the program.                                   *)
(***************************************************************************)
EXTENDS Uart, RingProofs

USE SizeAssumption, BoundAssumption DEF LineErrors, NoByte, NextIndex

(* Rings of the tx and the rx direction: an index in the ring has its      *)
(* successor in the ring. *)
LEMMA IndicesInRing ==
  ASSUME TypeOK
  PROVE  /\ NextIndex(txMainLoopIndex) \in 0 .. SIZE - 1
         /\ NextIndex(txInterruptIndex) \in 0 .. SIZE - 1
         /\ NextIndex(rxMainLoopIndex) \in 0 .. SIZE - 1
         /\ NextIndex(rxInterruptIndex) \in 0 .. SIZE - 1
BY SuccInRing DEF TypeOK

LEMMA TypeInit == Init => TypeOK
<1> SUFFICES ASSUME Init PROVE TypeOK
  OBVIOUS
<1>1. 0 \in 0 .. SIZE - 1
  OBVIOUS
<1>2. [i \in 0 .. SIZE - 1 |-> 0] \in [0 .. SIZE - 1 -> Nat]
  OBVIOUS
<1> QED
  BY <1>1, <1>2 DEF Init, TypeOK

LEMMA TypeStep == TypeOK /\ [Next]_vars => TypeOK'
<1> SUFFICES ASSUME TypeOK, [Next]_vars PROVE TypeOK'
  OBVIOUS
<1>1. CASE TxStore
  BY <1>1 DEF TxStore, TypeOK, rxVars
<1>2. CASE TxAdvance
  BY <1>2, IndicesInRing DEF TxAdvance, TypeOK, rxVars
<1>3. CASE TxEnable
  BY <1>3 DEF TxEnable, TypeOK, rxVars
<1>4. CASE RxRead
  BY <1>4 DEF RxRead, TypeOK, txVars
<1>5. CASE RxAdvance
  BY <1>5, IndicesInRing DEF RxAdvance, TypeOK, txVars
<1>6. CASE IsrUtxIdle
  BY <1>6 DEF IsrUtxIdle, TypeOK, rxVars
<1>7. CASE IsrUtxClear
  BY <1>7 DEF IsrUtxClear, TypeOK, rxVars
<1>8. CASE IsrUtxWrite
  BY <1>8, IndicesInRing DEF IsrUtxWrite, TypeOK, rxVars
<1>9. CASE IsrUrxStore
  BY <1>9, IndicesInRing DEF IsrUrxStore, TypeOK, txVars
<1>10. CASE IsrUrxDiscard
  BY <1>10 DEF IsrUrxDiscard, TypeOK, txVars
<1>11. CASE Load
  BY <1>11 DEF Load, TypeOK, rxVars
<1>12. CASE ShiftOut
  BY <1>12 DEF ShiftOut, TypeOK, rxVars
<1>13. CASE Arrive
  BY <1>13 DEF Arrive, TypeOK, txVars
<1>14. CASE UNCHANGED vars
  BY <1>14 DEF vars, txVars, rxVars, TypeOK
<1> QED
  BY <1>1, <1>2, <1>3, <1>4, <1>5, <1>6, <1>7, <1>8, <1>9, <1>10, <1>11,
     <1>12, <1>13, <1>14 DEF Next, MainLoop, IsrUtx, IsrUrx

(* The indices stay inside the rings (uart.c masks them) and every         *)
(* variable keeps its type.                                                *)
THEOREM TypeCorrect == Spec => []TypeOK
BY TypeInit, TypeStep, PTL DEF Spec

------------------------------------------------------------------------------
(* The TX direction *)

(* TxInv reads only these variables, and of pc only whether a byte is stored *)
(* and not yet counted.                                                     *)
LEMMA TxFrame ==
  ASSUME TxInv, UNCHANGED txVars, UNCHANGED isr,
         pc' = "txAdvance" <=> pc = "txAdvance"
  PROVE  TxInv'
BY DEF TxInv, txVars, TxAvailable, TxQueued, Taken, Stored, OnWire, InRegister

LEMMA TxInit == Init => TxInv
BY DEF Init, TxInv, TxAvailable, TxQueued, Taken, Stored, OnWire, InRegister,
       Ahead

(* The ring as seen from the next read index. *)
LEMMA TxRing ==
  ASSUME TypeOK
  PROVE  /\ TxQueued \in 0 .. SIZE - 1
         /\ TxQueued = 0 <=> txInterruptIndex = txMainLoopIndex
         /\ TxAvailable = SIZE - 1 - TxQueued
         /\ Stored \in Int /\ Taken = Stored - TxQueued
         /\ \A i \in 0 .. SIZE - 1 :
              Ahead(SIZE, txInterruptIndex, i) \in 0 .. SIZE - 1
<1>1. txInterruptIndex \in 0 .. SIZE - 1 /\ txMainLoopIndex \in 0 .. SIZE - 1
  BY DEF TypeOK
<1>2. \A i \in 0 .. SIZE - 1 :
        Ahead(SIZE, txInterruptIndex, i) \in 0 .. SIZE - 1
  BY <1>1, AheadInRing
<1>3. TxQueued = 0 <=> txInterruptIndex = txMainLoopIndex
  BY <1>1, AheadInRing DEF TxQueued
<1>4. Stored \in Int
  BY DEF Stored, TypeOK
<1> QED
  BY <1>1, <1>2, <1>3, <1>4 DEF TxQueued, TxAvailable, Taken

LEMMA TxStep == TypeOK /\ TypeOK' /\ TxInv /\ [Next]_vars => TxInv'
<1> SUFFICES ASSUME TypeOK, TypeOK', TxInv, [Next]_vars PROVE TxInv'
  OBVIOUS
<1>t. /\ txMainLoopIndex \in 0 .. SIZE - 1 /\ txInterruptIndex \in 0 .. SIZE - 1
      /\ nTx \in Nat /\ sent \in Nat /\ txData \in Nat /\ shifter \in Nat
  BY DEF TypeOK
<1>q. /\ sent + OnWire + InRegister = Taken
      /\ OnWire \in {0, 1} /\ InRegister \in {0, 1} /\ Taken \in Int
  BY <1>t, TxRing DEF TxInv, OnWire, InRegister
<1>1. CASE TxStore
  <2>1. txBuffer'[txMainLoopIndex] = nTx + 1
    BY <1>1 DEF TxStore, TypeOK
  <2>2. \A i \in 0 .. SIZE - 1 :
          Ahead(SIZE, txInterruptIndex, i) < TxQueued =>
            txBuffer'[i] = txBuffer[i]
    <3> SUFFICES ASSUME NEW i \in 0 .. SIZE - 1,
                        Ahead(SIZE, txInterruptIndex, i) < TxQueued
                 PROVE  i # txMainLoopIndex
      BY <1>1 DEF TxStore, TypeOK
    <3> QED
      BY TxRing DEF TxQueued
  <2>3. Stored' = Stored /\ TxQueued' = TxQueued /\ Taken' = Taken
    BY <1>1 DEF TxStore, Stored, TxQueued, Taken, TypeOK
  <2>4. pc = "idle" /\ TxAvailable' # 0
    BY <1>1 DEF TxStore, TxAvailable
  <2> QED
    BY <1>1, <2>1, <2>2, <2>3, <2>4 DEF TxStore, TxInv, OnWire, InRegister
<1>2. CASE TxAdvance
  <2>1. TxQueued # SIZE - 1
    BY <1>2, TxRing DEF TxInv, TxAdvance
  <2>2. TxQueued' = TxQueued + 1 /\ Stored' = Stored + 1 /\ Taken' = Taken
    <3>1. TxQueued' = TxQueued + 1
      BY <1>2, <1>t, <2>1, AheadPush DEF TxAdvance, TxQueued
    <3>2. Stored' = Stored + 1
      BY <1>2, <1>t DEF TxAdvance, Stored
    <3> QED
      BY <3>1, <3>2, TxRing DEF Taken
  <2>3. ASSUME NEW i \in 0 .. SIZE - 1,
               Ahead(SIZE, txInterruptIndex, i) < TxQueued + 1
        PROVE  txBuffer[i] = Taken + 1 + Ahead(SIZE, txInterruptIndex, i)
    <3>1. CASE Ahead(SIZE, txInterruptIndex, i) < TxQueued
      BY <3>1 DEF TxInv
    <3>2. CASE Ahead(SIZE, txInterruptIndex, i) = TxQueued
      <4>1. i = txMainLoopIndex
        BY <3>2, AheadInjective DEF TxQueued, TypeOK
      <4>2. txBuffer[i] = Stored + 1
        BY <1>2, <4>1 DEF TxInv, TxAdvance, Stored, TypeOK
      <4> QED
        BY <3>2, <4>2, TxRing
    <3> QED
      BY <2>3, <3>1, <3>2, TxRing
  <2>4. isr = "idle" /\ isr' = "idle" /\ pc' # "txAdvance"
    BY <1>2 DEF TxAdvance
  <2> QED
    BY <1>2, <2>2, <2>3, <2>4 DEF TxAdvance, TxInv, OnWire, InRegister
<1>3. CASE TxEnable
  BY <1>3 DEF TxEnable, TxInv, TxAvailable, TxQueued, Taken, Stored, OnWire,
              InRegister
<1>4. CASE RxRead \/ RxAdvance \/ IsrUrx \/ Arrive \/ UNCHANGED vars
  BY <1>4, TxFrame DEF RxRead, RxAdvance, IsrUrx, IsrUrxStore, IsrUrxDiscard,
                       Arrive, vars
<1>5. CASE IsrUtxIdle
  BY <1>5 DEF IsrUtxIdle, TxInv, TxAvailable, TxQueued, Taken, Stored, OnWire,
              InRegister
<1>6. CASE IsrUtxClear
  BY <1>6 DEF IsrUtxClear, TxInv, TxAvailable, TxQueued, Taken, Stored, OnWire,
              InRegister
<1>7. CASE IsrUtxWrite
  <2>1. txInterruptIndex # txMainLoopIndex /\ txData = NoByte /\ ~txFlag
    BY <1>7 DEF IsrUtxWrite, TxInv
  <2>2. TxQueued' = TxQueued - 1 /\ Stored' = Stored /\ Taken' = Taken + 1
    <3>1. TxQueued' = TxQueued - 1
      BY <1>7, <1>t, <2>1, AheadPop DEF IsrUtxWrite, TxQueued
    <3>2. Stored' = Stored
      BY <1>7 DEF IsrUtxWrite, Stored
    <3> QED
      BY <3>1, <3>2, TxRing DEF Taken
  <2>3. txData' = Taken + 1
    <3>1. Ahead(SIZE, txInterruptIndex, txInterruptIndex) = 0
      BY <1>t DEF Ahead
    <3>2. 0 < TxQueued
      BY <2>1, TxRing
    <3>3. txBuffer[txInterruptIndex] = Taken + 1 + 0
      BY <1>t, <3>1, <3>2 DEF TxInv
    <3> QED
      BY <1>7, <1>q, <3>3 DEF IsrUtxWrite
  <2>4. ASSUME NEW i \in 0 .. SIZE - 1,
               Ahead(SIZE, NextIndex(txInterruptIndex), i) < TxQueued - 1
        PROVE  txBuffer[i] =
                 Taken + 1 + 1 + Ahead(SIZE, NextIndex(txInterruptIndex), i)
    <3>1. i # txInterruptIndex
      <4>1. SUFFICES ASSUME i = txInterruptIndex PROVE FALSE
        OBVIOUS
      <4>2. Ahead(SIZE, NextIndex(txInterruptIndex), i) = SIZE - 1
        BY <1>t, <4>1, AheadPop
      <4> QED
        BY <2>4, <4>2, TxRing
    <3>2. Ahead(SIZE, NextIndex(txInterruptIndex), i)
            = Ahead(SIZE, txInterruptIndex, i) - 1
      BY <1>t, <3>1, AheadPop
    <3>3. Ahead(SIZE, txInterruptIndex, i) \in 0 .. SIZE - 1
      BY TxRing
    <3>4. txBuffer[i] = Taken + 1 + Ahead(SIZE, txInterruptIndex, i)
      BY <2>4, <3>2, <3>3, TxRing DEF TxInv
    <3> QED
      BY <1>q, <3>2, <3>3, <3>4
  <2>5. OnWire' = OnWire /\ InRegister = 0 /\ InRegister' = 1
    <3>1. InRegister = 0
      BY <2>1 DEF InRegister
    <3>2. Taken + 1 # 0
      BY <1>t, <1>q
    <3> QED
      BY <1>7, <2>3, <3>1, <3>2 DEF IsrUtxWrite, OnWire, InRegister
  <2>6. pc = "txAdvance" => TxAvailable' # 0
    <3>1. TxAvailable' = SIZE - 1 - TxQueued'
      BY DEF TxAvailable, TxQueued
    <3> QED
      BY <2>1, <2>2, <3>1, TxRing
  <2>7. isr' = "idle" /\ txFlag' = FALSE
    BY <1>7, <2>1 DEF IsrUtxWrite, TypeOK
  <2>8. sent + OnWire' + InRegister' = Taken'
    BY <1>t, <1>q, <2>2, <2>5
  <2>9. /\ UNCHANGED <<pc, txBuffer, txMainLoopIndex, shifter, nTx, sent>>
        /\ txInterruptIndex' = NextIndex(txInterruptIndex)
    BY <1>7 DEF IsrUtxWrite
  <2>10. txData' # NoByte
    BY <1>t, <1>q, <2>3
  <2> QED
    BY <2>2, <2>3, <2>4, <2>6, <2>7, <2>8, <2>9, <2>10 DEF TxInv
<1>8. CASE Load
  <2>1. TxQueued' = TxQueued /\ Stored' = Stored /\ Taken' = Taken
    BY <1>8 DEF Load, TxQueued, Stored, Taken
  <2>2. sent + OnWire' + InRegister' = Taken
    BY <1>8 DEF Load, TxInv, OnWire, InRegister, TypeOK
  <2>3. shifter' = sent + 1
    BY <1>8 DEF Load, TxInv, OnWire, InRegister, TypeOK
  <2>4. txData' = NoByte /\ TxAvailable' = TxAvailable
    BY <1>8 DEF Load, TxAvailable
  <2> QED
    BY <1>8, <2>1, <2>2, <2>3, <2>4 DEF Load, TxInv
<1>9. CASE ShiftOut
  <2>1. TxQueued' = TxQueued /\ Stored' = Stored /\ Taken' = Taken
    BY <1>9 DEF ShiftOut, TxQueued, Stored, Taken
  <2>2. sent' = sent + 1 /\ OnWire = 1 /\ OnWire' = 0 /\ InRegister' = InRegister
    BY <1>9 DEF ShiftOut, TxInv, OnWire, InRegister
  <2>3. sent' + OnWire' + InRegister' = Taken'
    BY <1>t, <1>q, <2>1, <2>2
  <2>4. shifter' = NoByte /\ TxAvailable' = TxAvailable
    BY <1>9 DEF ShiftOut, TxAvailable
  <2> QED
    BY <1>9, <2>1, <2>3, <2>4 DEF ShiftOut, TxInv
<1> QED
  BY <1>1, <1>2, <1>3, <1>4, <1>5, <1>6, <1>7, <1>8, <1>9
  DEF Next, MainLoop, IsrUtx

(* The ring, the data register and the shifter hold consecutive bytes: an   *)
(* interrupt between any two steps of uartNTxSend loses none of them.       *)
THEOREM TxCorrect == Spec => []TxInv
BY TypeInit, TypeStep, TxInit, TxStep, PTL DEF Spec

(* The wire carries every byte once, in order. *)
THEOREM WireOrder == Spec => WireInOrder
<1>1. TxInv /\ [Next]_vars => [sent' # sent => sent' = sent + 1]_vars
  BY DEF TxInv, Next, MainLoop, IsrUtx, IsrUrx, TxStore, TxAdvance, TxEnable,
         RxRead, RxAdvance, IsrUtxIdle, IsrUtxClear, IsrUtxWrite, IsrUrxStore,
         IsrUrxDiscard, Load, ShiftOut, Arrive, vars, txVars
<1> QED
  BY <1>1, TxCorrect, PTL DEF Spec, WireInOrder

------------------------------------------------------------------------------
(* The TX interrupt *)

(* TxInv says that the flag of an empty data register is set, so what is    *)
(* left is that ISR_UTX disables the interrupt only with the ring empty.    *)
LEMMA KeepsGoingStep ==
  TypeOK /\ TxInv /\ TxInv' /\ TxKeepsGoing /\ [Next]_vars => TxKeepsGoing'
<1> SUFFICES ASSUME TypeOK, TxInv, TxInv', TxKeepsGoing, [Next]_vars,
                    txInterruptIndex' # txMainLoopIndex'
             PROVE  txEnabled' = TRUE \/ pc' = "txEnable"
  BY DEF TxKeepsGoing, TxInv
<1> USE DEF TxKeepsGoing
<1>1. CASE TxStore
  BY <1>1 DEF TxStore, TypeOK
<1>2. CASE TxAdvance
  BY <1>2 DEF TxAdvance
<1>3. CASE TxEnable
  BY <1>3 DEF TxEnable
<1>4. CASE RxRead \/ RxAdvance
  BY <1>4 DEF RxRead, RxAdvance, txVars, TypeOK
<1>5. CASE IsrUtxIdle
  BY <1>5 DEF IsrUtxIdle
<1>6. CASE IsrUtxClear \/ Load \/ ShiftOut
  BY <1>6 DEF IsrUtxClear, Load, ShiftOut, TypeOK
<1>7. CASE IsrUtxWrite
  BY <1>7 DEF IsrUtxWrite, TxInv, TypeOK
<1>8. CASE IsrUrx \/ Arrive \/ UNCHANGED vars
  BY <1>8 DEF IsrUrx, IsrUrxStore, IsrUrxDiscard, Arrive, vars, txVars, TypeOK
<1> QED
  BY <1>1, <1>2, <1>3, <1>4, <1>5, <1>6, <1>7, <1>8 DEF Next, MainLoop, IsrUtx

(* While the ring holds a byte the TX interrupt will fire: the interrupt    *)
(* that disables itself and the main loop that enables it do not miss each  *)
(* other.                                                                   *)
THEOREM NoLostWakeup == Spec => []TxKeepsGoing
<1>1. Init => TxKeepsGoing
  BY DEF Init, TxKeepsGoing
<1> QED
  BY <1>1, TypeInit, TypeStep, TxInit, TxStep, KeepsGoingStep, PTL DEF Spec

------------------------------------------------------------------------------
(* The RX direction *)

LEMMA RxFrame ==
  ASSUME RxInv, UNCHANGED rxVars, pc' = "rxAdvance" <=> pc = "rxAdvance"
  PROVE  RxInv'
BY DEF RxInv, rxVars, RxAvailable, RxFirst, Waiting

LEMMA RxInit == Init => RxInv
BY DEF Init, RxInv, RxAvailable, RxFirst, Waiting, Ahead

LEMMA RxStep == TypeOK /\ RxInv /\ [Next]_vars => RxInv'
<1> SUFFICES ASSUME TypeOK, RxInv, [Next]_vars PROVE RxInv'
  OBVIOUS
<1> DEFINE Dist(i) == Ahead(SIZE, rxMainLoopIndex, i)
<1>t. /\ rxMainLoopIndex \in 0 .. SIZE - 1 /\ rxInterruptIndex \in 0 .. SIZE - 1
      /\ nRx \in Nat /\ received \in Nat /\ rxData \in Nat
      /\ \A i \in 0 .. SIZE - 1 : rxBuffer[i] \in Nat
      /\ pc # "rxAdvance" => RxFirst = received + 1
      /\ pc = "rxAdvance" => RxFirst = received
  BY DEF TypeOK, RxFirst
<1>d. /\ \A i \in 0 .. SIZE - 1 : Dist(i) \in 0 .. SIZE - 1
      /\ RxAvailable \in 0 .. SIZE - 1
      /\ RxAvailable = Dist(rxInterruptIndex)
      /\ Dist(rxMainLoopIndex) = 0
      /\ RxFree = SIZE - 1 - RxAvailable
  BY <1>t, AheadInRing DEF RxAvailable, RxFree
<1> HIDE DEF Dist
<1>1. CASE TxStore \/ TxAdvance \/ TxEnable \/ IsrUtx \/ Load \/ ShiftOut
           \/ UNCHANGED vars
  BY <1>1, RxFrame DEF TxStore, TxAdvance, TxEnable, IsrUtx, IsrUtxIdle,
                       IsrUtxClear, IsrUtxWrite, Load, ShiftOut, vars
<1>2. CASE RxRead
  <2>1. /\ pc = "idle" /\ pc' = "rxAdvance" /\ RxAvailable # 0
        /\ received' = rxBuffer[rxMainLoopIndex]
        /\ UNCHANGED <<rxBuffer, rxMainLoopIndex, rxInterruptIndex, rxFlag,
                       rxData, errors, nRx>>
    BY <1>2 DEF RxRead
  <2>2. RxAvailable' = RxAvailable /\ Waiting' = Waiting /\ RxFirst' = received'
    BY <2>1 DEF RxAvailable, Waiting, RxFirst
  <2>3. 0 < RxAvailable
    BY <2>1, <1>d
  <2>4. received + 1 <= received' /\ received' <= nRx - Waiting
    BY <1>t, <1>d, <2>1, <2>3 DEF RxInv, Dist
  <2>5. ASSUME NEW i \in 0 .. SIZE - 1, Dist(i) < RxAvailable
        PROVE  received' <= rxBuffer[i]
    <3>1. CASE i = rxMainLoopIndex
      BY <1>t, <2>1, <3>1
    <3>2. CASE i # rxMainLoopIndex
      <4>1. Dist(rxMainLoopIndex) < Dist(i)
        BY <1>t, <1>d, <3>2, AheadInRing DEF Dist
      <4> QED
        BY <1>t, <2>1, <2>5, <4>1 DEF RxInv, Dist
    <3> QED
      BY <3>1, <3>2
  <2>6. errors = {} => received' = received + 1
    BY <1>t, <1>d, <2>1, <2>3 DEF RxInv, Dist
  <2>7. received' <= nRx /\ (rxFlag => received' < nRx)
    BY <1>t, <2>1, <2>4 DEF Waiting
  <2> QED
    BY <1>t, <2>1, <2>2, <2>4, <2>5, <2>6, <2>7 DEF RxInv, Dist
<1>3. CASE RxAdvance
  <2> DEFINE Then(i) == Ahead(SIZE, NextIndex(rxMainLoopIndex), i)
  <2>1. /\ pc = "rxAdvance" /\ pc' = "idle"
        /\ rxMainLoopIndex' = NextIndex(rxMainLoopIndex)
        /\ UNCHANGED <<received, rxBuffer, rxInterruptIndex, rxFlag, rxData,
                       errors, nRx>>
    BY <1>3 DEF RxAdvance
  <2>2. RxFirst = received /\ RxFirst' = received + 1 /\ Waiting' = Waiting
    BY <2>1 DEF RxFirst, Waiting
  <2>3. 0 < RxAvailable /\ rxBuffer[rxMainLoopIndex] = received
    BY <1>d, <2>1 DEF RxInv
  <2>4. RxAvailable' = RxAvailable - 1
    <3>1. rxMainLoopIndex # rxInterruptIndex
      BY <1>d, <2>3
    <3> QED
      BY <1>t, <2>1, <3>1, AheadPop DEF RxAvailable
  <2>5. ASSUME NEW i \in 0 .. SIZE - 1, Then(i) < RxAvailable - 1
        PROVE  Then(i) = Dist(i) - 1 /\ i # rxMainLoopIndex
    <3>1. i # rxMainLoopIndex
      <4>1. SUFFICES ASSUME i = rxMainLoopIndex PROVE FALSE
        OBVIOUS
      <4>2. Then(i) = SIZE - 1
        BY <1>t, <2>1, <4>1, AheadPop DEF Dist
      <4> QED
        BY <1>d, <2>5, <4>2
    <3> QED
      BY <1>t, <2>1, <3>1, AheadPop DEF Dist
  <2>6. ASSUME NEW i \in 0 .. SIZE - 1, Then(i) < RxAvailable - 1
        PROVE  received + 1 <= rxBuffer[i] /\ rxBuffer[i] <= nRx - Waiting
    <3>1. /\ Dist(i) \in 0 .. SIZE - 1 /\ Dist(i) # 0
          /\ Then(i) = Dist(i) - 1
      BY <1>t, <1>d, <2>5, <2>6, AheadInRing DEF Dist
    <3>2. Dist(rxMainLoopIndex) < Dist(i) /\ Dist(i) < RxAvailable
      BY <1>d, <2>6, <3>1
    <3>3. rxBuffer[rxMainLoopIndex] < rxBuffer[i]
      BY <1>t, <3>2 DEF RxInv, Dist
    <3>4. rxBuffer[i] <= nRx - Waiting
      BY <3>2 DEF RxInv, Dist
    <3> QED
      BY <1>t, <2>3, <3>3, <3>4
  <2>7. ASSUME NEW i \in 0 .. SIZE - 1, NEW j \in 0 .. SIZE - 1,
               Then(i) < Then(j), Then(j) < RxAvailable - 1
        PROVE  rxBuffer[i] < rxBuffer[j]
    <3>1. Then(i) \in Int /\ Then(j) \in Int
      BY <1>t, SuccInRing, AheadInRing
    <3>2. Dist(i) < Dist(j) /\ Dist(j) < RxAvailable
      <4>1. Then(i) < RxAvailable - 1
        BY <1>d, <2>7, <3>1
      <4>2. Then(i) = Dist(i) - 1 /\ Then(j) = Dist(j) - 1
        BY <2>5, <2>7, <4>1
      <4>3. Dist(i) \in Int /\ Dist(j) \in Int /\ RxAvailable \in Int
        BY <1>d
      <4> QED
        BY <2>7, <4>2, <4>3
    <3> QED
      BY <3>2 DEF RxInv, Dist
  <2>8. ASSUME errors = {}, NEW i \in 0 .. SIZE - 1,
               Then(i) < RxAvailable - 1
        PROVE  rxBuffer[i] = received + 1 + Then(i)
    <3>1. Dist(i) \in 0 .. SIZE - 1 /\ Then(i) = Dist(i) - 1
      BY <1>d, <2>5, <2>8
    <3>2. Dist(i) < RxAvailable
      BY <1>d, <2>8, <3>1
    <3>3. rxBuffer[i] = RxFirst + Dist(i)
      BY <2>8, <3>2 DEF RxInv, Dist
    <3> QED
      BY <1>t, <1>d, <2>2, <3>1, <3>3
  <2>9. errors = {} => received + 1 + RxAvailable' + Waiting = nRx + 1
    BY <1>t, <1>d, <2>2, <2>4 DEF RxInv, Waiting
  <2> QED
    BY <2>1, <2>2, <2>4, <2>6, <2>7, <2>8, <2>9 DEF RxInv, Dist
<1>4. CASE IsrUrxStore
  <2>1. /\ rxFlag /\ rxFlag' = FALSE /\ RxFree # 0
        /\ rxInterruptIndex' = NextIndex(rxInterruptIndex)
        /\ rxBuffer' = [rxBuffer EXCEPT ![rxInterruptIndex] = rxData]
        /\ UNCHANGED <<pc, received, rxMainLoopIndex, rxData, errors, nRx>>
    BY <1>4 DEF IsrUrxStore
  <2>2. /\ Waiting = 1 /\ Waiting' = 0 /\ RxFirst' = RxFirst
        /\ rxData = nRx /\ received < nRx
    BY <2>1 DEF Waiting, RxFirst, RxInv
  <2>3. RxAvailable' = RxAvailable + 1
    BY <1>t, <1>d, <2>1, AheadPush DEF RxAvailable
  <2>4. /\ rxBuffer'[rxInterruptIndex] = nRx
        /\ \A i \in 0 .. SIZE - 1 :
             i # rxInterruptIndex => rxBuffer'[i] = rxBuffer[i]
    BY <1>t, <2>1, <2>2 DEF TypeOK
  <2>5. ASSUME NEW i \in 0 .. SIZE - 1, Dist(i) < RxAvailable + 1
        PROVE  \/ i = rxInterruptIndex /\ Dist(i) = RxAvailable
               \/ i # rxInterruptIndex /\ Dist(i) < RxAvailable
    BY <1>t, <1>d, <2>5, AheadInjective DEF Dist
  <2>6. ASSUME NEW i \in 0 .. SIZE - 1, Dist(i) < RxAvailable + 1
        PROVE  RxFirst <= rxBuffer'[i] /\ rxBuffer'[i] <= nRx
    BY <1>t, <2>2, <2>4, <2>5, <2>6 DEF RxInv, Dist
  <2>7. ASSUME NEW i \in 0 .. SIZE - 1, NEW j \in 0 .. SIZE - 1,
               Dist(i) < Dist(j), Dist(j) < RxAvailable + 1
        PROVE  rxBuffer'[i] < rxBuffer'[j]
    <3>1. i # rxInterruptIndex /\ Dist(i) < RxAvailable
      BY <1>d, <2>5, <2>7
    <3>2. rxBuffer[i] < nRx
      BY <1>t, <2>2, <3>1 DEF RxInv, Dist
    <3>3. CASE j = rxInterruptIndex
      BY <2>4, <3>1, <3>2, <3>3
    <3>4. CASE j # rxInterruptIndex
      BY <2>4, <2>5, <2>7, <3>1, <3>4 DEF RxInv, Dist
    <3> QED
      BY <3>3, <3>4
  <2>8. ASSUME errors = {}
        PROVE  /\ RxFirst + RxAvailable + 1 = nRx + 1
               /\ \A i \in 0 .. SIZE - 1 : Dist(i) < RxAvailable + 1 =>
                    rxBuffer'[i] = RxFirst + Dist(i)
    <3>1. RxFirst + RxAvailable + 1 = nRx + 1
      BY <2>2, <2>8 DEF RxInv
    <3>2. RxFirst + RxAvailable = nRx
      BY <1>t, <1>d, <3>1
    <3> QED
      BY <2>4, <2>5, <2>8, <3>1, <3>2 DEF RxInv, Dist
  <2>9. RxFirst + RxAvailable' + 0 = RxFirst + RxAvailable + 1
    BY <1>t, <1>d, <2>3
  <2>10. pc = "rxAdvance" => /\ RxAvailable' # 0
                             /\ rxBuffer'[rxMainLoopIndex] = received
    BY <1>t, <1>d, <2>3, <2>4 DEF RxInv
  <2>11. nRx - 0 = nRx /\ received <= nRx
    BY <1>t, <2>2
  <2> QED
    BY <2>1, <2>2, <2>3, <2>6, <2>7, <2>8, <2>9, <2>10, <2>11 DEF RxInv, Dist
<1>5. CASE IsrUrxDiscard
  <2>1. /\ rxFlag /\ rxFlag' = FALSE /\ errors' # {}
        /\ UNCHANGED <<pc, received, rxBuffer, rxMainLoopIndex,
                       rxInterruptIndex, rxData, nRx>>
    BY <1>5 DEF IsrUrxDiscard
  <2>2. /\ Waiting = 1 /\ Waiting' = 0 /\ RxFirst' = RxFirst
        /\ RxAvailable' = RxAvailable
    BY <2>1 DEF Waiting, RxFirst, RxAvailable
  <2>3. \A i \in 0 .. SIZE - 1 : rxBuffer[i] <= nRx - 1 => rxBuffer[i] <= nRx - 0
    BY <1>t
  <2> QED
    BY <2>1, <2>2, <2>3 DEF RxInv
<1>6. CASE Arrive
  <2>1. /\ ~rxFlag /\ rxFlag' = TRUE /\ nRx' = nRx + 1 /\ rxData' = nRx + 1
        /\ UNCHANGED <<pc, received, rxBuffer, rxMainLoopIndex,
                       rxInterruptIndex, errors>>
    BY <1>6 DEF Arrive
  <2>2. /\ Waiting = 0 /\ Waiting' = 1 /\ RxFirst' = RxFirst
        /\ RxAvailable' = RxAvailable
    BY <2>1 DEF Waiting, RxFirst, RxAvailable
  <2>3. nRx' - 1 = nRx - 0 /\ received <= nRx' /\ received < nRx'
    BY <1>t, <2>1 DEF RxInv
  <2>4. errors = {} => RxFirst + RxAvailable + 1 = nRx' + 1
    BY <1>t, <1>d, <2>1, <2>2 DEF RxInv
  <2> QED
    BY <2>1, <2>2, <2>3, <2>4 DEF RxInv
<1> QED
  BY <1>1, <1>2, <1>3, <1>4, <1>5, <1>6 DEF Next, MainLoop, IsrUrx

(* The RX ring holds bytes in the order they arrived, and all of them as    *)
(* long as no error bit is set.                                             *)
THEOREM RxCorrect == Spec => []RxInv
BY TypeInit, TypeStep, RxInit, RxStep, PTL DEF Spec

(* Both rings hold what they should, whatever interrupts whatever.          *)
THEOREM BuffersCorrect == Spec => []BuffersInv
<1>1. TypeOK /\ TxInv /\ RxInv => BuffersInv
  BY DEF BuffersInv
<1> QED
  BY <1>1, TypeCorrect, TxCorrect, RxCorrect, PTL

(* The program reads bytes in order, and a gap has set an error bit.        *)
THEOREM GapsReported == Spec => GapsAreReported
<1>1. TypeOK /\ RxInv /\ [Next]_vars =>
        [received' # received => /\ received' > received
                                 /\ received' = received + 1 \/ errors # {}]_vars
  <2> SUFFICES ASSUME TypeOK, RxInv, [Next]_vars, received' # received
               PROVE  received' > received
                      /\ (received' = received + 1 \/ errors # {})
    OBVIOUS
  <2>1. RxRead
    BY DEF Next, MainLoop, IsrUtx, IsrUrx, TxStore, TxAdvance, TxEnable,
           RxAdvance, IsrUtxIdle, IsrUtxClear, IsrUtxWrite, IsrUrxStore,
           IsrUrxDiscard, Load, ShiftOut, Arrive, vars, rxVars
  <2>2. /\ received' = rxBuffer[rxMainLoopIndex] /\ pc = "idle"
        /\ RxAvailable # 0
    BY <2>1 DEF RxRead
  <2>3. /\ rxMainLoopIndex \in 0 .. SIZE - 1 /\ received \in Nat
        /\ rxInterruptIndex \in 0 .. SIZE - 1
        /\ rxBuffer[rxMainLoopIndex] \in Nat
    BY DEF TypeOK
  <2>4. Ahead(SIZE, rxMainLoopIndex, rxMainLoopIndex) = 0
    BY <2>3, AheadInRing
  <2>5. RxAvailable \in 0 .. SIZE - 1 /\ 0 < RxAvailable
    BY <2>2, <2>3, AheadInRing DEF RxAvailable
  <2>6. RxFirst = received + 1
    BY <2>2 DEF RxFirst
  <2>7. /\ received + 1 <= received'
        /\ errors = {} => received' = received + 1 + 0
    BY <2>2, <2>3, <2>4, <2>5, <2>6 DEF RxInv
  <2> QED
    BY <2>2, <2>3, <2>7
<1> QED
  BY <1>1, TypeCorrect, RxCorrect, PTL DEF Spec, GapsAreReported

=============================================================================

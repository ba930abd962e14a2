-------------------------------- MODULE Uart --------------------------------
(***************************************************************************)
(* libraries/src/uart/core/uart.c: two ring buffers between the main loop  *)
(* and the TX and RX interrupts of a USART, and the USART's data register  *)
(* and shifter.  An interrupt preempts the main loop between any two of    *)
(* its steps; the hardware runs beside both.                               *)
(* A byte is its number in the stream, counted from 1; 0 is no byte.       *)
(***************************************************************************)
EXTENDS Ring

CONSTANTS SIZE,   \* sizeof(uartTxBuffer), sizeof(uartRxBuffer): 256
          MaxTx,  \* bound: bytes the program sends
          MaxRx   \* bound: bytes that arrive

ASSUME SizeAssumption == SIZE \in Nat /\ SIZE > 1
ASSUME BoundAssumption == MaxTx \in Nat /\ MaxRx \in Nat

VARIABLES
  pc,        \* the main loop: "idle" or the next step of a library function
  isr,       \* "idle", or "write" inside ISR_UTX
  txBuffer, txMainLoopIndex, txInterruptIndex,
  txEnabled, \* the UTXNIE bit of IEN2
  txFlag,    \* UTXNIF
  txData,    \* UNDBUF as written
  shifter,   \* the byte on the wire
  nTx,       \* bytes given to uartNTxSendByte
  sent,      \* the last byte that left the wire
  rxBuffer, rxMainLoopIndex, rxInterruptIndex,
  rxFlag,    \* URXNIF
  rxData,    \* UNDBUF as read
  rxErrors,  \* the error bits of UNCSR that came with it
  errors,    \* the uartNRx...Occurred bits that are set
  nRx,       \* bytes that have arrived
  received   \* the last byte uartNRxReceiveByte returned

txVars == <<txBuffer, txMainLoopIndex, txInterruptIndex, txEnabled, txFlag,
            txData, shifter, nTx, sent>>
rxVars == <<rxBuffer, rxMainLoopIndex, rxInterruptIndex, rxFlag, rxData,
            rxErrors, errors, nRx, received>>
vars == <<pc, isr, txVars, rxVars>>

LineErrors == {"Framing", "Parity"}
NoByte == 0

\* Mutant: the index does not wrap.
NextIndexNoWrap(i) == i + 1
NextIndex(i) == Succ(SIZE, i)

\* uartNInit sets UTXNIF "so the interrupt fires when we enable it".
Init == /\ pc = "idle" /\ isr = "idle"
        /\ txBuffer = [i \in 0 .. SIZE - 1 |-> NoByte]
        /\ txMainLoopIndex = 0 /\ txInterruptIndex = 0
        /\ txEnabled = FALSE /\ txFlag = TRUE
        /\ txData = NoByte /\ shifter = NoByte /\ nTx = 0 /\ sent = 0
        /\ rxBuffer = [i \in 0 .. SIZE - 1 |-> NoByte]
        /\ rxMainLoopIndex = 0 /\ rxInterruptIndex = 0
        /\ rxFlag = FALSE /\ rxData = NoByte /\ rxErrors = {}
        /\ errors = {} /\ nRx = 0 /\ received = 0

------------------------------------------------------------------------------
(* The main loop *)

\* Mutant: all of the ring is used, so that full and empty look the same.
TxAvailableAll == SIZE - Ahead(SIZE, txInterruptIndex, txMainLoopIndex)
TxAvailable == SIZE - 1 - Ahead(SIZE, txInterruptIndex, txMainLoopIndex)

RxAvailable == Ahead(SIZE, rxMainLoopIndex, rxInterruptIndex)

\* uartNTxSendByte, and each turn of the loop of uartNTxSend: store the byte,
\* advance the index, enable the TX interrupt.
TxStore ==
  /\ pc = "idle" /\ isr = "idle"
  /\ TxAvailable # 0 /\ nTx < MaxTx
  /\ nTx' = nTx + 1
  /\ txBuffer' = [txBuffer EXCEPT ![txMainLoopIndex] = nTx + 1]
  /\ pc' = "txAdvance"
  /\ UNCHANGED <<isr, txMainLoopIndex, txInterruptIndex, txEnabled, txFlag,
                 txData, shifter, sent, rxVars>>

TxAdvance ==
  /\ pc = "txAdvance" /\ isr = "idle"
  /\ txMainLoopIndex' = NextIndex(txMainLoopIndex)
  /\ pc' = "txEnable"
  /\ UNCHANGED <<isr, txBuffer, txInterruptIndex, txEnabled, txFlag, txData,
                 shifter, nTx, sent, rxVars>>

TxEnable ==
  /\ pc = "txEnable" /\ isr = "idle"
  /\ txEnabled' = TRUE
  /\ pc' = "idle"
  /\ UNCHANGED <<isr, txBuffer, txMainLoopIndex, txInterruptIndex, txFlag,
                 txData, shifter, nTx, sent, rxVars>>

\* uartNRxReceiveByte: read the byte, advance the index.
RxRead ==
  /\ pc = "idle" /\ isr = "idle"
  /\ RxAvailable # 0
  /\ received' = rxBuffer[rxMainLoopIndex]
  /\ pc' = "rxAdvance"
  /\ UNCHANGED <<isr, txVars, rxBuffer, rxMainLoopIndex, rxInterruptIndex,
                 rxFlag, rxData, rxErrors, errors, nRx>>

RxAdvance ==
  /\ pc = "rxAdvance" /\ isr = "idle"
  /\ rxMainLoopIndex' = NextIndex(rxMainLoopIndex)
  /\ pc' = "idle"
  /\ UNCHANGED <<isr, txVars, rxBuffer, rxInterruptIndex, rxFlag, rxData,
                 rxErrors, errors, nRx, received>>

------------------------------------------------------------------------------
(* ISR_UTX *)

\* Mutant: the flag is cleared although nothing will be written.
IsrUtxIdleClearsFlag ==
  /\ isr = "idle" /\ txEnabled /\ txFlag
  /\ txInterruptIndex = txMainLoopIndex
  /\ txEnabled' = FALSE /\ txFlag' = FALSE
  /\ UNCHANGED <<pc, isr, txBuffer, txMainLoopIndex, txInterruptIndex, txData,
                 shifter, nTx, sent, rxVars>>

\* Nothing to send: the interrupt is disabled and its flag stays set.
IsrUtxIdle ==
  /\ isr = "idle" /\ txEnabled /\ txFlag
  /\ txInterruptIndex = txMainLoopIndex
  /\ txEnabled' = FALSE
  /\ UNCHANGED <<pc, isr, txBuffer, txMainLoopIndex, txInterruptIndex, txFlag,
                 txData, shifter, nTx, sent, rxVars>>

\* The flag is cleared before the data register is written, for the
\* hardware may set it again at once.
IsrUtxClear ==
  /\ isr = "idle" /\ txEnabled /\ txFlag
  /\ txInterruptIndex # txMainLoopIndex
  /\ txFlag' = FALSE
  /\ isr' = "write"
  /\ UNCHANGED <<pc, txBuffer, txMainLoopIndex, txInterruptIndex, txEnabled,
                 txData, shifter, nTx, sent, rxVars>>

IsrUtxWrite ==
  /\ isr = "write"
  /\ txData' = txBuffer[txInterruptIndex]
  /\ txInterruptIndex' = NextIndex(txInterruptIndex)
  /\ isr' = "idle"
  /\ UNCHANGED <<pc, txBuffer, txMainLoopIndex, txEnabled, txFlag, shifter,
                 nTx, sent, rxVars>>

(* ISR_URX *)

\* Mutant: the slot the main loop is about to read is taken for free.
RxFreeAll == SIZE - Ahead(SIZE, rxMainLoopIndex, rxInterruptIndex)
RxFree == SIZE - 1 - Ahead(SIZE, rxMainLoopIndex, rxInterruptIndex)

IsrUrxStore ==
  /\ isr = "idle" /\ rxFlag
  /\ rxErrors = {} /\ RxFree # 0
  /\ rxFlag' = FALSE
  /\ rxBuffer' = [rxBuffer EXCEPT ![rxInterruptIndex] = rxData]
  /\ rxInterruptIndex' = NextIndex(rxInterruptIndex)
  /\ UNCHANGED <<pc, isr, txVars, rxMainLoopIndex, rxData, rxErrors, errors,
                 nRx, received>>

\* The byte is discarded and the program can see why.
IsrUrxDiscard ==
  /\ isr = "idle" /\ rxFlag
  /\ rxErrors # {} \/ RxFree = 0
  /\ rxFlag' = FALSE
  /\ errors' = errors \cup (IF rxErrors = {} THEN {"BufferFull"} ELSE rxErrors)
  /\ UNCHANGED <<pc, isr, txVars, rxBuffer, rxMainLoopIndex, rxInterruptIndex,
                 rxData, rxErrors, nRx, received>>

------------------------------------------------------------------------------
(* The USART *)

\* The byte in the data register moves on, and there is room for another.
Load == /\ txData # NoByte /\ shifter = NoByte
        /\ shifter' = txData /\ txData' = NoByte
        /\ txFlag' = TRUE
        /\ UNCHANGED <<pc, isr, txBuffer, txMainLoopIndex, txInterruptIndex,
                       txEnabled, nTx, sent, rxVars>>

ShiftOut == /\ shifter # NoByte
            /\ sent' = shifter /\ shifter' = NoByte
            /\ UNCHANGED <<pc, isr, txBuffer, txMainLoopIndex, txInterruptIndex,
                           txEnabled, txFlag, txData, nTx, rxVars>>

\* A byte arrives.  ISR_URX is served within the time of one byte.
Arrive == /\ ~rxFlag /\ nRx < MaxRx
          /\ nRx' = nRx + 1
          /\ rxData' = nRx + 1
          /\ \E e \in SUBSET LineErrors : rxErrors' = e
          /\ rxFlag' = TRUE
          /\ UNCHANGED <<pc, isr, txVars, rxBuffer, rxMainLoopIndex,
                         rxInterruptIndex, errors, received>>

MainLoop == TxStore \/ TxAdvance \/ TxEnable \/ RxRead \/ RxAdvance
IsrUtx == IsrUtxIdle \/ IsrUtxClear \/ IsrUtxWrite
IsrUrx == IsrUrxStore \/ IsrUrxDiscard

Next == MainLoop \/ IsrUtx \/ IsrUrx \/ Load \/ ShiftOut \/ Arrive

Spec == Init /\ [][Next]_vars

------------------------------------------------------------------------------
(* Properties *)

\* Type correctness; the indices stay inside the buffers.
TypeOK ==
  /\ pc \in {"idle", "txAdvance", "txEnable", "rxAdvance"}
  /\ isr \in {"idle", "write"}
  /\ txBuffer \in [0 .. SIZE - 1 -> Nat] /\ rxBuffer \in [0 .. SIZE - 1 -> Nat]
  /\ txMainLoopIndex \in 0 .. SIZE - 1 /\ txInterruptIndex \in 0 .. SIZE - 1
  /\ rxMainLoopIndex \in 0 .. SIZE - 1 /\ rxInterruptIndex \in 0 .. SIZE - 1
  /\ txEnabled \in BOOLEAN /\ txFlag \in BOOLEAN /\ rxFlag \in BOOLEAN
  /\ txData \in Nat /\ shifter \in Nat /\ nTx \in Nat /\ sent \in Nat
  /\ rxData \in Nat /\ nRx \in Nat /\ received \in Nat
  /\ rxErrors \subseteq LineErrors
  /\ errors \subseteq LineErrors \cup {"BufferFull"}

\* No lost wakeup: while the buffer holds a byte the TX interrupt is enabled
\* or about to be, and its flag is set or will be set by the hardware.
TxKeepsGoing ==
  txInterruptIndex # txMainLoopIndex =>
    /\ txEnabled \/ pc = "txEnable"
    /\ txFlag \/ txData # NoByte \/ isr = "write"

\* The wire carries every byte once, in the order the program sent them.
WireInOrder == [][sent' # sent => sent' = sent + 1]_vars

\* The program reads bytes in the order they arrived, and one that is missing
\* has set one of the error bits of uart.h.
GapsAreReported ==
  [][received' # received => /\ received' > received
                             /\ received' = received + 1 \/ errors # {}]_vars

------------------------------------------------------------------------------
(* The inductive invariants behind the action properties *)

\* Bytes that are in the ring or past it, and those that are past it.
Stored == IF pc = "txAdvance" THEN nTx - 1 ELSE nTx
TxQueued == Ahead(SIZE, txInterruptIndex, txMainLoopIndex)
Taken == Stored - TxQueued

InRegister == IF txData # NoByte THEN 1 ELSE 0
OnWire == IF shifter # NoByte THEN 1 ELSE 0

\* The ring holds the bytes that follow the one in the data register, which
\* follows the one on the wire, which follows the last one sent; a write to
\* the data register (ISR_UTX) never meets a byte that is still there.
TxInv ==
  /\ pc = "txAdvance" => /\ TxAvailable # 0
                         /\ txBuffer[txMainLoopIndex] = nTx
  /\ \A i \in 0 .. SIZE - 1 :
       Ahead(SIZE, txInterruptIndex, i) < TxQueued =>
         txBuffer[i] = Taken + 1 + Ahead(SIZE, txInterruptIndex, i)
  /\ sent + OnWire + InRegister = Taken
  /\ shifter # NoByte => shifter = sent + 1
  /\ txData # NoByte => txData = Taken
  /\ isr = "write" => txInterruptIndex # txMainLoopIndex /\ ~txFlag
  /\ txFlag \/ isr = "write" => txData = NoByte
  /\ txFlag \/ isr = "write" \/ txData # NoByte

\* The byte at the head of the RX ring, if nothing was discarded.
RxFirst == IF pc = "rxAdvance" THEN received ELSE received + 1
Waiting == IF rxFlag THEN 1 ELSE 0

\* The ring holds bytes that arrived after the one read last, in order, and
\* as long as no error bit is set it holds all of them.
RxInv ==
  /\ received <= nRx
  /\ rxFlag => rxData = nRx /\ received < nRx
  /\ pc = "rxAdvance" => /\ RxAvailable # 0
                         /\ rxBuffer[rxMainLoopIndex] = received
  /\ \A i \in 0 .. SIZE - 1 :
       Ahead(SIZE, rxMainLoopIndex, i) < RxAvailable =>
         RxFirst <= rxBuffer[i] /\ rxBuffer[i] <= nRx - Waiting
  /\ \A i, j \in 0 .. SIZE - 1 :
       /\ Ahead(SIZE, rxMainLoopIndex, i) < Ahead(SIZE, rxMainLoopIndex, j)
       /\ Ahead(SIZE, rxMainLoopIndex, j) < RxAvailable
       => rxBuffer[i] < rxBuffer[j]
  /\ errors = {} =>
       /\ \A i \in 0 .. SIZE - 1 :
            Ahead(SIZE, rxMainLoopIndex, i) < RxAvailable =>
              rxBuffer[i] = RxFirst + Ahead(SIZE, rxMainLoopIndex, i)
       /\ RxFirst + RxAvailable + Waiting = nRx + 1

\* Both rings at any moment of the two interrupts and of the main loop: the
\* indices in range, and the bytes where they belong (uart.c).
BuffersInv == TypeOK /\ TxInv /\ RxInv

------------------------------------------------------------------------------
(* Liveness *)

\* Interrupts and hardware are never held up for ever, and uartNTxSendByte
\* returns.
Fairness == /\ WF_vars(TxAdvance) /\ WF_vars(TxEnable) /\ WF_vars(RxAdvance)
            /\ WF_vars(IsrUtx) /\ WF_vars(Load) /\ WF_vars(ShiftOut)

FairSpec == Spec /\ Fairness

\* Whatever the program gives to the library leaves on the wire.
AllIsSent == \A k \in 1 .. MaxTx : nTx = k ~> sent >= k

=============================================================================

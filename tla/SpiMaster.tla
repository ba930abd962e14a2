----------------------------- MODULE SpiMaster -----------------------------
(***************************************************************************)
(* libraries/src/spi_master: the program starts an exchange of `size'      *)
(* bytes and the receive interrupt carries it on.  The interrupt may come  *)
(* between any two instructions of the program, and bytesLeft has two      *)
(* bytes that the program reads one after the other.  The slave answers    *)
(* its n-th byte with Reply(n).                                            *)
(***************************************************************************)
EXTENDS Naturals, Sequences

CONSTANTS
  TxBytes,       \* what the program sends
  MaxSize,       \* the largest size of one transfer
  MaxExchanged,  \* how many bytes a behaviour exchanges
  UINT8          \* the number of values of one byte of bytesLeft

VARIABLES
  txBuffer, txPointer, rxBuffer, bytesLeft,
  URXNIE,        \* the receive interrupt is enabled
  URXNIF,        \* it is requested
  UNDBUF,        \* the byte on the wire: a sequence of at most one
  slave,         \* what the slave received
  pc, bytes,     \* where the program is, and `bytes' of spiNMasterBytesLeft
  first          \* how many bytes the slave had when the exchange began

bufferVars == <<txBuffer, txPointer, rxBuffer, bytesLeft>>
vars == <<bufferVars, URXNIE, URXNIF, UNDBUF, slave, pc, bytes, first>>

Reply(n) == <<"reply", n>>

Init ==
  /\ txBuffer = <<>> /\ txPointer = 0 /\ rxBuffer = <<>> /\ bytesLeft = 0
  /\ URXNIE = FALSE /\ URXNIF = FALSE
  /\ UNDBUF = <<>> /\ slave = <<>>
  /\ pc = "main" /\ bytes = 0 /\ first = 0

Exchange(buffer) ==
  /\ txBuffer' = buffer
  /\ txPointer' = 1
  /\ rxBuffer' = <<>>
  /\ bytesLeft' = Len(buffer)
  /\ UNDBUF' = <<buffer[1]>>
  /\ URXNIE' = TRUE
  /\ first' = Len(slave)

\* The header asks the program to wait until the SPI is not busy.
spiNMasterTransfer ==
  /\ pc = "main" /\ ~URXNIE
  /\ \E size \in 1..MaxSize : \E buffer \in [1..size -> TxBytes] :
       /\ Len(slave) + size <= MaxExchanged
       /\ Exchange(buffer)
  /\ UNCHANGED <<URXNIF, slave, pc, bytes>>

\* The loop at its end reads bytesLeft while the interrupt counts it down.
spiNMasterSendByte ==
  /\ pc = "main" /\ ~URXNIE
  /\ Len(slave) < MaxExchanged
  /\ \E byte \in TxBytes : Exchange(<<byte>>)
  /\ pc' = "sendByte"
  /\ UNCHANGED <<URXNIF, slave, bytes>>

\* Mutant: the interrupt may come between the two bytes.
MaskOnReadNever == URXNIE

SendByteReturns ==
  /\ pc = "sendByte" /\ bytesLeft = 0
  /\ pc' = "main"
  /\ UNCHANGED <<bufferVars, URXNIE, URXNIF, UNDBUF, slave, bytes, first>>

\* URXNIE while bytesLeft is read.
MaskOnRead == FALSE

spiNMasterBytesLeft ==
  \/ /\ pc = "main"
     /\ URXNIE' = MaskOnRead
     /\ pc' = "lowByte"
     /\ UNCHANGED bytes
  \/ /\ pc = "lowByte"
     /\ bytes' = bytesLeft % UINT8
     /\ pc' = "highByte"
     /\ UNCHANGED URXNIE
  \/ /\ pc = "highByte"
     /\ bytes' = bytes + UINT8 * (bytesLeft \div UINT8)
     /\ pc' = "unmask"
     /\ UNCHANGED URXNIE
  \/ /\ pc = "unmask"
     /\ URXNIE' = (URXNIE \/ bytes # 0)
     /\ pc' = "main"
     /\ UNCHANGED bytes

ReadsBytesLeft ==
  spiNMasterBytesLeft /\ UNCHANGED <<bufferVars, URXNIF, UNDBUF, slave, first>>

\* The slave takes the byte; its own has come in.
ByteExchanged ==
  /\ UNDBUF # <<>> /\ ~URXNIF
  /\ slave' = Append(slave, Head(UNDBUF))
  /\ URXNIF' = TRUE
  /\ UNCHANGED <<bufferVars, URXNIE, UNDBUF, pc, bytes, first>>

\* Mutant: the next byte is fetched before the pointer moves.
ISR_URXLate ==
  /\ URXNIF /\ URXNIE
  /\ URXNIF' = FALSE
  /\ rxBuffer' = Append(rxBuffer, Reply(Len(slave)))
  /\ bytesLeft' = bytesLeft - 1
  /\ IF bytesLeft' > 0
     THEN /\ txPointer' = txPointer + 1
          /\ UNDBUF' = <<txBuffer[txPointer]>>
          /\ UNCHANGED URXNIE
     ELSE URXNIE' = FALSE /\ UNDBUF' = <<>> /\ UNCHANGED txPointer
  /\ UNCHANGED <<txBuffer, slave, pc, bytes, first>>

ISR_URX ==
  /\ URXNIF /\ URXNIE
  /\ URXNIF' = FALSE
  /\ rxBuffer' = Append(rxBuffer, Reply(Len(slave)))
  /\ bytesLeft' = bytesLeft - 1
  /\ IF bytesLeft' > 0
     THEN /\ txPointer' = txPointer + 1
          /\ UNDBUF' = <<txBuffer[txPointer']>>
          /\ UNCHANGED URXNIE
     ELSE /\ URXNIE' = FALSE
          /\ UNDBUF' = <<>>
          /\ UNCHANGED txPointer
  /\ UNCHANGED <<txBuffer, slave, pc, bytes, first>>

Next ==
  \/ spiNMasterTransfer \/ spiNMasterSendByte \/ SendByteReturns
  \/ ReadsBytesLeft
  \/ ByteExchanged \/ ISR_URX

Spec == Init /\ [][Next]_vars

-----------------------------------------------------------------------------
\* Once the program finds the SPI not busy, the slave has the bytes of the
\* buffer in their order and the program has one reply to each
\* (spi_master.c, spiNMasterBusy), whatever was read in between.
Exchanged ==
  pc = "main" /\ ~URXNIE /\ txBuffer # <<>> =>
    /\ SubSeq(slave, first + 1, Len(slave)) = txBuffer
    /\ rxBuffer = [i \in 1..Len(txBuffer) |-> Reply(first + i)]

\* The number the program reads is one bytesLeft had: its two bytes belong
\* together (spi_master.c, spiNMasterBytesLeft).
BytesLeftIsExact == pc = "unmask" => bytes = bytesLeft
=============================================================================

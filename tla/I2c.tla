-------------------------------- MODULE I2c --------------------------------
(***************************************************************************)
(* libraries/src/i2c: a master made of software, on two wires that either  *)
(* end can hold low.  A call takes the steps of one bit after another, and *)
(* the slave sees the wires after each of them.  A wait for SCL ends when  *)
(* the slave lets it go, or when the time is up.  A byte has BITS bits.    *)
(* The pins and the slave are external.                                    *)
(***************************************************************************)
EXTENDS Naturals, SequencesExt

CONSTANTS
  BITS,
  Bytes,        \* what the program sends and the slave answers with
  MaxBytes,     \* of one transfer, in each direction
  MaxTimeouts   \* in a behaviour

VARIABLES
  master, holds,        \* the wires each end holds low
  started, i2cTimeoutOccurred, internalTimeoutOccurred,
  call,                 \* the call in progress: its name and byte, and where it is
  read,                 \* the bits it has read
  slave,                \* what the slave is at, its bits, the bytes it got and sent
  transfer,             \* the same bytes as the program knows them
  timeouts

flagVars == <<started, i2cTimeoutOccurred, internalTimeoutOccurred>>
vars == <<master, holds, flagVars, call, read, slave, transfer, timeouts>>

bitsOf(byte) == [i \in 1..BITS |-> (byte \div 2^(BITS - i)) % 2]
byteOf(bits) == FoldLeft(LAMBDA byte, b : 2 * byte + b, 0, bits)
IsRead(address) == address % 2 = 1

\* A byte is what its bits make, the highest first.
BytesAreBits ==
  \A byte \in Bytes : bitsOf(byte) \in [1..BITS -> {0, 1}] /\ byteOf(bitsOf(byte)) = byte

NoCall == [name |-> "none", byte |-> 0, bit |-> 0, at |-> 0]
NoTransfer == [mode |-> "none", sent |-> <<>>, received |-> <<>>]

Init ==
  /\ master = {} /\ holds = {}
  /\ started = FALSE /\ i2cTimeoutOccurred = FALSE /\ internalTimeoutOccurred = FALSE
  /\ call = NoCall /\ read = <<>>
  /\ slave = [mode |-> "idle", bits |-> <<>>, got |-> <<>>, sent |-> <<>>]
  /\ transfer = NoTransfer
  /\ timeouts = 0

-----------------------------------------------------------------------------
\* What the slave makes of a change of the wires.

Idle == [slave EXCEPT !.mode = "idle", !.bits = <<>>]

\* SCL rises: whoever receives takes the bit.
TakesBit(sda) ==
  CASE slave.mode \in {"address", "receive"} -> [slave EXCEPT !.bits = Append(@, sda)]
    [] slave.mode = "acked" /\ sda = 1 -> Idle
    [] OTHER -> slave

\* SCL falls: the slave sets SDA for the next bit, and may hold SCL.
NextBit(s, sda) == {[state |-> s, sda |-> sda]}
Sends(s) ==
  IF Len(s.sent) = MaxBytes THEN NextBit(Idle, 1)
  ELSE UNION {NextBit([s EXCEPT !.mode = "send", !.bits = Tail(bitsOf(byte)),
                                !.sent = Append(@, byte)], bitsOf(byte)[1]) : byte \in Bytes}
AfterByte ==
  LET got == Append(slave.got, byteOf(slave.bits))
  IN  NextBit([slave EXCEPT !.mode = "ack", !.bits = <<>>, !.got = got], 0)
        \cup NextBit([Idle EXCEPT !.got = got], 1)
SetsBit ==
  CASE slave.mode \in {"address", "receive"} /\ Len(slave.bits) = BITS -> AfterByte
    [] slave.mode = "ack" ->
         IF IsRead(slave.got[1]) THEN Sends(slave)
         ELSE NextBit([slave EXCEPT !.mode = "receive"], 1)
    [] slave.mode = "send" ->
         IF slave.bits = <<>> THEN NextBit([slave EXCEPT !.mode = "acked"], 1)
         ELSE NextBit([slave EXCEPT !.bits = Tail(@)], slave.bits[1])
    [] slave.mode = "acked" -> Sends(slave)
    [] OTHER -> NextBit(slave, 1)

High(wire, m, h) == wire \notin m /\ wire \notin h
SdaOf(m, h) == IF High("SDA", m, h) THEN 1 ELSE 0

\* The wires become those that master m and slave h leave free.
Wires(m, h) ==
  LET rises(w) == ~High(w, master, holds) /\ High(w, m, h)
      falls(w) == High(w, master, holds) /\ ~High(w, m, h)
      still(w) == High(w, master, holds) /\ High(w, m, h)
  IN  /\ master' = m
      /\ CASE falls("SCL") ->
                \E next \in SetsBit, stretch \in {{}, {"SCL"}} :
                  /\ slave' = next.state
                  /\ holds' = stretch \cup (IF next.sda = 0 THEN {"SDA"} ELSE {})
           [] rises("SCL") -> slave' = TakesBit(SdaOf(m, h)) /\ holds' = h
           [] still("SCL") /\ falls("SDA") ->
                /\ slave' = [mode |-> "address", bits |-> <<>>, got |-> <<>>, sent |-> <<>>]
                /\ holds' = h
           [] still("SCL") /\ rises("SDA") -> slave' = Idle /\ holds' = h
           [] OTHER -> slave' = slave /\ holds' = h

SlaveLetsSclGo ==
  /\ "SCL" \in holds
  /\ Wires(master, holds \ {"SCL"})
  /\ UNCHANGED <<flagVars, call, read, transfer, timeouts>>

-----------------------------------------------------------------------------
\* The calls and their steps.

Put(b) == IF b = 1 THEN "sda high" ELSE "sda low"

\* i2cWaitForHighScl is the two steps of SCL.
i2cStartSteps(repeated) ==
  IF repeated THEN <<Put(1), "let scl go", "await scl", Put(0), "scl low", "started">>
  ELSE <<"let scl go", "await scl", Put(0), "scl low", "started">>

i2cStopSteps == <<Put(0), "let scl go", "await scl", Put(1), "stopped">>

\* Mutant: SDA gets its value when SCL is high.
i2cWriteBitLate(b) == <<"let scl go", "await scl", Put(b), "scl low">>

i2cWriteBit(b) == <<Put(b), "let scl go", "await scl", "scl low">>

\* Mutant: the bit is read without letting SDA go.
i2cReadBitHeld == <<"let scl go", "await scl", "sample", "scl low">>

i2cReadBit == <<Put(1), "let scl go", "await scl", "sample", "scl low">>

\* The steps of the bit the call is at; after the BITS of a byte comes the
\* answer to it.
Steps ==
  CASE call.name = "start" -> i2cStartSteps(started)
    [] call.name = "stop" -> i2cStopSteps
    [] call.name = "write" /\ call.bit <= BITS -> i2cWriteBit(bitsOf(call.byte)[call.bit])
    [] call.name = "write" /\ call.bit > BITS -> Append(i2cReadBit, "acked")
    [] call.name = "read" /\ call.bit <= BITS -> i2cReadBit
    [] OTHER -> Append(i2cWriteBit(call.byte), "received")

At(name, byte) == [name |-> name, byte |-> byte, bit |-> 1, at |-> 1]
Calls(name, byte) ==
  /\ call = NoCall
  /\ call' = At(name, byte)
  /\ read' = <<>>
  /\ UNCHANGED <<master, holds, slave, timeouts, started, i2cTimeoutOccurred>>

\* A transfer that reads ends with a byte that is not acknowledged, and one
\* the slave did not acknowledge has had its STOP; after a timeout the program
\* may do anything.
Ends(modes) == transfer.mode \in modes \/ i2cTimeoutOccurred

i2cStart ==
  /\ Ends({"none", "write", "nacked", "stopped"})
  /\ Calls("start", 0)
  /\ transfer' = [NoTransfer EXCEPT !.mode = "address"]
  /\ UNCHANGED internalTimeoutOccurred

i2cStop ==
  /\ Ends({"address", "write", "nacked"})
  /\ transfer' = NoTransfer
  /\ Calls("stop", 0)
  /\ UNCHANGED internalTimeoutOccurred

i2cWriteByte(byte) ==
  /\ transfer.mode \in {"address", "write"} /\ Len(transfer.sent) < MaxBytes
  /\ Calls("write", byte)
  /\ internalTimeoutOccurred' = FALSE
  /\ transfer' = [transfer EXCEPT !.sent = Append(@, byte),
                                  !.mode = IF @ = "address" /\ IsRead(byte) THEN "read" ELSE "write"]

\* The byte is the one bit of the argument.
i2cReadByte(nack) ==
  /\ transfer.mode = "read"
  /\ nack = 0 => Len(transfer.received) < MaxBytes - 1
  /\ Calls("read", nack)
  /\ internalTimeoutOccurred' = FALSE
  /\ UNCHANGED transfer

\* The step the call is at is op; it goes on to the next, or to the next bit.
Does(op) == call # NoCall /\ Steps[call.at] = op
IsLast == call.at = Len(Steps)
HasBits == call.name \in {"write", "read"} /\ call.bit <= BITS
Goes ==
  call' = IF ~IsLast THEN [call EXCEPT !.at = @ + 1]
          ELSE IF HasBits THEN [call EXCEPT !.bit = @ + 1, !.at = 1]
          ELSE NoCall

MasterPin ==
  /\ \/ Does("sda high") /\ Wires(master \ {"SDA"}, holds)
     \/ Does("sda low") /\ Wires(master \cup {"SDA"}, holds)
     \/ Does("let scl go") /\ Wires(master \ {"SCL"}, holds)
     \/ Does("scl low") /\ Wires(master \cup {"SCL"}, holds)
  /\ Goes
  /\ UNCHANGED <<flagVars, read, transfer, timeouts>>

\* i2cReadSda lets SDA go and reads it.
Sample ==
  /\ Does("sample")
  /\ read' = Append(read, SdaOf(master, holds))
  /\ Goes
  /\ UNCHANGED <<master, holds, slave, flagVars, transfer, timeouts>>

\* Every caller returns when the internal flag is set.
Abandons == call' = NoCall

\* The transfer is lost to the program when its call returns too early.
SclIsHigh ==
  /\ Does("await scl") /\ "SCL" \notin holds
  /\ IF internalTimeoutOccurred THEN Abandons ELSE Goes
  /\ UNCHANGED <<master, holds, slave, flagVars, read, transfer, timeouts>>

TimeIsUp ==
  /\ Does("await scl") /\ "SCL" \in holds
  /\ timeouts < MaxTimeouts
  /\ timeouts' = timeouts + 1
  /\ internalTimeoutOccurred' = TRUE
  /\ i2cTimeoutOccurred' = TRUE
  /\ started' = FALSE
  /\ Abandons
  /\ UNCHANGED <<master, holds, slave, read, transfer>>

\* The calls end: i2cStart and i2cStop with their flag, i2cWriteByte with the
\* slave's answer, after a STOP if it is no, i2cReadByte with the byte.
Returns ==
  /\ \/ Does("started") /\ started' = TRUE /\ UNCHANGED transfer
     \/ Does("stopped") /\ started' = FALSE /\ UNCHANGED transfer
     \/ Does("acked") /\ UNCHANGED started
          /\ transfer' = IF read[1] = 1 THEN [transfer EXCEPT !.mode = "stopped"] ELSE transfer
     \/ Does("received") /\ UNCHANGED started
          /\ transfer' = [transfer EXCEPT !.received = Append(@, byteOf(read)),
                                          !.mode = IF call.byte = 1 THEN "nacked" ELSE @]
  /\ IF Does("acked") /\ read[1] = 1 THEN call' = At("stop", 0) ELSE Goes
  /\ UNCHANGED <<master, holds, slave, i2cTimeoutOccurred, internalTimeoutOccurred, read, timeouts>>

Next ==
  \/ i2cStart \/ i2cStop
  \/ \E byte \in Bytes : i2cWriteByte(byte)
  \/ \E nack \in {0, 1} : i2cReadByte(nack)
  \/ MasterPin \/ Sample \/ SclIsHigh \/ TimeIsUp \/ Returns
  \/ SlaveLetsSclGo

Spec == Init /\ [][Next]_vars

-----------------------------------------------------------------------------
\* Between two calls of a transfer the slave has the bytes the program wrote
\* and the program those the slave sent, however SCL was held, or else the
\* program sees i2cTimeoutOccurred (i2c.c, i2cWriteByte and i2cReadByte).
BytesArrive ==
  call = NoCall /\ transfer.mode # "none" /\ ~i2cTimeoutOccurred =>
    /\ slave.got = transfer.sent
    /\ slave.mode = "idle" <=> transfer.mode \in {"stopped", "nacked"}
    /\ transfer.received = IF transfer.mode = "read" THEN Front(slave.sent) ELSE slave.sent

\* The slave sees a START only in i2cStart and a STOP only where the program
\* makes one, for SDA changes while SCL is low everywhere else, until a wait
\* has timed out (i2c.c, the comment at i2cWriteBit).
NoFalseStart ==
  [][/\ slave'.mode = "address" /\ slave'.got = <<>> /\ slave'.bits = <<>> /\ slave' # slave
          => call.name = "start" \/ i2cTimeoutOccurred
     /\ slave'.mode = "idle" /\ slave.mode # "idle" /\ call.name = "start" => i2cTimeoutOccurred
    ]_vars

\* i2c.c says of the internal flag that it is cleared "so an earlier timeout
\* doesn't affect a later call": a call ends early only by a timeout of its own.
EarlierTimeoutIsForgotten ==
  [][call # NoCall /\ ~IsLast /\ call' = NoCall => timeouts' = timeouts + 1]_vars
=============================================================================

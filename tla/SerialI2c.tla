----------------------------- MODULE SerialI2c -----------------------------
(***************************************************************************)
(* apps/serial_i2c: commands that come as bytes over the radio, the UART   *)
(* or USB become operations on an I2C bus: S, an address and a length      *)
(* begin a write or a read, P ends it, E asks for the errors.  Every byte  *)
(* read, and the answer to E, waits for room to be sent back, and nothing  *)
(* else is done while it waits.  The calls of i2c.lib are external: each   *)
(* may meet a low clock line and time out, and a write is acknowledged or  *)
(* not.                                                                    *)
(***************************************************************************)
EXTENDS Naturals

CONSTANTS
  Bytes,           \* the bytes the host sends: commands, addresses, lengths and data
  CMD_START, CMD_STOP, CMD_GET_ERRORS,
  CmdTimeout       \* param_cmd_timeout_ms in ticks; the clock stops one after it

VARIABLES
  state, started, dataDirIsRead, dataLength,
  errors,          \* some bit of errors is set
  response,        \* a byte that was read, or the errors
  returnResponse,
  sinceLastCmd,
  i2cTimeoutOccurred,
  pc,              \* the half of i2cService that comes next
  parsed           \* what parseCmd did with the last byte

vars == <<state, started, dataDirIsRead, dataLength, errors, response, returnResponse,
          sinceLastCmd, i2cTimeoutOccurred, pc, parsed>>

commandVars == <<state, started, dataDirIsRead, dataLength>>
answerVars == <<response, returnResponse>>

Init ==
  /\ state = "IDLE" /\ started = FALSE /\ dataDirIsRead = FALSE /\ dataLength = 0
  /\ errors = FALSE /\ response = "byte" /\ returnResponse = FALSE
  /\ sinceLastCmd = 0 /\ i2cTimeoutOccurred = FALSE
  /\ pc = "serve" /\ parsed = "nothing"

-----------------------------------------------------------------------------
\* A call of i2c.lib may set the flag; none clears it.
MayTimeOut == i2cTimeoutOccurred' \in {i2cTimeoutOccurred, TRUE}

Respond(answer) == response' = answer /\ returnResponse' = TRUE

ParseIdle(byte) ==
  \/ /\ byte = CMD_GET_ERRORS
     /\ Respond("errors") /\ errors' = FALSE
     /\ UNCHANGED <<commandVars, i2cTimeoutOccurred>>
  \/ /\ byte = CMD_START
     /\ MayTimeOut
     /\ started' = TRUE /\ state' = "GET_ADDR"
     /\ UNCHANGED <<dataDirIsRead, dataLength, errors, answerVars>>
  \/ /\ byte = CMD_STOP /\ started
     /\ MayTimeOut
     /\ started' = FALSE
     /\ UNCHANGED <<state, dataDirIsRead, dataLength, errors, answerVars>>
  \/ /\ byte \notin {CMD_GET_ERRORS, CMD_START} /\ ~(byte = CMD_STOP /\ started)
     /\ errors' = TRUE
     /\ UNCHANGED <<commandVars, answerVars, i2cTimeoutOccurred>>

\* i2cWriteByte, and what parseCmd makes of its outcome.
Write ==
  \E timeout \in {i2cTimeoutOccurred, TRUE}, nack \in BOOLEAN :
    /\ errors' = (errors \/ timeout \/ nack)
    /\ i2cTimeoutOccurred' = FALSE
    /\ parsed' = "written"

ByteDone ==
  /\ dataLength' = dataLength - 1
  /\ state' = IF dataLength' = 0 THEN "IDLE" ELSE state
  /\ UNCHANGED <<started, dataDirIsRead>>

ParseAddress(byte) ==
  /\ Write
  /\ dataDirIsRead' = (byte % 2 = 1) /\ state' = "GET_LEN"
  /\ UNCHANGED <<started, dataLength, answerVars>>

ParseLength(byte) ==
  /\ dataLength' = byte /\ state' = IF byte > 0 THEN "GET_DATA" ELSE "IDLE"
  /\ UNCHANGED <<started, dataDirIsRead, errors, answerVars, i2cTimeoutOccurred>>

ParseData ==
  /\ IF dataDirIsRead
     THEN /\ errors' = TRUE /\ parsed' = "refused"
          /\ UNCHANGED <<commandVars, i2cTimeoutOccurred>>
     ELSE Write /\ ByteDone
  /\ UNCHANGED answerVars

parseCmd(byte) ==
  /\ \/ state = "IDLE" /\ ParseIdle(byte) /\ parsed' = "command"
     \/ state = "GET_ADDR" /\ ParseAddress(byte)
     \/ state = "GET_LEN" /\ ParseLength(byte) /\ parsed' = "length"
     \/ state = "GET_DATA" /\ ParseData
  /\ sinceLastCmd' = 0

\* Mutant: the last byte of a read is left to the host.
ReadIsDueButLast == dataDirIsRead /\ state = "GET_DATA" /\ dataLength > 1

ReadIsDue == dataDirIsRead /\ state = "GET_DATA"

\* Mutant: a byte that could not be read is not counted.
ReadDoneUnlessTimeout(timeout) == IF timeout THEN UNCHANGED commandVars ELSE ByteDone

ReadDone(timeout) == ByteDone

i2cRead ==
  /\ ReadIsDue
  /\ \E timeout \in {i2cTimeoutOccurred, TRUE} :
       /\ Respond("byte")
       /\ errors' = (errors \/ timeout)
       /\ ReadDone(timeout)
  /\ i2cTimeoutOccurred' = FALSE
  /\ UNCHANGED <<sinceLastCmd, parsed>>

\* A byte is there.
CommandComes ==
  /\ ~ReadIsDue
  /\ \E byte \in Bytes : parseCmd(byte)

\* No byte is there.
CommandTimesOut ==
  /\ ~ReadIsDue /\ started /\ sinceLastCmd > CmdTimeout
  /\ MayTimeOut
  /\ started' = FALSE /\ errors' = TRUE
  /\ UNCHANGED <<state, dataDirIsRead, dataLength, answerVars, sinceLastCmd, parsed>>

NothingToDo ==
  /\ returnResponse \/ (~ReadIsDue /\ ~(started /\ sinceLastCmd > CmdTimeout))
  /\ UNCHANGED <<commandVars, errors, answerVars, sinceLastCmd, i2cTimeoutOccurred, parsed>>

i2cServiceServes ==
  /\ pc = "serve" /\ pc' = "send"
  /\ \/ ~returnResponse /\ (i2cRead \/ CommandComes \/ CommandTimesOut)
     \/ NothingToDo

\* There is room for the answer that waits.
i2cServiceSends ==
  /\ pc = "send" /\ pc' = "serve"
  /\ returnResponse /\ returnResponse' = FALSE
  /\ UNCHANGED <<commandVars, errors, response, sinceLastCmd, i2cTimeoutOccurred, parsed>>

i2cServiceDoesNotSend ==
  /\ pc = "send" /\ pc' = "serve"
  /\ UNCHANGED <<commandVars, errors, answerVars, sinceLastCmd, i2cTimeoutOccurred, parsed>>

uartCheckErrors ==
  /\ pc = "serve"
  /\ errors' = TRUE
  /\ UNCHANGED <<commandVars, answerVars, sinceLastCmd, i2cTimeoutOccurred, pc, parsed>>

Millisecond ==
  /\ sinceLastCmd <= CmdTimeout /\ sinceLastCmd' = sinceLastCmd + 1
  /\ UNCHANGED <<commandVars, errors, answerVars, i2cTimeoutOccurred, pc, parsed>>

Service == i2cServiceServes \/ i2cServiceSends \/ i2cServiceDoesNotSend
Next == Service \/ uartCheckErrors \/ Millisecond
Spec == Init /\ [][Next]_vars

\* main calls the service again and again, and what is sent makes room again.
Fairness ==
  /\ WF_<<pc, commandVars, answerVars>>(i2cServiceServes \/ i2cServiceDoesNotSend)
  /\ SF_<<pc, answerVars>>(i2cServiceSends)

-----------------------------------------------------------------------------
\* What a comment of parseCmd says should never happen does not: no byte of
\* the host is taken while the bytes of a read are still to be sent back
\* (i2cService, i2cRead).
NoByteIsRefused == parsed # "refused"

\* A read goes through all its bytes, also when the bus times out in it, and
\* each of them is sent (i2cRead, i2cService).
ReadsEnd ==
  /\ ReadIsDue ~> state = "IDLE"
  /\ returnResponse ~> ~returnResponse

\* A command that timed out is over: an address or a byte of data is written
\* to the bus only between a start and a stop ("The current command has timed
\* out", i2cService).
WritesAreStarted ==
  [][(state = "GET_ADDR" \/ (state = "GET_DATA" /\ ~dataDirIsRead))
       /\ <<state', dataLength'>> # <<state, dataLength>> => started]_vars
=============================================================================

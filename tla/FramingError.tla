---------------------------- MODULE FramingError ----------------------------
(***************************************************************************)
(* apps/wireless_serial_jws: after a framing error the UART's receiver is  *)
(* switched off until its line has been high for a while; the red LED      *)
(* shows that, and errors that occurred of late.  Moments are the low byte *)
(* of the time.  One turn of main's loop is one step, and so is a          *)
(* millisecond.                                                            *)
(***************************************************************************)
EXTENDS Naturals

CONSTANTS
  param_framing_error_ms,
  RecentError,   \* 100 ms
  UINT8,         \* the number of values of a uint8
  MaxGap         \* the milliseconds from one turn of the loop to the next, at most

VARIABLES
  line,                     \* P1_7 is high
  uart1RxBufferFullOccurred, uart1RxFramingErrorOccurred,
  framingErrorActive, uartRxDisabled,
  sinceRxLow, sinceError,   \* the time less lastRxLowTime and lastErrorTime
  errorOccurredRecently, redLed,
  gap,                      \* since the last turn
  highFor                   \* since the receiver was switched off or the line seen low

uartVars == <<uart1RxBufferFullOccurred, uart1RxFramingErrorOccurred>>
errorVars == <<framingErrorActive, uartRxDisabled, errorOccurredRecently, redLed>>
vars == <<line, uartVars, errorVars, sinceRxLow, sinceError, gap, highFor>>

Init ==
  /\ line = TRUE
  /\ uart1RxBufferFullOccurred = FALSE /\ uart1RxFramingErrorOccurred = FALSE
  /\ framingErrorActive = FALSE /\ uartRxDisabled = FALSE
  /\ sinceRxLow = 0 /\ sinceError = 0
  /\ errorOccurredRecently = FALSE /\ redLed = FALSE
  /\ gap = 0 /\ highFor = 0

-----------------------------------------------------------------------------
\* updateLeds comes first in the turn; then errorService looks at the errors
\* of the UART, and at the line.

RecentlyStill == errorOccurredRecently /\ sinceError <= RecentError

SwitchesOff == uart1RxFramingErrorOccurred /\ param_framing_error_ms > 0
Active == uart1RxFramingErrorOccurred \/ framingErrorActive

\* errorOccurred is called.
ErrorOccurred == uart1RxBufferFullOccurred \/ uart1RxFramingErrorOccurred \/ (Active /\ ~line)

\* Mutant: the moment the line was low is that of the last framing error.
RestartsWaitNotByError == uartRxDisabled /\ ~line

\* lastRxLowTime is now.
RestartsWait == SwitchesOff \/ (uartRxDisabled /\ ~line)

\* Mutant: the line is taken as low in every turn.
LineWasHighNever == FALSE

LineWasHigh == line /\ ~SwitchesOff /\ sinceRxLow > param_framing_error_ms

errorService ==
  /\ uart1RxBufferFullOccurred' = FALSE /\ uart1RxFramingErrorOccurred' = FALSE
  /\ framingErrorActive' = (Active /\ ~line)
  /\ sinceError' = IF ErrorOccurred THEN 0 ELSE sinceError
  /\ errorOccurredRecently' = (ErrorOccurred \/ RecentlyStill)
  /\ sinceRxLow' = IF RestartsWait THEN 0 ELSE sinceRxLow
  /\ uartRxDisabled' = (SwitchesOff \/ (uartRxDisabled /\ ~LineWasHigh))
  /\ highFor' = IF SwitchesOff \/ ~line THEN 0 ELSE highFor

Turn ==
  /\ redLed' = (RecentlyStill \/ uartRxDisabled)
  /\ errorService
  /\ gap' = 0 /\ UNCHANGED line

Millisecond ==
  /\ gap < MaxGap /\ gap' = gap + 1
  /\ sinceRxLow' = (sinceRxLow + 1) % UINT8 /\ sinceError' = (sinceError + 1) % UINT8
  /\ highFor' = IF highFor > param_framing_error_ms THEN highFor ELSE highFor + 1
  /\ UNCHANGED <<line, uartVars, errorVars>>

LineChanges ==
  /\ line' = ~line
  /\ UNCHANGED <<uartVars, errorVars, sinceRxLow, sinceError, gap, highFor>>

\* The receiver sees no stop bit, or a byte too many.
FramingErrorComes ==
  /\ ~line /\ ~uartRxDisabled
  /\ uart1RxFramingErrorOccurred' = TRUE
  /\ UNCHANGED <<line, uart1RxBufferFullOccurred, errorVars, sinceRxLow, sinceError, gap, highFor>>

BufferIsFull ==
  /\ ~uartRxDisabled
  /\ uart1RxBufferFullOccurred' = TRUE
  /\ UNCHANGED <<line, uart1RxFramingErrorOccurred, errorVars, sinceRxLow, sinceError, gap, highFor>>

Next == Turn \/ Millisecond \/ LineChanges \/ FramingErrorComes \/ BufferIsFull
Spec == Init /\ [][Next]_vars

\* The loop turns, time passes.
Fairness == WF_vars(Turn) /\ WF_<<gap, sinceRxLow>>(Millisecond)

-----------------------------------------------------------------------------
\* The receiver is not switched on before the line was high for longer than
\* param_framing_error_ms, from the error itself on, also when an old moment
\* is left of an error before it (errorService, lastRxLowTime).
NotBackEarly ==
  [][uartRxDisabled /\ ~uartRxDisabled' => line /\ highFor > param_framing_error_ms]_vars

\* With the line high the receiver is switched on in the end, however large
\* the parameter is that the loop's pace leaves room for in a byte
\* (errorService).
ReceiverComesBack == uartRxDisabled ~> ~uartRxDisabled \/ ~line
=============================================================================

------------------------------- MODULE Board -------------------------------
(***************************************************************************)
(* libraries/src/wixel and usb/green_led.c: the millisecond clock of Timer *)
(* 4, which the program reads byte by byte, the check of VBUS, made at     *)
(* most once in CheckPeriod milliseconds by a clock of one byte, and the   *)
(* green LED on the same pin.  The pin, Timer 4 and USB are external.      *)
(***************************************************************************)
EXTENDS Naturals

CONSTANTS
  UINT8, UINT32,       \* the number of values of a byte and of timeMs
  CheckPeriod, Hold, BlinkBit,  \* 25, 96 and 64 in the code
  MaxGap               \* the program calls each service at least this often

VARIABLES
  timeMs, T4IE, T4IF,
  pc, oldT4IE, time,               \* the program in getMs, and its locals
  timing,                          \* T4IE as the program set it, before getMs
  vbus, vbusHighBit, lastCheck,
  greenLed,                        \* the pin is an output driving low
  usbDeviceState, usbActivityFlag, usbBlinkActive, usbLastActivity, usbBlinkStart,
  used,                            \* the services the program calls
  age, gap, quiet                  \* milliseconds since the check, since each
                                   \* service and since the last activity

clockVars == <<timeMs, T4IE, T4IF, pc, oldT4IE, time, timing>>
vbusVars == <<vbus, vbusHighBit, lastCheck, age>>
ledVars == <<greenLed, usbDeviceState, usbActivityFlag, usbBlinkActive, usbLastActivity,
             usbBlinkStart, quiet>>
vars == <<clockVars, vbusVars, ledVars, gap, used>>

Init ==
  /\ timeMs = 0 /\ T4IE \in BOOLEAN /\ timing = T4IE /\ T4IF = FALSE
  /\ pc = "main" /\ oldT4IE = FALSE /\ time = 0
  /\ vbus \in BOOLEAN /\ vbusHighBit = FALSE /\ lastCheck = UINT8 \div 2
  /\ greenLed = FALSE
  /\ usbDeviceState = "DETACHED" /\ usbActivityFlag = FALSE /\ usbBlinkActive = FALSE
  /\ usbLastActivity = 0 /\ usbBlinkStart = 0
  /\ age = UINT8 /\ used \in SUBSET {"vbus", "led"} /\ gap = [s \in used |-> 1] /\ quiet = 0

\* The LED has had its last blink by then.
Quiet == Hold + 3 * MaxGap

UpTo(limit, n) == IF n < limit THEN n + 1 ELSE limit
Byte(n) == n % UINT8
Since(now, then) == Byte(now + UINT8 - then)

-----------------------------------------------------------------------------
\* time.c

ISR_T4 ==
  /\ T4IF /\ T4IE
  /\ T4IF' = FALSE
  /\ timeMs' = (timeMs + 1) % UINT32
  /\ age' = UpTo(UINT8, age) /\ quiet' = UpTo(Quiet + 1, quiet)
  /\ gap' = [s \in used |-> gap[s] + 1]
  /\ UNCHANGED <<T4IE, pc, oldT4IE, time, timing, vbus, vbusHighBit, lastCheck, greenLed,
                 usbDeviceState, usbActivityFlag, usbBlinkActive, usbLastActivity, usbBlinkStart, used>>

\* A millisecond.  The interrupt comes before the next one.
Timer4 ==
  /\ ~T4IF /\ \A s \in used : gap[s] < MaxGap
  /\ T4IF' = TRUE
  /\ UNCHANGED <<timeMs, T4IE, pc, oldT4IE, time, timing, vbusVars, ledVars, gap, used>>

timeInit ==
  /\ pc = "main"
  /\ T4IE' = TRUE /\ timing' = TRUE
  /\ UNCHANGED <<timeMs, T4IF, pc, oldT4IE, time, vbusVars, ledVars, gap, used>>

\* Mutant: Timer 4 may interrupt the copy.
UnmaskedCopy == T4IE

\* T4IE during the copy.
MaskedCopy == FALSE

\* Mutant: the copy leaves Timer 4 on, as timeInit does.
RestoredOn == TRUE

\* T4IE after the copy.
RestoredMask == oldT4IE

\* The copy has two steps, of the lower byte and of the rest.
getMs ==
  /\ \/ pc = "main" /\ pc' = "low" /\ oldT4IE' = T4IE /\ T4IE' = MaskedCopy /\ time' = 0
     \/ pc = "low" /\ pc' = "high" /\ time' = Byte(timeMs) /\ UNCHANGED <<oldT4IE, T4IE>>
     \/ pc = "high" /\ pc' = "copied" /\ time' = time + timeMs - Byte(timeMs)
          /\ UNCHANGED <<oldT4IE, T4IE>>
     \/ pc = "copied" /\ pc' = "main" /\ T4IE' = RestoredMask /\ time' = 0 /\ oldT4IE' = FALSE
  /\ UNCHANGED <<timeMs, T4IF, timing, vbusVars, ledVars, gap, used>>

-----------------------------------------------------------------------------
\* board.c.  Only the byte of the time counts; the pin is the LED's again.

CheckIsDue == Since(Byte(timeMs), lastCheck) > CheckPeriod

usbPowerPresent ==
  /\ pc = "main" /\ "vbus" \in used
  /\ gap' = [gap EXCEPT !.vbus = 0]
  /\ IF CheckIsDue
     THEN vbusHighBit' = vbus /\ lastCheck' = Byte(timeMs) /\ age' = 0
     ELSE UNCHANGED <<vbusHighBit, lastCheck, age>>
  /\ UNCHANGED <<clockVars, vbus, ledVars, used>>

VbusChanges ==
  /\ vbus' = ~vbus
  /\ UNCHANGED <<clockVars, vbusHighBit, lastCheck, age, ledVars, gap, used>>

-----------------------------------------------------------------------------
\* green_led.c.  The frame number of USB counts the milliseconds too.

Frame == Byte(timeMs)

Recorded ==
  IF usbActivityFlag
  THEN [active |-> TRUE, last |-> Frame, start |-> IF usbBlinkActive THEN usbBlinkStart ELSE Frame]
  ELSE [active |-> usbBlinkActive, last |-> usbLastActivity, start |-> usbBlinkStart]

BlinkEnds(blink) == Since(Frame, blink.last) > Hold

Bit(n, bit) == (n \div bit) % 2 = 1

usbShowStatusWithGreenLed ==
  /\ pc = "main" /\ "led" \in used
  /\ gap' = [gap EXCEPT !.led = 0]
  /\ usbActivityFlag' = FALSE
  /\ usbLastActivity' = Recorded.last /\ usbBlinkStart' = Recorded.start
  /\ \/ /\ usbDeviceState \in {"SUSPENDED", "DETACHED"}
        /\ greenLed' = FALSE /\ usbBlinkActive' = Recorded.active
     \/ /\ usbDeviceState = "CONFIGURED"
        /\ greenLed' = IF Recorded.active THEN Bit(Since(Frame, Recorded.start), BlinkBit) ELSE TRUE
        /\ usbBlinkActive' = (Recorded.active /\ ~BlinkEnds(Recorded))
     \/ /\ usbDeviceState = "ADDRESS"
        /\ greenLed' = Bit(timeMs, 8 * BlinkBit) /\ usbBlinkActive' = Recorded.active
  /\ UNCHANGED <<clockVars, vbusVars, usbDeviceState, quiet, used>>

UsbActivity ==
  /\ usbDeviceState = "CONFIGURED" /\ pc = "main"
  /\ usbActivityFlag' = TRUE /\ quiet' = 0
  /\ UNCHANGED <<clockVars, vbusVars, greenLed, usbDeviceState, usbBlinkActive, usbLastActivity,
                 usbBlinkStart, gap, used>>

UsbState ==
  /\ pc = "main"
  /\ usbDeviceState' \in {"DETACHED", "ADDRESS", "CONFIGURED", "SUSPENDED"} \ {usbDeviceState}
  /\ quiet' = 0
  /\ UNCHANGED <<clockVars, vbusVars, greenLed, usbActivityFlag, usbBlinkActive, usbLastActivity,
                 usbBlinkStart, gap, used>>

Next ==
  \/ ISR_T4 \/ Timer4 \/ timeInit \/ getMs
  \/ usbPowerPresent \/ VbusChanges
  \/ usbShowStatusWithGreenLed \/ UsbActivity \/ UsbState

Spec == Init /\ [][Next]_vars

-----------------------------------------------------------------------------
\* The bytes of a time belong together, whenever the timer runs out during the
\* copy, and after the call the interrupt of Timer 4 is masked or not as it was
\* before, also in a program that reads the time before timeInit (time.c,
\* getMs).
TimeIsExact ==
  /\ pc = "copied" => time = timeMs
  /\ pc = "main" => T4IE = timing

\* What usbPowerPresent says of VBUS is not older than the period of the
\* check, however the clock of one byte wraps (board.c, boardDetectVbus).
VbusIsRecent == "vbus" \in used /\ gap.vbus = 0 => age <= CheckPeriod

\* The LED of a configured device is on when nothing has happened on USB for
\* longer than it blinks, however the frame number wraps (green_led.c).
SteadyWhenQuiet ==
  "led" \in used /\ gap.led = 0 /\ usbDeviceState = "CONFIGURED" /\ quiet > Quiet => greenLed

BoardIsExact == TimeIsExact /\ VbusIsRecent /\ SteadyWhenQuiet
=============================================================================

--------------------------- MODULE WirelessSerial ---------------------------
(***************************************************************************)
(* apps/wireless_serial_jws: a Wixel that is a bridge between USB, UART    *)
(* and radio while it has USB power and drives a robot while it has not:   *)
(* after the key g the robot draws a square, then it obeys the keys that   *)
(* come by radio.  One turn of main's loop is one step; the services of    *)
(* the libraries in it have modules of their own.                          *)
(***************************************************************************)
EXTENDS Naturals, Sequences, SequencesExt

CONSTANTS
  param_serial_mode,
  Keys,         \* the bytes that come by radio: names of keys, and others
  MaxReceived,  \* the bytes radio_com holds
  MaxKeys,      \* bound: bytes that are sent to the robot
  MaxPlugs,     \* bound: changes of the power supply
  Forward, Turning, Braking, Begin   \* 1500, 333, 100 and 250 ms

VARIABLES
  usbPower, vinPower,
  currentSerialMode,
  waitForKeyPressToStart, state,
  waitAtLeastThisLong,
  elapsed,              \* getMs() - currentTimeInMsec
  motors,               \* what the pins 0 to 3 tell the motor driver
  set_pwm, duty,        \* duty: T3CC0 and T3CC1
  received,             \* bytes radio_com holds
  keys, plugs

squareVars == <<waitForKeyPressToStart, state, waitAtLeastThisLong, elapsed>>
robotVars == <<motors, set_pwm, duty>>
vars == <<usbPower, vinPower, currentSerialMode, squareVars, robotVars, received, keys, plugs>>

Init ==
  /\ usbPower \in BOOLEAN /\ vinPower \in BOOLEAN
  /\ currentSerialMode = 0
  /\ waitForKeyPressToStart = TRUE /\ state = 0
  /\ waitAtLeastThisLong = Braking /\ elapsed = 0
  /\ motors = "off" /\ set_pwm = FALSE /\ duty = "full"
  /\ received = <<>> /\ keys = 0 /\ plugs = 0

-----------------------------------------------------------------------------
updateSerialMode ==
  IF param_serial_mode \in 1..3 THEN param_serial_mode
  ELSE IF ~usbPower THEN 2
  ELSE IF vinPower THEN 3 ELSE 1

\* USB takes as many of the received bytes as it has room for.
usbToRadioService ==
  /\ \E n \in 0..Len(received) : received' = SubSeq(received, n + 1, Len(received))
  /\ UNCHANGED <<squareVars, robotVars>>

\* Nothing is taken from the radio.
usbToUartService == UNCHANGED <<squareVars, robotVars, received>>

Slow == "slow"   \* 125; a power that is set counts until the next turn
Driven == [w |-> "forward", s |-> "backward", a |-> "left", d |-> "right", space |-> "brake"]

\* One byte of the loop in uartToRadioService: after p comes the power.
Obeyed(robot, key) ==
  IF robot.set_pwm THEN [robot EXCEPT !.set_pwm = FALSE, !.duty = key]
  ELSE [robot EXCEPT !.set_pwm = (key = "p"),
                     !.motors = IF key \in DOMAIN Driven THEN Driven[key] ELSE @]

uartToRadioService ==
  /\ LET robot == FoldLeft(Obeyed, [motors |-> motors, set_pwm |-> set_pwm, duty |-> Slow], received)
     IN  motors' = robot.motors /\ set_pwm' = robot.set_pwm /\ duty' = robot.duty
  /\ received' = <<>>
  /\ UNCHANGED squareVars

\* The first byte is taken whatever it is; g begins the square.
WaitsForG ==
  /\ waitForKeyPressToStart
  /\ received' = IF received = <<>> THEN received ELSE Tail(received)
  /\ IF received # <<>> /\ received[1] = "g"
     THEN /\ waitForKeyPressToStart' = FALSE
          /\ elapsed' = 0 /\ waitAtLeastThisLong' = Begin
     ELSE UNCHANGED <<waitForKeyPressToStart, elapsed, waitAtLeastThisLong>>
  /\ duty' = Slow
  /\ UNCHANGED <<state, motors, set_pwm>>

\* Mutant: the last leg, which brakes, is left out.
DrawsSquareShort == ~waitForKeyPressToStart /\ state < 8

DrawsSquare == ~waitForKeyPressToStart /\ state <= 8

Leg ==
  /\ DrawsSquare /\ duty' = Slow
  /\ IF elapsed > waitAtLeastThisLong
     THEN /\ motors' = IF state = 8 THEN "brake" ELSE IF state % 2 = 0 THEN "forward" ELSE "left"
          /\ waitAtLeastThisLong' = IF state = 8 THEN Braking ELSE IF state % 2 = 0 THEN Forward ELSE Turning
          /\ elapsed' = 0 /\ state' = state + 1
     ELSE UNCHANGED <<motors, waitAtLeastThisLong, elapsed, state>>
  /\ UNCHANGED <<waitForKeyPressToStart, set_pwm, received>>

Manual == ~waitForKeyPressToStart /\ ~DrawsSquare /\ uartToRadioService

Turn ==
  /\ currentSerialMode' = updateSerialMode
  /\ CASE currentSerialMode' = 1 -> usbToRadioService
       [] currentSerialMode' = 2 -> WaitsForG \/ Leg \/ Manual
       [] currentSerialMode' = 3 -> usbToUartService
  /\ UNCHANGED <<usbPower, vinPower, keys, plugs>>

\* Time enough for every wait is as good as more of it.
Millisecond ==
  /\ elapsed' = IF elapsed > Forward THEN elapsed ELSE elapsed + 1
  /\ UNCHANGED <<usbPower, vinPower, currentSerialMode, waitForKeyPressToStart, state,
                 waitAtLeastThisLong, robotVars, received, keys, plugs>>

ByteComes ==
  /\ keys < MaxKeys /\ keys' = keys + 1
  /\ Len(received) < MaxReceived
  /\ \E k \in Keys : received' = Append(received, k)
  /\ UNCHANGED <<usbPower, vinPower, currentSerialMode, squareVars, robotVars, plugs>>

PowerChanges ==
  /\ plugs < MaxPlugs /\ plugs' = plugs + 1
  /\ usbPower' \in BOOLEAN /\ vinPower' \in BOOLEAN
  /\ UNCHANGED <<currentSerialMode, squareVars, robotVars, received, keys>>

Next == Turn \/ Millisecond \/ ByteComes \/ PowerChanges
Spec == Init /\ [][Next]_vars

\* The loop turns, time passes.
Fairness ==
  /\ WF_<<currentSerialMode, squareVars, robotVars, received>>(Turn)
  /\ WF_elapsed(Millisecond)

-----------------------------------------------------------------------------
\* The square ends: a robot that draws it is braked in the end, wherever it
\* was plugged in and out meanwhile, unless it stays on USB, and whatever
\* keys come (main, states 0 to 8).
SquareEnds == state \in 1..8 ~> usbPower \/ (state > 8 /\ motors = "brake")
=============================================================================

------------------------------- MODULE Servo -------------------------------
(***************************************************************************)
(* libraries/src/servo: six servos share the three channels of Timer 1.    *)
(* Seven periods of the timer make a round: in one the pulses of port 0    *)
(* are made, in one those of port 1, and the interrupt at every overflow   *)
(* prepares the next.  A compare register takes its new value when the     *)
(* timer overflows.  The program runs between the interrupts; what it does *)
(* with T1IE clear is one step.  Channels are the internal numbers.        *)
(***************************************************************************)
EXTENDS Naturals, Sequences

CONSTANTS
  Pins,          \* the pin lists the program starts with
  Targets,       \* the targets of each channel
  Speeds,
  UINT16         \* the number of values of a register

VARIABLES
  servosStarted, servosMovingFlag, servoCounter,
  servoAssignment,      \* the channels of the program's numbers
  servoData,            \* of each channel: target, position, positionReg, speed
  servoPins,            \* the channels used (servoPinsOnPort0, servoPinsOnPort1)
  SEL,                  \* the channels whose pin Timer 1 drives (P0SEL, P1SEL)
  T1CC, active,         \* the compare registers and the values in use
  T1IE, T1IF, T1on, T1CFG,
  early,                \* the pulses of the period are yet to come
  stopping,             \* the call that waits in servosStop for the overflow
  pulses,               \* of each channel, the widths of its pulses in this round
  due                   \* the position loaded for it, or 0

timerVars == <<SEL, T1CC, active, T1IE, T1IF, T1on, T1CFG, early>>
dataVars == <<servosMovingFlag, servoData, servoAssignment, servoPins>>
ghostVars == <<pulses, due>>
vars == <<servosStarted, servoCounter, dataVars, timerVars, stopping, ghostVars>>

Channels == DOMAIN Targets
Port(c) == c \div 3
Timer(c) == c % 3
Timers == {Timer(c) : c \in Channels}
Disabled == [t \in Timers |-> UINT16 - 1]
Neg(n) == (UINT16 - n) % UINT16
NoData == [target |-> 0, position |-> 0, positionReg |-> 0, speed |-> 0]

Init ==
  /\ servosStarted = FALSE /\ servosMovingFlag = FALSE /\ servoCounter = 0
  /\ servoAssignment = <<>>
  /\ servoData = [c \in Channels |-> NoData]
  /\ servoPins = {} /\ SEL = {}
  /\ T1CC = [t \in Timers |-> 0] /\ active = [t \in Timers |-> 0]
  /\ T1IE = FALSE /\ T1IF = FALSE /\ T1on = FALSE /\ T1CFG = 0
  /\ early = FALSE /\ stopping = <<>>
  /\ pulses = [c \in Channels |-> <<>>]
  /\ due = [c \in Channels |-> 0]

-----------------------------------------------------------------------------
\* The interrupt.

Up(d) == d.target > d.position
Gap(d) == IF Up(d) THEN d.target - d.position ELSE d.position - d.target

\* Mutant: the last step is as long as the others.
MovesPast(d) == d.speed # 0 /\ d.position # 0 /\ Gap(d) > 0

\* The speed limit leaves the servo a whole step on its way.
Moves(d) == d.speed # 0 /\ d.position # 0 /\ Gap(d) >= d.speed

UpdatePosition(d) ==
  LET position == IF Moves(d) THEN IF Up(d) THEN d.position + d.speed ELSE d.position - d.speed
                  ELSE d.target
  IN  [d EXCEPT !.position = position, !.positionReg = Neg(position)]

Load(port) ==
  /\ T1CFG' = port
  /\ SEL' = SEL \cup {c \in servoPins : Port(c) = port}
  /\ T1CC' = [t \in Timers |-> IF 3 * port + t \in Channels
                               THEN servoData[3 * port + t].positionReg ELSE 0]
  /\ due' = [c \in Channels |-> IF Port(c) # port THEN due[c]
                                ELSE IF c \in servoPins THEN servoData[c].position ELSE 0]
  /\ UNCHANGED <<servoData, servosMovingFlag>>

\* Mutant: the registers keep the widths they had.
DisableNever ==
  UNCHANGED <<T1CC, SEL, T1CFG, servoData, servosMovingFlag, due>>

Disable ==
  /\ T1CC' = Disabled
  /\ UNCHANGED <<SEL, T1CFG, servoData, servosMovingFlag, due>>

Unselect(port) ==
  /\ SEL' = SEL \ {c \in servoPins : Port(c) = port}
  /\ UNCHANGED <<T1CC, T1CFG, servoData, servosMovingFlag, due>>

UpdatePositions ==
  /\ servosMovingFlag' = \E c \in Channels : Moves(servoData[c])
  /\ servoData' = [c \in Channels |-> UpdatePosition(servoData[c])]
  /\ UNCHANGED <<T1CC, SEL, T1CFG, due>>

ISR_T1 ==
  /\ T1IF /\ T1IE
  /\ T1IF' = FALSE
  /\ servoCounter' = (servoCounter + 1) % 7
  /\ \/ servoCounter = 0 /\ Load(0)
     \/ servoCounter = 3 /\ Load(1)
     \/ servoCounter \in {1, 4} /\ Disable
     \/ servoCounter = 2 /\ Unselect(0)
     \/ servoCounter = 5 /\ Unselect(1)
     \/ servoCounter = 6 /\ UpdatePositions
  /\ pulses' = IF servoCounter = 0 THEN [c \in Channels |-> <<>>] ELSE pulses
  /\ UNCHANGED <<servosStarted, servoAssignment, servoPins, active, T1IE, T1on, early,
                 stopping>>

-----------------------------------------------------------------------------
\* Timer 1: the time of the pulses, which the interrupt comes long before, and
\* the overflow that ends them.  A compare value of 0 or -1 makes no pulse.

PulseOf(c) ==
  IF c \in SEL /\ Port(c) = T1CFG /\ active[Timer(c)] \notin {0, UINT16 - 1}
  THEN <<Neg(active[Timer(c)])>> ELSE <<>>

\* Mutant: servosStop does not wait.
OverflowCameAlways == TRUE

\* while (!T1IF) {}
OverflowCame == T1IF

StopSel == SEL \ servoPins

PulseTime ==
  /\ T1on /\ early
  /\ ~(T1IF /\ T1IE) /\ ~(OverflowCame /\ stopping # <<>>)
  /\ early' = FALSE
  /\ pulses' = [c \in Channels |-> pulses[c] \o PulseOf(c)]
  /\ UNCHANGED <<servosStarted, servoCounter, dataVars, SEL, T1CC, active, T1IE, T1IF, T1on,
                 T1CFG, stopping, due>>

Overflow ==
  /\ T1on /\ ~early
  /\ early' = TRUE
  /\ active' = T1CC
  /\ T1IF' = TRUE
  /\ UNCHANGED <<servosStarted, servoCounter, dataVars, SEL, T1CC, T1IE, T1on, T1CFG,
                 stopping, ghostVars>>

-----------------------------------------------------------------------------
\* The program.

\* The null argument keeps the pins, positions and speeds.  NULL and STOP, of
\* pins that no servo has, stand for it and for the call of servosStop.
NULL == <<16>>
STOP == <<17>>

pinToInternalChannelNumber(pin) ==
  CASE pin \in 2..4 -> pin - 2
    [] pin \in 10..12 -> 15 - pin
    [] OTHER -> 0

StartTimer(pins, sel) ==
  /\ IF pins = NULL
     THEN SEL' = sel /\ UNCHANGED <<servoData, servoAssignment, servoPins>>
     ELSE /\ servoData' = [c \in Channels |-> NoData]
          /\ servoAssignment' = [i \in DOMAIN pins |-> pinToInternalChannelNumber(pins[i])]
          /\ servoPins' = {servoAssignment'[i] : i \in DOMAIN pins}
          /\ SEL' = sel \ servoPins'
  /\ early' = TRUE
  /\ servoCounter' = 0
  /\ T1CC' = Disabled /\ active' = Disabled
  /\ T1on' = TRUE
  /\ T1IE' = TRUE
  /\ servosStarted' = TRUE
  /\ pulses' = [c \in Channels |-> <<>>]
  /\ due' = [c \in Channels |-> 0]
  /\ UNCHANGED <<servosMovingFlag, T1IF, T1CFG>>

servosStart(pins) ==
  /\ stopping = <<>>
  /\ IF servosStarted
     THEN /\ T1IE' = FALSE
          /\ stopping' = <<pins>>
          /\ UNCHANGED <<servosStarted, servoCounter, dataVars, SEL, T1CC, active, T1IF, T1on,
                         T1CFG, early, pulses, due>>
     ELSE StartTimer(pins, SEL) /\ UNCHANGED stopping

servosStop ==
  /\ stopping = <<>> /\ servosStarted
  /\ T1IE' = FALSE
  /\ stopping' = <<STOP>>
  /\ UNCHANGED <<servosStarted, servoCounter, dataVars, SEL, T1CC, active, T1IF, T1on,
                 T1CFG, early, ghostVars>>

\* The overflow has come; a start goes on from here.
StopsAtOverflow ==
  /\ stopping # <<>> /\ OverflowCame
  /\ IF stopping = <<STOP>>
     THEN /\ SEL' = StopSel
          /\ T1on' = FALSE /\ servosStarted' = FALSE
          /\ early' = FALSE
          /\ UNCHANGED <<servoCounter, dataVars, T1CC, active, T1IE, T1IF, T1CFG, pulses, due>>
     ELSE StartTimer(stopping[1], StopSel)
  /\ stopping' = <<>>

Number(n) == stopping = <<>> /\ n \in DOMAIN servoAssignment

\* Mutant: the flag is left to the interrupt.
StartsMovingNever(d, target) == FALSE

StartsMoving(d, target) ==
  ~(d.speed = 0 \/ d.target = 0 \/ target = 0) /\ target # d.position

servoSetTargetHighRes(n) ==
  /\ Number(n)
  /\ LET c == servoAssignment[n]
         d == servoData[c]
     IN  \E target \in Targets[c] :
           /\ servoData' = [servoData EXCEPT ![c] =
                IF d.speed = 0 \/ d.target = 0 \/ target = 0
                THEN [d EXCEPT !.target = target, !.position = target, !.positionReg = Neg(target)]
                ELSE [d EXCEPT !.target = target]]
           /\ servosMovingFlag' = (servosMovingFlag \/ StartsMoving(d, target))
  /\ T1IE' = servosStarted
  /\ UNCHANGED <<servosStarted, servoCounter, servoAssignment, servoPins, SEL, T1CC, active,
                 T1IF, T1on, T1CFG, early, stopping, ghostVars>>

servoSetSpeed(n) ==
  /\ Number(n)
  /\ \E speed \in Speeds :
       servoData' = [servoData EXCEPT ![servoAssignment[n]].speed = speed]
  /\ T1IE' = servosStarted
  /\ UNCHANGED <<servosStarted, servosMovingFlag, servoCounter, servoAssignment, servoPins, SEL,
                 T1CC, active, T1IF, T1on, T1CFG, early, stopping, ghostVars>>

Next ==
  \/ ISR_T1 \/ PulseTime \/ Overflow
  \/ \E pins \in Pins \cup {NULL} : servosStart(pins)
  \/ servosStop \/ StopsAtOverflow
  \/ \E n \in DOMAIN servoAssignment : servoSetTargetHighRes(n) \/ servoSetSpeed(n)

Spec == Init /\ [][Next]_vars

-----------------------------------------------------------------------------
\* When the library says that no servo moves, every servo is at its target,
\* whenever targets and speeds were set (servo.h, servosMoving).
NotMovingMeansThere ==
  ~servosMovingFlag => \A c \in Channels : servoData[c].position = servoData[c].target

\* The channels share the timer and its registers: in a round the pin of every
\* servo has one pulse, of the position that was loaded for it, and no pin has
\* any other (servo.c, ISR(T1)).
OwnPulse(c) == IF due[c] = 0 THEN <<>> ELSE <<due[c]>>
PulseIsOwn ==
  \A c \in Channels :
    /\ pulses[c] \in {<<>>, OwnPulse(c)}
    /\ servoCounter = 6 => pulses[c] = OwnPulse(c)

\* A pulse is not cut short: the pins leave the timer, and the timer its
\* place, before the pulses of the period (servo.c, servosStop).
PulsesAreWhole ==
  [][(SEL \ SEL' # {} \/ T1CFG' # T1CFG) => early]_vars

\* A servo goes towards its target, at most by its speed limit in a round, and
\* not past it: a last step that is shorter than the others ends there, also
\* when the target or the speed has changed on the way (servo.c, ISR(T1)).
Approaches(d, position) ==
  /\ IF Up(d) THEN position \in d.position .. d.target ELSE position \in d.target .. d.position
  /\ d.speed # 0 /\ d.position # 0 =>
       position <= d.position + d.speed /\ d.position <= position + d.speed
NeverPastTarget ==
  [][ISR_T1 => \A c \in Channels : Approaches(servoData[c], servoData'[c].position)]_vars
=============================================================================

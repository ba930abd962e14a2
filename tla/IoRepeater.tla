----------------------------- MODULE IoRepeater -----------------------------
(***************************************************************************)
(* apps/io_repeater: Wixels that repeat the levels of their input pins on  *)
(* the output pins of others.  A pin's link parameter is negative for an   *)
(* input and positive for an output; a packet has a byte for every input   *)
(* pin, its link in bits 0 to 6 and its level in bit 7.  The packets go    *)
(* through radio_queue, which may lose them.                               *)
(***************************************************************************)
EXTENDS Integers, Sequences, FiniteSetsExt

CONSTANTS
  Links,      \* Links[w][pin]: the link parameter, of -127 to 127
  Intervals,  \* what txInterval may be: 7 to 10 ms
  QueueSize,  \* packets radio_queue holds, in each direction
  UINT8,      \* the number of values of a uint8
  MaxGap      \* the milliseconds from one turn of a loop to the next, at most

Wixels == DOMAIN Links
Pins(w) == DOMAIN Links[w]
Inputs(w) == {pin \in Pins(w) : Links[w][pin] < 0}
Outputs(w) == {pin \in Pins(w) : Links[w][pin] > 0}
Senders == {w \in Wixels : Inputs(w) # {}}

VARIABLES
  level,        \* level[w][pin]
  sending,      \* radio_queue's packets to be sent, by Wixel
  arrived,      \* and those received and not looked at
  sinceTx,      \* getMs() - lastTx
  txInterval,
  gap           \* since the Wixel's last turn

vars == <<level, sending, arrived, sinceTx, txInterval, gap>>

\* configurePins: an output is low, an input is pulled high.
Init ==
  /\ level = [w \in Wixels |-> [pin \in Pins(w) |-> IF pin \in Outputs(w) THEN 0 ELSE 1]]
  /\ sending = [w \in Wixels |-> <<>>] /\ arrived = [w \in Wixels |-> <<>>]
  /\ sinceTx = [w \in Senders |-> 0] /\ txInterval = [w \in Senders |-> 0]
  /\ gap = [w \in Wixels |-> 0]

-----------------------------------------------------------------------------
\* Mutant: the link is not negated; a negative one, as a byte, has bit 7 set.
PinByteSigned(w, pin) == 128 + (Links[w][pin] % 128)

PinByte(w, pin) == -Links[w][pin] + 128 * level[w][pin]

\* The inputs in the order of their pins.
InputAt(w, i) == CHOOSE pin \in Inputs(w) : Cardinality({p \in Inputs(w) : p <= pin}) = i
readPins(w) == [i \in 1..Cardinality(Inputs(w)) |-> PinByte(w, InputAt(w, i))]

\* The last byte of a link counts.
Naming(packet, link) == {i \in DOMAIN packet : packet[i] % 128 = link}
LevelOf(packet, link, old) ==
  IF Naming(packet, link) = {} THEN old ELSE packet[Max(Naming(packet, link))] \div 128
setPins(w, packet) ==
  level' = [level EXCEPT ![w] = [pin \in Pins(w) |->
              IF pin \in Outputs(w) THEN LevelOf(packet, Links[w][pin], @[pin]) ELSE @[pin]]]

Receives(w) == Outputs(w) # {} /\ arrived[w] # <<>>
Transmits(w) == w \in Senders /\ sinceTx[w] > txInterval[w] /\ Len(sending[w]) < QueueSize

\* One turn of main's loop.
Turn(w) ==
  /\ IF Receives(w)
     THEN setPins(w, Head(arrived[w])) /\ arrived' = [arrived EXCEPT ![w] = Tail(@)]
     ELSE UNCHANGED <<level, arrived>>
  /\ IF Transmits(w)
     THEN /\ sending' = [sending EXCEPT ![w] = Append(@, readPins(w))]
          /\ sinceTx' = [sinceTx EXCEPT ![w] = 0]
          /\ \E ms \in Intervals : txInterval' = [txInterval EXCEPT ![w] = ms]
     ELSE UNCHANGED <<sending, sinceTx, txInterval>>
  /\ gap' = [gap EXCEPT ![w] = 0]

Millisecond ==
  /\ \A w \in Wixels : gap[w] < MaxGap
  /\ gap' = [w \in Wixels |-> gap[w] + 1]
  /\ sinceTx' = [w \in Senders |-> (sinceTx[w] + 1) % UINT8]
  /\ UNCHANGED <<level, sending, arrived, txInterval>>

\* A packet is on the air once: those that hear it and have room take it.
HeardBy(w, hearers) ==
  /\ sending[w] # <<>>
  /\ \A v \in hearers : Len(arrived[v]) < QueueSize
  /\ arrived' = [v \in Wixels |-> IF v \in hearers THEN Append(arrived[v], Head(sending[w]))
                                  ELSE arrived[v]]
  /\ sending' = [sending EXCEPT ![w] = Tail(@)]
  /\ UNCHANGED <<level, sinceTx, txInterval, gap>>

Heard(w) == \E hearers \in SUBSET (Wixels \ {w}) : HeardBy(w, hearers)

InputChanges ==
  /\ \E w \in Wixels : \E pin \in Inputs(w) : level' = [level EXCEPT ![w][pin] = 1 - @]
  /\ UNCHANGED <<sending, arrived, sinceTx, txInterval, gap>>

Next == Millisecond \/ InputChanges \/ \E w \in Wixels : Turn(w) \/ Heard(w)
Spec == Init /\ [][Next]_vars

Linked(w, pin, v, out) == pin \in Inputs(w) /\ out \in Outputs(v) /\ Links[v][out] = -Links[w][pin]

\* The loops turn, time passes, and of packets sent again and again every
\* listener hears some.
RadioFairness ==
  \A w \in Wixels : \A v \in Wixels \ {w} :
    /\ WF_<<sending, arrived>>(Heard(w))
    /\ SF_<<sending, arrived>>(\E hearers \in SUBSET (Wixels \ {w}) : v \in hearers /\ HeardBy(w, hearers))
Fairness ==
  /\ \A w \in Wixels : WF_<<level, sending, arrived, sinceTx, txInterval, gap>>(Turn(w))
  /\ WF_<<gap, sinceTx>>(Millisecond)
  /\ RadioFairness

-----------------------------------------------------------------------------
\* An output takes the level of the input it is linked with, once that stays,
\* and keeps it: packets may be lost, none that is older than the level comes
\* late (main, readPins, setPins).
OutputsFollow ==
  \A w, v \in Wixels : \A pin \in Pins(w), out \in Pins(v) :
    Linked(w, pin, v, out) =>
      \A high \in {0, 1} : <>[](level[w][pin] = high) => <>[](level[v][out] = high)
=============================================================================

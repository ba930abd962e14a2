---------------------------- MODULE Containers -----------------------------
(***************************************************************************)
(* libraries/src/queue, stack and reporting: containers in arrays, used    *)
(* from one thread, and the text wireless_serial_robot_jwsForStudents      *)
(* sends back, each beside the sequence it stands for.  The queue is       *)
(* a circle whose head is the slot before its first element; the buffer of *)
(* reports a circle whose head is the free slot, emptied into the radio or *)
(* into USB as far as there is room.  The text ends at an empty cell.      *)
(***************************************************************************)
EXTENDS Naturals, Sequences, SequencesExt

CONSTANTS
  Tuples,        \* what is pushed
  QContSize, SContSize, BUFSIZE,
  TxAvailable,   \* the room radio_com and usb_com announce
  Strings, bytesToTransmitPerCall, sizeOfCircularBuffer,
  NoTuple        \* an element nothing was put in; the NUL of the text

VARIABLES
  queue,                   \* head, tail and Qdata
  stack,                   \* top_idx and Sdata
  report,                  \* head, tail, the bytes and buffer_overflow
  text,                    \* circBuffReadIndex, circBuffWriteIndex, circularBuffer
  queued, stacked, written, unsent \* what they stand for

vars == <<queue, stack, report, text, queued, stacked, written, unsent>>
textVars == <<text, unsent>>

Init ==
  /\ queue = [head |-> 0, tail |-> 0, data |-> [i \in 0..QContSize - 1 |-> NoTuple]]
  /\ stack = [top |-> 0, data |-> [i \in 0..SContSize - 1 |-> NoTuple]]
  /\ report = [head |-> 0, tail |-> 0, data |-> [i \in 0..BUFSIZE - 1 |-> NoTuple],
               overflow |-> FALSE]
  /\ text = [read |-> 0, write |-> 0, data |-> [i \in 0..sizeOfCircularBuffer - 1 |-> NoTuple]]
  /\ queued = <<>> /\ stacked = <<>> /\ written = <<>> /\ unsent = <<>>

-----------------------------------------------------------------------------
\* queue.c

AfterSlot(i) == (i + 1) % QContSize
Put(q, t) == [q EXCEPT !.data[AfterSlot(q.tail)] = t, !.tail = AfterSlot(q.tail)]

QPush ==
  \E t \in Tuples :
    IF AfterSlot(queue.tail) # queue.head
    THEN queue' = Put(queue, t) /\ queued' = Append(queued, t)
    ELSE UNCHANGED <<queue, queued>>

\* Mutant: the head stays where it is when the oldest element is overwritten.
ForcedKeepsHead(q, t) == Put(q, t)

\* The queue is full: its oldest element makes room.
Forced(q, t) == [Put(q, t) EXCEPT !.head = AfterSlot(@)]

QPushForce ==
  \E t \in Tuples :
    IF AfterSlot(queue.tail) # queue.head
    THEN queue' = Put(queue, t) /\ queued' = Append(queued, t)
    ELSE queue' = Forced(queue, t) /\ queued' = Append(Tail(queued), t)

QPop ==
  /\ queue.head # queue.tail
  /\ queue' = [queue EXCEPT !.head = AfterSlot(@)]
  /\ queued' = Tail(queued)

-----------------------------------------------------------------------------
\* stack.c

SPush ==
  \E t \in Tuples :
    IF stack.top < SContSize
    THEN /\ stack' = [data |-> [stack.data EXCEPT ![stack.top] = t], top |-> stack.top + 1]
         /\ stacked' = Append(stacked, t)
    ELSE UNCHANGED <<stack, stacked>>

SPop ==
  /\ stack.top > 0
  /\ stack' = [stack EXCEPT !.top = @ - 1]
  /\ stacked' = Front(stacked)

-----------------------------------------------------------------------------
\* reporting.c

bufferempty == report.head = report.tail
bufferfull == (report.head + 1) % BUFSIZE = report.tail
Wrapped(i) == IF i < BUFSIZE - 1 THEN i + 1 ELSE 0

bufferdatasize ==
  IF bufferempty THEN 0 ELSE IF bufferfull THEN BUFSIZE - 1
  ELSE IF report.head > report.tail THEN report.head - report.tail
  ELSE BUFSIZE - report.tail + report.head

putchar ==
  \E c \in Tuples :
    IF bufferfull
    THEN report' = [report EXCEPT !.overflow = TRUE] /\ UNCHANGED written
    ELSE /\ report' = [report EXCEPT !.data[report.head] = c, !.head = Wrapped(@), !.overflow = FALSE]
         /\ written' = Append(written, c)

Take(n) ==
  /\ report' = [report EXCEPT !.tail = (@ + n) % BUFSIZE]
  /\ written' = SubSeq(written, n + 1, Len(written))

\* Both senders; an empty buffer gives getchar nothing to take.
SendReport(txAvailable) ==
  /\ ~bufferempty
  /\ Take(IF bufferdatasize >= txAvailable THEN txAvailable ELSE bufferdatasize)

sendReportRadio == \E n \in TxAvailable : SendReport(n)
sendReportUSB == \E n \in TxAvailable : SendReport(n)

-----------------------------------------------------------------------------
\* wireless_serial_robot_jwsForStudents.c.  Every cell that is sent is emptied;
\* the radio may have no room for some of them.

InText(i) == i % sizeOfCircularBuffer

Sent(t, n) ==
  [t EXCEPT !.read = InText(@ + n),
            !.data = [i \in DOMAIN @ |-> IF InText(i - t.read + sizeOfCircularBuffer) < n
                                        THEN NoTuple ELSE @[i]]]

Sendable(t, n) == \A i \in 0..n - 1 : t.data[InText(t.read + i)] # NoTuple

Stored(t, s) ==
  [t EXCEPT !.write = InText(@ + Len(s)),
            !.data = [i \in DOMAIN @ |->
                        LET at == InText(i - t.write + sizeOfCircularBuffer) + 1
                        IN  IF at <= Len(s) THEN s[at] ELSE IF at = Len(s) + 1 THEN NoTuple ELSE @[i]]]

transmits(t, all) ==
  \E n \in 0..bytesToTransmitPerCall :
    /\ Sendable(t, n)
    /\ text' = Sent(t, n)
    /\ unsent' = SubSeq(all, n + 1, Len(all))

transmitFromCircularBuffer == transmits(text, unsent)

\* "the code does NOT check if WRITE overwrites something not yet sent back":
\* the strings are as long as there is room for.
sendBackString ==
  \E s \in Strings :
    /\ Len(unsent) + Len(s) < sizeOfCircularBuffer
    /\ transmits(Stored(text, s), unsent \o s)

-----------------------------------------------------------------------------
Next ==
  \/ (QPush \/ QPushForce \/ QPop) /\ UNCHANGED <<textVars, stack, report, stacked, written>>
  \/ (SPush \/ SPop) /\ UNCHANGED <<textVars, queue, report, queued, written>>
  \/ putchar /\ UNCHANGED <<textVars, queue, stack, queued, stacked>>
  \/ (sendReportRadio \/ sendReportUSB) /\ UNCHANGED <<textVars, queue, stack, queued, stacked>>
  \/ (sendBackString \/ transmitFromCircularBuffer)
       /\ UNCHANGED <<queue, stack, report, queued, stacked, written>>

Spec == Init /\ [][Next]_vars

-----------------------------------------------------------------------------
Circle(data, first, n, size) == [i \in 1..n |-> data[(first + i - 1) % size]]
Distance(from, to, size) == (to - from + size) % size

\* Whatever was pushed, popped and forced in, the queue holds the newest
\* elements in their order, one less than its slots at most, the stack what
\* was not popped, and the buffer of reports what was written and not sent;
\* its size is told right wherever head and tail are; the text up to its empty
\* cell is what was not sent of the strings (queue.c, stack.c, reporting.c,
\* sendBackString).
ContentsAreRight ==
  /\ queued = Circle(queue.data, queue.head + 1, Distance(queue.head, queue.tail, QContSize),
                     QContSize)
  /\ Len(queued) < QContSize
  /\ stacked = [i \in 1..stack.top |-> stack.data[i - 1]]
  /\ written = Circle(report.data, report.tail, Distance(report.tail, report.head, BUFSIZE),
                      BUFSIZE)
  /\ bufferdatasize = Len(written)
  /\ unsent = Circle(text.data, text.read, Len(unsent), sizeOfCircularBuffer)
  /\ text.data[InText(text.read + Len(unsent))] = NoTuple
=============================================================================

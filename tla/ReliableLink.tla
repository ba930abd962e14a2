---------------------------- MODULE ReliableLink ----------------------------
(***************************************************************************)
(* What libraries/include/radio_link.h promises to the program above it:   *)
(* "reliable, ordered delivery and reception of a series of data packets   *)
(* between two Wixels".  Each direction is a pair of FIFO queues, the      *)
(* packets the sender still holds and the packets the receiver has not yet *)
(* read.  A packet is copied to the receiver once, then released by the    *)
(* sender.  A node that restarts forgets both of its queues, and the       *)
(* packet at the head of the other node's queue may then be copied again.  *)
(***************************************************************************)
EXTENDS Naturals, Sequences

CONSTANTS Node,     \* the two Wixels
          Payload   \* what a data packet carries

VARIABLES out,      \* out[n]: packets n was asked to send and still holds
          moved,    \* moved[n]: Head(out[n]) has been copied to the peer
          in        \* in[n]: packets received by n and not yet read

vars == <<out, moved, in>>

Peer(n) == CHOOSE m \in Node : m # n

Init == /\ out = [n \in Node |-> <<>>]
        /\ moved = [n \in Node |-> FALSE]
        /\ in = [n \in Node |-> <<>>]

\* The program hands a packet to the link.
Send(n) == /\ \E d \in Payload : out' = [out EXCEPT ![n] = Append(@, d)]
           /\ UNCHANGED <<moved, in>>

\* The oldest packet reaches the other side, once.
Move(n) == /\ out[n] # <<>> /\ ~moved[n]
           /\ in' = [in EXCEPT ![Peer(n)] = Append(@, Head(out[n]))]
           /\ moved' = [moved EXCEPT ![n] = TRUE]
           /\ UNCHANGED out

\* The sender lets go of a packet only after it was copied.
Release(n) == /\ moved[n]
              /\ out' = [out EXCEPT ![n] = Tail(@)]
              /\ moved' = [moved EXCEPT ![n] = FALSE]
              /\ UNCHANGED in

\* Release at n and copy at the peer in one radio event: the answer that
\* acknowledges n's packet carries a packet of the peer's own.
ReleaseAndMove(n) ==
  /\ moved[n] /\ out[Peer(n)] # <<>> /\ ~moved[Peer(n)]
  /\ out' = [out EXCEPT ![n] = Tail(@)]
  /\ moved' = [moved EXCEPT ![n] = FALSE, ![Peer(n)] = TRUE]
  /\ in' = [in EXCEPT ![n] = Append(@, Head(out[Peer(n)]))]

\* The program reads the oldest received packet.
Take(n) == /\ in[n] # <<>>
           /\ in' = [in EXCEPT ![n] = Tail(@)]
           /\ UNCHANGED <<out, moved>>

Restart(n) == /\ out' = [out EXCEPT ![n] = <<>>]
              /\ in' = [in EXCEPT ![n] = <<>>]
              /\ moved' = [m \in Node |-> FALSE]

Next == \E n \in Node : \/ Send(n) \/ Move(n) \/ Release(n)
                        \/ ReleaseAndMove(n) \/ Take(n) \/ Restart(n)

Spec == Init /\ [][Next]_vars

=============================================================================

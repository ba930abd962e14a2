----------------------------- MODULE RingProofs -----------------------------
(***************************************************************************)
(* What the operators of Ring return, for every size and every index.      *)
(***************************************************************************)
EXTENDS Ring, TLAPS

LEMMA SuccInRing ==
  ASSUME NEW c \in Nat, NEW i \in 0 .. c - 1
  PROVE  Succ(c, i) \in 0 .. c - 1
BY DEF Succ

LEMMA AheadInRing ==
  ASSUME NEW c \in Nat, NEW i \in 0 .. c - 1, NEW j \in 0 .. c - 1
  PROVE  /\ Ahead(c, i, j) \in 0 .. c - 1
         /\ Ahead(c, i, j) = 0 <=> i = j
BY DEF Ahead

(* The producer takes one step: the queue is one longer. *)
LEMMA AheadPush ==
  ASSUME NEW c \in Nat, NEW i \in 0 .. c - 1, NEW j \in 0 .. c - 1,
         Ahead(c, i, j) # c - 1
  PROVE  Ahead(c, i, Succ(c, j)) = Ahead(c, i, j) + 1
BY DEF Ahead, Succ

(* The consumer takes one step: the queue and every slot in it are one     *)
(* step nearer, and the slot it left is the farthest.                      *)
LEMMA AheadPop ==
  ASSUME NEW c \in Nat, NEW i \in 0 .. c - 1, NEW j \in 0 .. c - 1
  PROVE  /\ i # j => Ahead(c, Succ(c, i), j) = Ahead(c, i, j) - 1
         /\ i = j => Ahead(c, Succ(c, i), j) = c - 1
BY DEF Ahead, Succ

(* Slots at the same distance are the same slot. *)
LEMMA AheadInjective ==
  ASSUME NEW c \in Nat, NEW i \in 0 .. c - 1, NEW j \in 0 .. c - 1,
         NEW k \in 0 .. c - 1, Ahead(c, i, j) = Ahead(c, i, k)
  PROVE  j = k
BY DEF Ahead

=============================================================================

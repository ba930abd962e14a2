-------------------------------- MODULE Ring --------------------------------
(***************************************************************************)
(* Index arithmetic of the ring buffers that radio_link, radio_queue and   *)
(* uart keep between the main loop and an interrupt.  The code masks with  *)
(* size - 1 or wraps with an if; both are the same for the sizes it uses.  *)
(***************************************************************************)
EXTENDS Integers

\* The index after i in a ring of c buffers.
Succ(c, i) == IF i = c - 1 THEN 0 ELSE i + 1

\* Number of steps from index i forward to index j in a ring of c buffers.
Ahead(c, i, j) == IF j >= i THEN j - i ELSE (j - i) + c

=============================================================================

----------------------------- MODULE MCRadioLink -----------------------------
(***************************************************************************)
(* RadioLink on small instances: how many packets each Wixel queues in one *)
(* life and how many lives it has.                                         *)
(***************************************************************************)
EXTENDS RadioLink, TLC

CONSTANTS a, b   \* the two Wixels, as model values

MCNode == {a, b}
Symmetry == Permutations(MCNode)

PerNode(x, y) == (a :> x) @@ (b :> y)

Packets10 == PerNode(1, 0)
Packets11 == PerNode(1, 1)
Packets21 == PerNode(2, 1)
Packets22 == PerNode(2, 2)
Packets20 == PerNode(2, 0)
Packets30 == PerNode(3, 0)
Packets40 == PerNode(4, 0)
Boots11 == PerNode(1, 1)
Boots21 == PerNode(2, 1)
Boots12 == PerNode(1, 2)
Boots22 == PerNode(2, 2)

=============================================================================

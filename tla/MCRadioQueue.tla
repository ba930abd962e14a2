---------------------------- MODULE MCRadioQueue ----------------------------
(* RadioQueue on two Wixels, of which one accepts damaged packets. *)
EXTENDS RadioQueue, TLC

CONSTANTS a, b   \* the Wixels, as model values

MCNode == {a, b}
Packets11 == (a :> 1) @@ (b :> 1)
Packets30 == (a :> 3) @@ (b :> 0)
OnlyB == (a :> FALSE) @@ (b :> TRUE)

VARIABLE plan   \* the bounds a behaviour keeps

\* Only one Wixel sends, and more than there are buffers.
OneWay == INSTANCE RadioQueue WITH MaxPackets <- Packets30

MCInit == plan \in {"both ways", "one way"} /\ Init

MCNext ==
  /\ UNCHANGED plan
  /\ IF plan = "both ways" THEN Next ELSE OneWay!Next

MCSpec == MCInit /\ [][MCNext]_<<plan, vars>> /\ Fairness

\* Whatever is queued is transmitted, however busy the channel is.
AllIsAired ==
  /\ plan = "both ways" => QueuedIsAired
  /\ plan = "one way" => OneWay!QueuedIsAired
=============================================================================

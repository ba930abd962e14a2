-------------------------- MODULE MCRadioComPlans --------------------------
\* RadioCom under two sets of bounds, one of them to a behaviour.
EXTENDS MCRadioCom

VARIABLE plan   \* the bounds a behaviour keeps

\* The same two Wixels, of which the receiver restarts and hears its peer's
\* Reset twice.
Restarting == INSTANCE RadioCom WITH MaxBytes <- None, MaxChanges <- OneFromA,
                MaxBoots <- ReceiverRestarts, ResetCopies <- 2

MCInit ==
  \/ plan = "stream" /\ Init
  \/ plan = "restart" /\ Restarting!Init

MCNext ==
  /\ UNCHANGED plan
  /\ IF plan = "stream" THEN Next ELSE Restarting!Next

MCSpec == MCInit /\ [][MCNext]_<<plan, vars>> /\ Fairness

\* Bytes of a stream arrive in the end, and the control signals also at a
\* Wixel that has restarted (radioComTxService).
ArriveInTheEnd ==
  /\ plan = "stream" => BytesArrive
  /\ plan = "restart" => SignalsArrive
=============================================================================

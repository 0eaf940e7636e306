----------------------------- MODULE TargetLife -----------------------------
(***************************************************************************)
(* What a Target promises its parent: the life of the child objects of a   *)
(* PromotionRun as the PromotionRunReconciler sees it.  A child waits for  *)
(* its gates, applies, and ends Converged, Failed or Skipped; the parent   *)
(* asks for an end by setting spec.cancelled and withdraws that by         *)
(* persisting the spec again.  Target implements this module (see          *)
(* TargetRefinement) and PromotionRun is built on it.                      *)
(***************************************************************************)

CONSTANTS Targets   \* keys of the child objects

VARIABLES
    life,       \* where each child stands, "none" before it is created
    cancelled,  \* spec.cancelled with its cancelledPhase
    asked       \* history: the phases some cancellation of the child has named

lifeVars == <<life, cancelled, asked>>

Ended == {"Converged", "Failed", "Skipped"}

Life == {"none", "waiting", "applying"} \cup Ended

LifeTypeOK ==
    /\ life \in [Targets -> Life]
    /\ cancelled \in [Targets -> {"no", "Failed", "Skipped"}]
    /\ asked \in [Targets -> SUBSET {"Failed", "Skipped"}]

LifeInit ==
    /\ life \in [Targets -> {"none", "waiting"}]
    /\ cancelled = [t \in Targets |-> "no"]
    /\ asked = [t \in Targets |-> {}]

-----------------------------------------------------------------------------
(* The child's own steps, each a write of its status.  As long as the      *)
(* child is cancelled only the flip is left to it.                         *)

Start(t) ==
    /\ life[t] = "waiting" /\ cancelled[t] = "no"
    /\ life' = [life EXCEPT ![t] = "applying"]
    /\ UNCHANGED <<cancelled, asked>>

Finish(t) ==
    /\ life[t] = "applying" /\ cancelled[t] = "no"
    /\ life' = [life EXCEPT ![t] = "Converged"]
    /\ UNCHANGED <<cancelled, asked>>

\* onFailure=continue of the gate ends in Skipped instead of Failed.
GiveUp(t) ==
    /\ life[t] \in {"waiting", "applying"} /\ cancelled[t] = "no"
    /\ \E p \in {"Failed", "Skipped"} : life' = [life EXCEPT ![t] = p]
    /\ UNCHANGED <<cancelled, asked>>

\* A child that has read a cancellation ends as it was told, from any phase,
\* even if the cancellation is withdrawn or changed meanwhile.
Flip(t, p) ==
    /\ life[t] # "none" /\ p \in asked[t]
    /\ life' = [life EXCEPT ![t] = p]
    /\ UNCHANGED <<cancelled, asked>>

-----------------------------------------------------------------------------
(* The parent's writes, for the children in S.                             *)

Ask(S, p) ==
    /\ cancelled' = [t \in Targets |-> IF t \in S THEN p ELSE cancelled[t]]
    /\ asked' = [t \in Targets |-> IF t \in S THEN asked[t] \cup {p} ELSE asked[t]]
    /\ UNCHANGED life

\* persistPromotionTargets: children are created, cancellations withdrawn.
Keep(new, withdrawn) ==
    /\ life' = [t \in Targets |-> IF t \in new /\ life[t] = "none" THEN "waiting" ELSE life[t]]
    /\ cancelled' = [t \in Targets |-> IF t \in withdrawn THEN "no" ELSE cancelled[t]]
    /\ UNCHANGED asked

ChildStep(t) == Start(t) \/ Finish(t) \/ GiveUp(t) \/ Flip(t, "Failed") \/ Flip(t, "Skipped")

LifeNext ==
    \/ \E t \in Targets : ChildStep(t)
    \/ \E S \in SUBSET Targets, p \in {"Failed", "Skipped"} : Ask(S, p)
    \/ \E new, withdrawn \in SUBSET Targets : Keep(new, withdrawn)

LifeSpec == LifeInit /\ [][LifeNext]_lifeVars
=============================================================================

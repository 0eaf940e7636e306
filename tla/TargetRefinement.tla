-------------------------- MODULE TargetRefinement --------------------------
(***************************************************************************)
(* Target implements TargetLife.  The phases before Applying are one phase *)
(* of the abstract child, and a history variable, asked, remembers which   *)
(* cancellations its object has carried: a reconcile may act on one that   *)
(* has been withdrawn.                                                     *)
(***************************************************************************)
EXTENDS Target

VARIABLE asked   \* history: cancelledPhases that spec.cancelled has come with

LifeOf(o) ==
    CASE o.status.phase \in Terminal   -> o.status.phase
      [] o.status.phase = "Applying"   -> "applying"
      [] OTHER                         -> "waiting"

CancelOf(o) == IF o.cancelled THEN o.cancelledPhase ELSE "no"

Child == INSTANCE TargetLife WITH
            life      <- [t \in Targets |-> LifeOf(obj[t])],
            cancelled <- [t \in Targets |-> CancelOf(obj[t])]

Remember ==
    asked' = [t \in Targets |-> asked[t] \cup ({CancelOf(obj'[t])} \ {"no"})]

HInit == Init /\ asked = [t \in Targets |-> {}]

HNext == Next /\ Remember

HSpec == HInit /\ [][HNext]_<<vars, asked>>

HFairSpec == HSpec /\ Fairness

\* A Target behaves as its parent relies on: it starts, converges or gives up
\* only while it is not cancelled, whichever stale copy its reconcile worked
\* on, and it leaves an end only for one some cancellation has named.
ImplementsLife == Child!LifeSpec
=============================================================================

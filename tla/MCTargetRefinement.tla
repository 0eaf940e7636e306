------------------------- MODULE MCTargetRefinement -------------------------
(* The instance of MCTarget with the history TargetRefinement adds.        *)
EXTENDS TargetRefinement

CONSTANTS t1, c1, r1

MCRunOf == [t \in Targets |-> r1]
MCClusterOf == [t \in Targets |-> c1]
=============================================================================

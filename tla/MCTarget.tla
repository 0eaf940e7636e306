------------------------------ MODULE MCTarget ------------------------------
(* Instances of Target: one target of one run on one cluster, against the  *)
(* writers that share its object.                                          *)
EXTENDS Target

CONSTANTS t1, c1, r1

MCRunOf == [t \in Targets |-> r1]
MCClusterOf == [t \in Targets |-> c1]
=============================================================================

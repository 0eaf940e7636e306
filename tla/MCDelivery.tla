----------------------------- MODULE MCDelivery -----------------------------
(* Two runs that promote two versions to one cluster.                      *)
EXTENDS Delivery, TLC

CONSTANTS r1, r2, v1, v2

MCVersionOf == (r1 :> v1) @@ (r2 :> v2)
=============================================================================

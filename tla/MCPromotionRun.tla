--------------------------- MODULE MCPromotionRun ---------------------------
(* Instances of PromotionRun: a plan of one stage with two clusters, and a *)
(* plan that depends on it, of two stages, the second of which waits for   *)
(* the first and its soak time.                                            *)
EXTENDS PromotionRun, TLC

CONSTANTS c1, c2

MCPlans == <<"p1", "p2">>
MCPlanDeps == [p1 |-> {}, p2 |-> {"p1"}]
MCStagesOf == [p1 |-> <<"canary">>, p2 |-> <<"prod", "edge">>]
MCStageDeps ==
    [canary |-> {}, prod |-> {},
     edge |-> {[stage |-> "prod", strategy |-> "all", soak |-> TRUE]}]
MCSelected == [canary |-> {c1, c2}, prod |-> {c1}, edge |-> {c2}]
MCRank == (c1 :> 1) @@ (c2 :> 2)
MCMaxParallel == [canary |-> 1, prod |-> 0, edge |-> 0]
MCOnFailure == [canary |-> "halt", prod |-> "skip", edge |-> "rollback"]
=============================================================================

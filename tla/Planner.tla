------------------------------- MODULE Planner -------------------------------
(***************************************************************************)
(* The planner (pkg/planner) and the stage that is planned with it in      *)
(* every reconcile of a PromotionRun: which clusters take part, in which   *)
(* order, which of them get a target now, and what the stage's phase is.   *)
(*                                                                         *)
(* Planner plugins answer over the network, while the plugin controller    *)
(* registers and removes others.  The run has one stage, whose failure     *)
(* policy is halt; PromotionRun has the targets and the other policies.    *)
(***************************************************************************)
EXTENDS Integers, FiniteSets, Sequences, Functions, FiniteSetsExt, SequencesExt

CONSTANTS
    Clusters,     \* the clusters the stage selects, numbered in the order of names
    Plugins,
    Scores,       \* scores a plugin may give
    MaxScore,
    MaxParallel,
    MaxChanges,   \* bound: changes of clusters and of the registry
    MaxFaults     \* bound: failed calls and lost updates

VARIABLES
    plugins,      \* the registered planner plugins
    cluster,      \* what each cluster's status says
    cycle,        \* the reconcile in progress
    target,       \* the phase of each cluster's target
    stage,        \* the stage's phase in the run's status
    published,    \* the stage events published
    changes, faults

vars == <<plugins, cluster, cycle, target, stage, published, changes, faults>>

-----------------------------------------------------------------------------
Status == {"ok", "suspended", "unready", "claimed"}
Phases == {"Progressing", "Complete", "Failed"}

Idle == [pc |-> "idle", listed |-> [c \in {} |-> "ok"], plugins |-> {},
         answer |-> [p \in {} |-> {}], plan |-> <<>>, phase |-> "Progressing"]

\* Every variable stays in its type.
TypeOK ==
    /\ plugins \subseteq Plugins
    /\ cluster \in [Clusters -> Status]
    /\ cycle.pc \in {"idle", "plan", "bind", "patch"} /\ cycle.plugins \subseteq Plugins
    /\ cycle.plan \in Seq(Clusters) /\ cycle.phase \in Phases
    /\ target \in [Clusters -> {"none", "active", "Converged", "Failed"}]
    /\ stage \in Phases \union {""}
    /\ published \subseteq {"entered", "completed"}
    /\ changes \in 0..MaxChanges /\ faults \in 0..MaxFaults

Init ==
    /\ plugins \in SUBSET Plugins
    /\ cluster = [c \in Clusters |-> "ok"]
    /\ cycle = Idle
    /\ target = [c \in Clusters |-> "none"]
    /\ stage = "" /\ published = {}
    /\ changes = 0 /\ faults = 0

-----------------------------------------------------------------------------
(* One planning cycle.                                                     *)

\* The clusters are listed without the suspended ones; the plugins of the cycle
\* are those registered now.
listRawTargets ==
    /\ cycle.pc = "idle" /\ stage \notin {"Complete", "Failed"}
    /\ cycle' = [Idle EXCEPT !.pc = "plan", !.plugins = plugins,
          !.listed = [c \in {d \in Clusters : cluster[d] # "suspended"} |-> cluster[c]]]
    /\ UNCHANGED <<plugins, cluster, target, stage, published, changes, faults>>

\* Each planner plugin is called once and its answer kept for the cycle: the
\* targets it skips or defers, and its scores.
PreFilter(p) ==
    /\ cycle.pc = "plan" /\ p \in cycle.plugins \ DOMAIN cycle.answer
    /\ \E a \in [refused : SUBSET DOMAIN cycle.listed, score : [DOMAIN cycle.listed -> Scores]] :
         cycle' = [cycle EXCEPT !.answer = [q \in DOMAIN @ \union {p} |->
                                              IF q = p THEN a ELSE cycle.answer[q]]]
    /\ UNCHANGED <<plugins, cluster, target, stage, published, changes, faults>>

\* Fault: the registry is read while the cycle runs; a plugin that has not been
\* called admits everything.
CurrentPlugins == plugins \intersect DOMAIN cycle.answer

snapshot == cycle.plugins

\* A cluster takes part when it is not reported unready, is not claimed by
\* another run and no plugin skips or defers it.
Filter(c) ==
    /\ cycle.listed[c] = "ok"
    /\ \A p \in snapshot : c \notin cycle.answer[p].refused

clampScore(n) == Max({0, Min({n, MaxScore})})

\* The sum over all plugins is cut off at MaxScore as well.
Total(c) == clampScore(SumFunction([p \in snapshot |-> clampScore(cycle.answer[p].score[c])]))

Before(c, d) ==
    \/ Total(c) > Total(d)
    \/ Total(c) = Total(d) /\ c < d

\* The clusters S, the best first.
InOrder(S) ==
    [i \in 1..Cardinality(S) |-> CHOOSE c \in S : Cardinality({d \in S : d = c \/ Before(d, c)}) = i]

PlanWithResult ==
    /\ cycle.pc = "plan" /\ DOMAIN cycle.answer = cycle.plugins
    /\ cycle' = [cycle EXCEPT !.pc = "bind",
          !.plan = InOrder({c \in DOMAIN cycle.listed : Filter(c)})]
    /\ UNCHANGED <<plugins, cluster, target, stage, published, changes, faults>>

-----------------------------------------------------------------------------
(* The stage.                                                              *)

Planned == ToSet(cycle.plan)
Terminal == {"Converged", "Failed"}

\* Up to MaxParallel planned targets are under way; the first of the others get
\* theirs.
applyStageStrategy ==
    LET active == {c \in Planned : target[c] \notin Terminal \union {"none"}}
        unbound == SelectSeq(cycle.plan, LAMBDA c : target[c] = "none")
        capacity == Max({0, MaxParallel - Cardinality(active)})
    IN  ToSet(SubSeq(unbound, 1, Min({capacity, Len(unbound)})))

\* Fault: a stage whose targets have converged takes over their phase.
PhaseOfTargets ==
    IF \E c \in Planned : target[c] = "Failed" THEN "Failed"
    ELSE IF \A c \in Planned : target[c] = "Converged" THEN "Converged"
    ELSE "Progressing"

\* Targets of clusters that are not planned count for nothing; a stage without
\* planned clusters is complete.
StagePhase ==
    IF \E c \in Planned : target[c] = "Failed" THEN "Failed"
    ELSE IF \A c \in Planned : target[c] = "Converged" THEN "Complete"
    ELSE "Progressing"

\* An empty stage is completed without an event.
Events ==
    {e \in {"entered", "completed"} :
       \/ e = "completed" /\ StagePhase = "Complete" /\ stage # "Complete" /\ Planned # {}
       \/ e = "entered" /\ StagePhase = "Progressing" /\ stage \notin Phases}

\* The targets are created and the events published before the status is
\* patched.
reconcileStage ==
    /\ cycle.pc = "bind"
    /\ target' = [c \in Clusters |-> IF c \in applyStageStrategy THEN "active" ELSE target[c]]
    /\ published' = published \union Events
    /\ cycle' = [Idle EXCEPT !.pc = "patch", !.phase = StagePhase]
    /\ UNCHANGED <<plugins, cluster, stage, changes, faults>>

patchStage ==
    /\ cycle.pc = "patch"
    /\ stage' = cycle.phase
    /\ cycle' = Idle
    /\ UNCHANGED <<plugins, cluster, target, published, changes, faults>>

\* A plugin or a call fails, or the operator restarts.
failReconcile ==
    /\ cycle.pc # "idle" /\ faults < MaxFaults /\ faults' = faults + 1
    /\ cycle' = Idle
    /\ UNCHANGED <<plugins, cluster, target, stage, published, changes>>

-----------------------------------------------------------------------------
(* The others.                                                             *)

Change ==
    /\ changes < MaxChanges
    /\ changes' = changes + 1

\* The plugin controller registers a plugin that has become ready.
Upsert(p) ==
    /\ p \notin plugins /\ Change
    /\ plugins' = plugins \union {p}
    /\ UNCHANGED <<cluster, cycle, target, stage, published, faults>>

Unregister(p) ==
    /\ p \in plugins /\ Change
    /\ plugins' = plugins \ {p}
    /\ UNCHANGED <<cluster, cycle, target, stage, published, faults>>

\* A cluster is suspended, lost, claimed by another run, or back again.
reportCluster(c) ==
    /\ Change
    /\ \E s \in Status \ {cluster[c]} : cluster' = [cluster EXCEPT ![c] = s]
    /\ UNCHANGED <<plugins, cycle, target, stage, published, faults>>

\* The TargetReconciler ends a target.
endTarget(c) ==
    /\ target[c] = "active"
    /\ \E phase \in Terminal : target' = [target EXCEPT ![c] = phase]
    /\ UNCHANGED <<plugins, cluster, cycle, stage, published, changes, faults>>

Reconcile == \/ listRawTargets \/ PlanWithResult \/ reconcileStage \/ patchStage
             \/ \E p \in Plugins : PreFilter(p)

Next ==
    \/ Reconcile \/ failReconcile
    \/ \E p \in Plugins : Upsert(p) \/ Unregister(p)
    \/ \E c \in Clusters : reportCluster(c) \/ endTarget(c)

Spec == Init /\ [][Next]_vars

-----------------------------------------------------------------------------
(* Properties.                                                             *)

\* What is planned does not depend on what happens to the registry meanwhile:
\* it is what the plugins that were asked have let through, all of it, and a
\* cluster with a better total comes first (Framework.snapshot, PlanWithResult).
PlanIsAgreed ==
    cycle.pc = "bind" =>
       LET answers == {cycle.answer[p] : p \in DOMAIN cycle.answer}
           total(c) == SumFunction([p \in DOMAIN cycle.answer |-> Max({0, cycle.answer[p].score[c]})])
       IN  /\ Planned = {c \in DOMAIN cycle.listed :
                           cycle.listed[c] = "ok" /\ \A a \in answers : c \notin a.refused}
           /\ \A i, j \in DOMAIN cycle.plan : i < j /\ total(cycle.plan[i]) < total(cycle.plan[j])
                 => total(cycle.plan[i]) >= MaxScore

\* The stage ends, whatever the plugins answer from cycle to cycle and whatever
\* fails in between: a target that ends makes room for one that was deferred
\* (applyStageStrategy).
StageEnds == []<>(stage \in {"Complete", "Failed"})

=============================================================================

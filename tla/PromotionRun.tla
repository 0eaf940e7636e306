---------------------------- MODULE PromotionRun ----------------------------
(***************************************************************************)
(* The PromotionRunReconciler of internal/controller/                      *)
(* promotionrun_controller.go: one PromotionRun that walks its plans, the  *)
(* stages of each plan and the clusters of each stage in dependency order, *)
(* by creating and cancelling child Targets.  The children live as         *)
(* TargetLife says.                                                        *)
(*                                                                         *)
(* A reconcile reads the run and lists the children from informer caches   *)
(* (runSeen, seen), derives everything it is going to write from that one  *)
(* reading, and then writes: the skip requests, the children, the          *)
(* cancellations, the run's status.  The lists the later steps make anew   *)
(* come from the cache too.  Writes to different children commute with     *)
(* each other's steps, so each of these is one step here, which may fail   *)
(* after any part of it.  The status patch is a merge patch against the    *)
(* copy that was read.                                                     *)
(*                                                                         *)
(* A stage belongs to one plan.  Rank is the order the planner gives the   *)
(* clusters of every stage (Planner); a suspended cluster is not planned.  *)
(* Soak times end and the run times out at any time.  Cluster claims are   *)
(* the state of ClusterClaim, suspension of runs is in Promotion; events,  *)
(* conditions and the report are left out.                                 *)
(***************************************************************************)
EXTENDS Naturals, Sequences, FiniteSets

CONSTANTS
    Plans,        \* spec.plans, a sequence of plan nodes
    PlanDeps,     \* dependsOn of each plan node
    StagesOf,     \* spec.stages of each plan node's plan, a sequence
    StageDeps,    \* dependsOn of each stage: stage, strategy, soak time or none
    Clusters,     \* Cluster objects
    Selected,     \* the clusters the selector, fleet and scope leave to a stage
    Rank,         \* the planner's order of the clusters
    MaxParallel,  \* strategy.maxParallel of each stage, 0 for none
    OnFailure,    \* failure policy of each stage
    MaxFaults     \* bound: failed calls, restarts, time-outs, changed plans and
                  \* changes of a cluster's spec.suspend

PlanNames == {Plans[i] : i \in DOMAIN Plans}
StageSeq(p) == {StagesOf[p][i] : i \in DOMAIN StagesOf[p]}
Stages == UNION {StageSeq(p) : p \in PlanNames}

\* The names of a run's plans, and of a plan's stages, are unique; the children's
\* keys have the plan, so a stage belongs to one.
ASSUME ConstantsAssumption ==
    /\ Plans \in Seq(PlanNames)
    /\ \A p \in PlanNames : StagesOf[p] \in Seq(StageSeq(p))
    /\ \A p, q \in PlanNames : p # q => StageSeq(p) \cap StageSeq(q) = {}
    /\ IsFiniteSet(Clusters)
    /\ PlanDeps \in [PlanNames -> SUBSET PlanNames]
    /\ StageDeps \in [Stages -> SUBSET [stage : Stages, strategy : {"all", "any"}, soak : BOOLEAN]]
    /\ Selected \in [Stages -> SUBSET Clusters]
    /\ Rank \in [Clusters -> Nat]
    /\ \A c, d \in Clusters : Rank[c] = Rank[d] => c = d
    /\ MaxParallel \in [Stages -> Nat]
    /\ OnFailure \in [Stages -> {"halt", "skip", "rollback"}]
    /\ MaxFaults \in Nat

\* promotionTargetObjectName: one child per stage and cluster, and one more
\* for its rollback.
Targets ==
    {k \in [stage : Stages, cluster : Clusters, rollback : BOOLEAN] : k.cluster \in Selected[k.stage]}

VARIABLES
    run,        \* status.phase and the phase of each plan in status.planProgress
    runSeen,    \* the cache's copy of it
    life, cancelled, asked,  \* the children, see TargetLife
    seen,       \* the cache's copy of each child
    queued,     \* the run's key is queued, or a timer will queue it
    job,        \* the reconcile in progress
    away,       \* clusters whose spec.suspend is set
    absent,     \* history: clusters that have been suspended
    faults,     \* how many of the bounded events have happened
    soaked,     \* children that ended well longer ago than the required soak time
    succeeded,  \* history: children that have been Converged or Skipped
    troubled    \* history: the run timed out or a plan was missing or changed

Child == INSTANCE TargetLife

children == <<life, cancelled, asked>>
outside == <<away, absent, faults>>
history == <<soaked, succeeded, troubled>>
vars == <<run, runSeen, life, cancelled, asked, seen, queued, job, outside, history>>

-----------------------------------------------------------------------------
PlanPhase == {"", "Pending", "Progressing", "Complete", "Failed"}

Run == [phase : {"", "Progressing", "Complete", "Failed"},
        plan  : [PlanNames -> PlanPhase]]

Copy == [life : Child!Life, cancelled : {"no", "Failed", "Skipped"}]

Job == [pc    : {"idle", "start", "cancelAll", "skip", "persist", "halt", "patch"},
        was   : Run,             \* the copy the status patch is computed against
        next  : Run,             \* the status to write
        want  : SUBSET Targets,  \* the target buffer
        skip  : SUBSET Stages,   \* stages whose failed targets are to be skipped
        halt  : SUBSET Stages,   \* deferred cancellations
        again : BOOLEAN]         \* the reconcile asks for a requeue

NewRun == [phase |-> "", plan |-> [p \in PlanNames |-> ""]]

Idle == [pc |-> "idle", was |-> NewRun, next |-> NewRun, want |-> {},
         skip |-> {}, halt |-> {}, again |-> FALSE]

\* Every variable stays in its type.
TypeOK ==
    /\ run \in Run /\ runSeen \in Run
    /\ Child!LifeTypeOK
    /\ seen \in [Targets -> Copy]
    /\ queued \in BOOLEAN
    /\ job \in Job
    /\ away \in SUBSET Clusters
    /\ absent \in SUBSET Clusters
    /\ faults \in 0..MaxFaults
    /\ soaked \in SUBSET Targets /\ succeeded \in SUBSET Targets
    /\ troubled \in BOOLEAN

Init ==
    /\ run = NewRun /\ runSeen = NewRun
    /\ life = [k \in Targets |-> "none"]
    /\ cancelled = [k \in Targets |-> "no"]
    /\ asked = [k \in Targets |-> {}]
    /\ seen = [k \in Targets |-> [life |-> "none", cancelled |-> "no"]]
    /\ queued = TRUE
    /\ job = Idle
    /\ away = {}
    /\ absent = {}
    /\ faults = 0
    /\ soaked = {} /\ succeeded = {}
    /\ troubled = FALSE

Fault ==
    /\ faults < MaxFaults
    /\ faults' = faults + 1

-----------------------------------------------------------------------------
(* What a reconcile derives from the listed children.                      *)

\* loadPromotionTargets
Listed == {k \in Targets : seen[k].life # "none"}

\* planTargetsForStage: the selected clusters that are not suspended.
Planned(s) == Selected[s] \ away

\* Rows of a stage the observation loop counts: rollback rows are not left out.
Rows(s) == {k \in Listed : k.stage = s /\ k.cluster \in Planned(s)}

planningTargetTerminal(k) == seen[k].life \in Child!Ended

dependencyTargetSucceeded(k) == seen[k].life \in {"Converged", "Skipped"}

\* Fault: a target that failed counts as an end of the dependency.
EndedDependency(d) ==
    Cardinality({k \in Rows(d.stage) : planningTargetTerminal(k)}) >= Cardinality(Planned(d.stage))

stageDependencySatisfied(d) ==
    LET ok == {k \in Rows(d.stage) : dependencyTargetSucceeded(k)}
        rested == {k \in ok : d.soak => k \in soaked}
    IN  \/ Planned(d.stage) = {}
        \/ d.strategy = "any" /\ rested # {}
        \/ /\ d.strategy = "all" /\ rested = ok
           /\ Cardinality(ok) >= Cardinality(Planned(d.stage))

Eligible(s) == \A d \in StageDeps[s] : stageDependencySatisfied(d)

\* Fault: the children under way are not subtracted.
ForgetActive(s) ==
    IF MaxParallel[s] = 0 THEN Planned(s)
    ELSE LET free == Planned(s) \ {k.cluster : k \in Rows(s)} IN
         {c \in free : Cardinality({d \in free : Rank[d] < Rank[c]}) < MaxParallel[s]}

\* The first clusters in the planner's order, as many as there is room for.
Admit(free, capacity) ==
    {c \in free : Cardinality({d \in free : Rank[d] < Rank[c]}) < capacity}

\* applyStageStrategy: clusters that get a target now.
applyStageStrategy(s) ==
    LET bound == {k.cluster : k \in Rows(s)}
        active == Cardinality({k \in Rows(s) : ~planningTargetTerminal(k)})
        capacity == IF MaxParallel[s] > active THEN MaxParallel[s] - active ELSE 0
    IN  IF MaxParallel[s] = 0 THEN Planned(s)
        ELSE Admit(Planned(s) \ bound, capacity)

\* The phase reconcilePromotionPlanStages derives for a stage.
StagePhase(s) ==
    LET failed == {k \in Rows(s) : seen[k].life = "Failed"}
        synced == {k \in Rows(s) : dependencyTargetSucceeded(k)}
    IN  IF ~Eligible(s) THEN "Pending"
        ELSE IF Planned(s) = {} THEN "Complete"
        ELSE IF failed # {} THEN IF OnFailure[s] = "skip" THEN "Skipping" ELSE "Failed"
        ELSE IF Cardinality(synced) = Cardinality(Planned(s)) THEN "Complete" ELSE "Progressing"

\* Indices up to the first one that fails, which ends the walk.
UpTo(n, bad(_)) == {i \in 1..n : \A j \in 1..(i - 1) : ~bad(j)}

\* The stages of a plan that a reconcile gets to: it fails fast.
Walked(p) ==
    {StagesOf[p][i] : i \in UpTo(Len(StagesOf[p]),
                                 LAMBDA j : StagePhase(StagesOf[p][j]) = "Failed")}

\* Fault: the plan takes the phase of its first open stage for its own.
PhaseOfStage(p) ==
    LET open == {i \in DOMAIN StagesOf[p] : StagePhase(StagesOf[p][i]) # "Complete"} IN
    IF open = {} THEN "Complete"
    ELSE StagePhase(StagesOf[p][CHOOSE i \in open : \A j \in open : i <= j])

\* The phase of a plan the stages of which are walked.
StagesPhase(p) ==
    LET phases == {StagePhase(s) : s \in Walked(p)} IN
    CASE "Failed" \in phases      -> "Failed"
      [] phases \subseteq {"Complete"} -> "Complete"
      [] OTHER                    -> "Progressing"

\* A plan that is neither over nor waiting for another plan, in the copy read.
Open(p) ==
    /\ runSeen.plan[p] \notin {"Complete", "Failed"}
    /\ \A q \in PlanDeps[p] : runSeen.plan[q] = "Complete"

\* handleProgressing's new phase of a plan.
NextPlanPhase(p) ==
    CASE Open(p)                                       -> StagesPhase(p)
      [] ~Open(p) /\ runSeen.plan[p] \in {"Complete", "Failed"} -> runSeen.plan[p]
      [] OTHER                                         -> "Pending"

\* The plans a reconcile gets to.
Visited ==
    {Plans[i] : i \in UpTo(Len(Plans), LAMBDA j : Open(Plans[j]) /\ StagesPhase(Plans[j]) = "Failed")}

WalkedStages ==
    {s \in UNION {Walked(p) : p \in {q \in Visited : Open(q)}} : Eligible(s)}

\* The stages of its plan up to and including a stage.
EarlierStages(s) ==
    LET p == CHOOSE q \in PlanNames : s \in StageSeq(q)
        n == CHOOSE j \in DOMAIN StagesOf[p] : StagesOf[p][j] = s
    IN  {StagesOf[p][i] : i \in 1..n}

\* Fault: every target of the failed stage is rolled back.
RollbackAll(s) ==
    {[k EXCEPT !.rollback = TRUE] : k \in {j \in Listed : j.stage = s}}

\* triggerRollbackTargets: the converged targets of the failed stage and of the
\* stages before it get a rollback target, unless there is one.
triggerRollbackTargets(s) ==
    {[k EXCEPT !.rollback = TRUE] :
        k \in {j \in Listed : j.stage \in EarlierStages(s) /\ seen[j].life = "Converged"}}

\* The stages in which targets failed, by policy.
FailedStages(policy) ==
    {s \in WalkedStages :
        OnFailure[s] = policy /\ StagePhase(s) \in {"Failed", "Skipping"}}

\* bindTargets of all stages: the targets that are upserted now.
Bound ==
    {k \in Targets : /\ ~k.rollback /\ k.stage \in WalkedStages
                     /\ k.cluster \in applyStageStrategy(k.stage)}

\* The target buffer after the walk.
Buffer ==
    Listed \cup Bound \cup UNION {triggerRollbackTargets(s) : s \in FailedStages("rollback")}

\* hasActiveRollbackTargets over the buffer
hasActiveRollbackTargets(buffer) ==
    \E k \in buffer : k.rollback /\ seen[k].life \notin Child!Ended

-----------------------------------------------------------------------------
(* The reconcile.                                                          *)

Dequeue ==
    /\ job.pc = "idle" /\ queued
    /\ queued' = FALSE

Reading == [Idle EXCEPT !.was = runSeen, !.next = runSeen, !.want = Listed]

\* handlePending: the spec has versions and plans.
handlePending ==
    /\ Dequeue /\ runSeen.phase = ""
    /\ job' = [Reading EXCEPT !.pc = "patch", !.again = TRUE,
                 !.next = [phase |-> "Progressing", plan |-> [p \in PlanNames |-> "Pending"]]]
    /\ UNCHANGED <<run, runSeen, children, seen, outside, history>>

\* handleTimeout, or a plan that is missing: cancel everything, then fail.
handleTimeout ==
    /\ Dequeue /\ runSeen.phase = "Progressing" /\ Fault
    /\ job' = [Reading EXCEPT !.pc = "cancelAll", !.next.phase = "Failed"]
    /\ troubled' = TRUE
    /\ UNCHANGED <<run, runSeen, children, seen, away, absent, soaked, succeeded>>

\* A plan whose generation is not the observed one fails the run at once.
planChanged ==
    /\ Dequeue /\ runSeen.phase = "Progressing" /\ Fault
    /\ \E p \in PlanNames : Open(p) /\ runSeen.plan[p] = "Progressing"
    /\ job' = [Reading EXCEPT !.pc = "patch", !.next.phase = "Failed"]
    /\ troubled' = TRUE
    /\ UNCHANGED <<run, runSeen, children, seen, away, absent, soaked, succeeded>>

\* Plans after a failed one lose their entry in planProgress.
ProgressOf ==
    [p \in PlanNames |-> IF p \in Visited THEN NextPlanPhase(p) ELSE ""]

\* handleProgressing
handleProgressing ==
    /\ Dequeue /\ runSeen.phase = "Progressing"
    /\ LET plans == ProgressOf
           fails == \E p \in Visited : Open(p) /\ plans[p] = "Failed"
           completes == \A p \in PlanNames : plans[p] = "Complete"
           phase == IF fails THEN "Failed" ELSE IF completes THEN "Complete" ELSE "Progressing"
       IN  job' = [Reading EXCEPT
                     !.pc = "skip",
                     !.next = [phase |-> phase, plan |-> plans],
                     !.want = Buffer,
                     !.skip = FailedStages("skip"),
                     !.halt = FailedStages("halt"),
                     !.again = \/ phase = "Progressing"
                               \/ fails /\ hasActiveRollbackTargets(Buffer)]
    /\ UNCHANGED <<run, runSeen, children, seen, outside, history>>

\* handleFailed: the children are persisted again; nothing is requeued.
handleFailed ==
    /\ Dequeue /\ runSeen.phase = "Failed"
    /\ job' = [Reading EXCEPT !.pc = "persist"]
    /\ UNCHANGED <<run, runSeen, children, seen, outside, history>>

\* Complete is terminal: there is no handler.
reconcileComplete ==
    /\ Dequeue /\ runSeen.phase = "Complete"
    /\ UNCHANGED <<run, runSeen, children, seen, job, outside, history>>

\* The children a cancellation of the set S reaches, by the cached list.
Cancellable(S) ==
    {k \in Listed \cap S : seen[k].life \notin Child!Ended /\ seen[k].cancelled = "no"}

cancelPromotionRunTargets ==
    /\ job.pc = "cancelAll"
    /\ Child!Ask(Cancellable(Targets), "Failed")
    /\ job' = [job EXCEPT !.pc = "patch"]
    /\ UNCHANGED <<run, runSeen, seen, queued, outside, history>>

markFailedStageTargetsSkipped ==
    /\ job.pc = "skip"
    /\ Child!Ask({k \in Listed : /\ k.stage \in job.skip /\ seen[k].life = "Failed"
                                 /\ seen[k].cancelled # "Skipped"}, "Skipped")
    /\ job' = [job EXCEPT !.pc = "persist"]
    /\ UNCHANGED <<run, runSeen, seen, queued, outside, history>>

\* Children missing from the cached list are created; a child the list shows
\* cancelled has a spec other than the desired one and is patched back.
persistPromotionTargets ==
    /\ job.pc = "persist"
    /\ Child!Keep(job.want \ Listed, {k \in job.want \cap Listed : seen[k].cancelled # "no"})
    /\ job' = [job EXCEPT !.pc = "halt"]
    /\ UNCHANGED <<run, runSeen, seen, queued, outside, history>>

cancelPendingStageTargets ==
    /\ job.pc = "halt"
    /\ Child!Ask(Cancellable({k \in Targets : k.stage \in job.halt}), "Failed")
    /\ job' = [job EXCEPT !.pc = "patch"]
    /\ UNCHANGED <<run, runSeen, seen, queued, outside, history>>

\* The status after the merge patch, which carries what differs from the copy.
Merged ==
    [phase |-> IF job.next.phase = job.was.phase THEN run.phase ELSE job.next.phase,
     plan  |-> IF job.next.plan = job.was.plan THEN run.plan ELSE job.next.plan]

\* Fault: the requeue of a progressing run is forgotten.
PatchWithoutRequeue ==
    /\ job.pc = "patch"
    /\ run' = Merged
    /\ job' = Idle
    /\ UNCHANGED <<runSeen, children, seen, queued, outside, history>>

\* The result of the reconcile may ask for a requeue.
patchPromotionRunStatus ==
    /\ job.pc = "patch"
    /\ run' = Merged
    /\ queued' = (queued \/ job.again)
    /\ job' = Idle
    /\ UNCHANGED <<runSeen, children, seen, outside, history>>

\* An error or a restart: part of the next write may have happened, the key is
\* queued again.
abandon ==
    /\ job.pc # "idle" /\ Fault
    /\ \/ UNCHANGED children
       \/ /\ job.pc = "persist"
          /\ \E S \in SUBSET (job.want \ Listed) : Child!Keep(S, {})
       \/ /\ job.pc \in {"cancelAll", "halt"}
          /\ \E S \in SUBSET Cancellable({k \in Targets : job.pc = "halt" => k.stage \in job.halt}) :
                Child!Ask(S, "Failed")
    /\ job' = Idle
    /\ queued' = TRUE
    /\ UNCHANGED <<run, runSeen, seen, away, absent, soaked, succeeded, troubled>>

-----------------------------------------------------------------------------
(* The children, the caches and the clusters.                              *)

childStep(k) ==
    /\ Child!ChildStep(k) /\ life'[k] # life[k]
    /\ succeeded' = IF life'[k] \in {"Converged", "Skipped"} THEN succeeded \cup {k} ELSE succeeded
    /\ soaked' = soaked \ {k}
    /\ UNCHANGED <<run, runSeen, seen, queued, job, away, absent, faults, troubled>>

\* dependencySoakRemaining: the soak time since finishedAt has passed; the
\* dependent stage is looked at again by a timer.
soakElapses(k) ==
    /\ life[k] \in {"Converged", "Skipped"} /\ k \notin soaked
    /\ \E s \in Stages : \E d \in StageDeps[s] : d.stage = k.stage /\ d.soak
    /\ soaked' = soaked \cup {k}
    /\ queued' = TRUE
    /\ UNCHANGED <<run, runSeen, children, seen, job, away, absent, faults, succeeded, troubled>>

\* The informer shows a child's newest version; every event wakes the run.
syncTarget(k) ==
    /\ seen[k] # [life |-> life[k], cancelled |-> cancelled[k]]
    /\ seen' = [seen EXCEPT ![k] = [life |-> life[k], cancelled |-> cancelled[k]]]
    /\ queued' = TRUE
    /\ UNCHANGED <<run, runSeen, children, job, outside, history>>

\* A change of status alone does not pass GenerationChangedPredicate.
syncRun ==
    /\ runSeen # run
    /\ runSeen' = run
    /\ UNCHANGED <<run, children, seen, queued, job, outside, history>>

\* external: an operator sets or clears Cluster.spec.suspend, which changes the
\* generation and wakes the runs that have not ended.
suspendCluster(c) ==
    /\ Fault
    /\ away' = IF c \in away THEN away \ {c} ELSE away \cup {c}
    /\ absent' = absent \cup {c}
    /\ queued' = (queued \/ runSeen.phase \notin {"Complete", "Failed"})
    /\ UNCHANGED <<run, runSeen, children, seen, job, soaked, succeeded, troubled>>

Reconcile ==
    \/ handlePending
    \/ handleProgressing
    \/ handleFailed
    \/ reconcileComplete
    \/ cancelPromotionRunTargets
    \/ markFailedStageTargetsSkipped
    \/ persistPromotionTargets
    \/ cancelPendingStageTargets
    \/ patchPromotionRunStatus

Next ==
    \/ Reconcile
    \/ handleTimeout
    \/ planChanged
    \/ abandon
    \/ \E k \in Targets : childStep(k) \/ soakElapses(k) \/ syncTarget(k)
    \/ syncRun
    \/ \E c \in Clusters : suspendCluster(c)

Spec == Init /\ [][Next]_vars

-----------------------------------------------------------------------------
(* Fairness: a queued key is handed out and a reconcile goes on; informers *)
(* deliver; a child that is let alone ends.  A cancelled child flips       *)
(* before its parent withdraws the cancellation, if it is asked again and  *)
(* again: its reconcile follows the event at once, the parent's safety-net *)
(* requeue comes after requeueNormal.                                      *)

\* The child goes on by itself.
Progress(k) == childStep(k) /\ (Child!Start(k) \/ Child!Finish(k) \/ Child!GiveUp(k))

\* The child follows the cancellation its object carries.
Obey(k) ==
    /\ cancelled[k] # "no" /\ life[k] # cancelled[k]
    /\ childStep(k) /\ Child!Flip(k, cancelled[k])

Fairness ==
    /\ WF_vars(Reconcile) /\ WF_vars(syncRun)
    /\ \A k \in Targets : /\ WF_vars(syncTarget(k)) /\ WF_vars(soakElapses(k))
                        /\ WF_vars(Progress(k)) /\ SF_vars(Obey(k))

FairSpec == Spec /\ Fairness

-----------------------------------------------------------------------------
(* Properties.                                                             *)

Main(s, c) == [stage |-> s, cluster |-> c, rollback |-> FALSE]

\* Every selected cluster of the stage that was never suspended has come to a
\* good end.
Done(s) == \A c \in Selected[s] \ absent : Main(s, c) \in succeeded

\* A stage gets a target only after the stages it depends on, and every stage
\* of the plans its plan depends on, have come to a good end: neither the
\* cached list of children nor the cached planProgress lets a stage overtake.
StageOrder ==
    \A p \in PlanNames : \A s \in StageSeq(p) :
        (\E c \in Selected[s] : life[Main(s, c)] # "none") =>
            /\ \A d \in StageDeps[s] :
                  IF d.strategy = "all" THEN Done(d.stage)
                  ELSE \/ Selected[d.stage] \subseteq absent
                       \/ \E c \in Selected[d.stage] : Main(d.stage, c) \in succeeded
            /\ \A q \in PlanDeps[p] : \A r \in StageSeq(q) : Done(r)

\* "MaxParallel limits how many targets in this stage may be non-terminal at
\* once" (delivery_execution_types.go), although the targets under way are
\* counted from a cached list that may miss the newest ones.  A cluster that
\* was suspended is left out: its target is not counted, and may go on.
ParallelBound ==
    \A s \in Stages : MaxParallel[s] > 0 =>
        Cardinality({c \in Selected[s] \ absent : life[Main(s, c)] \in {"waiting", "applying"}})
            <= MaxParallel[s]

\* A run is Complete only if every selected cluster of every stage has
\* converged, was skipped by policy or was suspended.
CompleteMeansDone == run.phase = "Complete" => \A s \in Stages : Done(s)

\* A run fails only for a time-out, a plan that is gone or has changed, or a
\* target that failed in a stage whose policy is not to skip failures.
FailedForReason ==
    run.phase = "Failed" =>
        troubled \/ \E k \in Targets : life[k] = "Failed" /\ OnFailure[k.stage] # "skip"

\* Only what has been delivered is rolled back, and only if a stage whose
\* policy is rollback has a failed target.
RollbackOfDelivered ==
    \A k \in Targets : k.rollback /\ life[k] # "none" =>
        /\ [k EXCEPT !.rollback = FALSE] \in succeeded
        /\ \E j \in Targets : life[j] = "Failed" /\ OnFailure[j.stage] = "rollback"

\* How a run ends, and what it rolls back on the way, is justified by what its
\* targets really did, whatever the caches showed: a run that patches its phase
\* from a stale list of children would break one of the three.
OutcomeIsEarned == CompleteMeansDone /\ FailedForReason /\ RollbackOfDelivered

\* Every run comes to an end.
RunEnds == <>(run.phase \in {"Complete", "Failed"})

=============================================================================

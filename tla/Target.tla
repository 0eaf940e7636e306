------------------------------- MODULE Target -------------------------------
(***************************************************************************)
(* The TargetReconciler of internal/controller/target_controller.go: the   *)
(* per-cluster state machine that takes one Target object from creation,   *)
(* through verification, health, soak, metrics and approval, to the call   *)
(* of the actuator and to convergence.                                     *)
(*                                                                         *)
(* A reconcile is not atomic.  It reads the Target from an informer cache, *)
(* works on a private copy, calls the cluster and the actuator, and only   *)
(* then writes the status back with an optimistic update.  Other actors    *)
(* write the same object meanwhile: the parent PromotionRun controller     *)
(* patches its spec and labels, the approval webhook its status.  The      *)
(* steps below are cut exactly at the reads and writes of shared objects.  *)
(*                                                                         *)
(* Abstractions.  Resource versions are replaced by two values: lag[t]     *)
(* (the cache is older than the object, and whether the watch event it has *)
(* still to deliver wakes the reconciler) and job[t].behind (the copy the  *)
(* reconcile works on is older than the object); an optimistic update      *)
(* succeeds iff the copy is not behind.  Time is a nondeterministic answer *)
(* of the soak and timeout checks.  What clusters and gates answer is a    *)
(* parameter of the handler.  The parent and the webhooks are modelled     *)
(* here by their writes only, with the guards their code evaluates on the  *)
(* cached object.                                                          *)
(***************************************************************************)
EXTENDS Naturals

CONSTANTS
    Targets,          \* Target objects
    Clusters,         \* Cluster objects
    Runs,             \* PromotionRun objects
    NoRun,            \* the empty activePromotionRun
    RunOf,            \* spec.promotionRunRef of each target
    ClusterOf,        \* spec.target of each target
    SoakTargets,      \* targets whose gate sets soakTime
    GatedTargets,     \* targets whose gate lists metrics or templates
    TimedTargets,     \* targets whose gate sets gateTimeout
    ApprovalTargets,  \* targets whose gate requires approval
    ContinueTargets,  \* targets whose gate says onFailure=continue
    SharedTargets,    \* targets other writers than the reconcile write to
    ResumedRuns,      \* runs whose spec.suspended an operator clears again
    MissingLimit,     \* missingMCFailThreshold
    MaxApplies        \* bound: actuator Apply calls counted per target

ASSUME ConstantsAssumption ==
    /\ NoRun \notin Runs
    /\ RunOf \in [Targets -> Runs]
    /\ ClusterOf \in [Targets -> Clusters]
    /\ SoakTargets \subseteq Targets
    /\ GatedTargets \subseteq Targets
    /\ TimedTargets \subseteq GatedTargets
    /\ ApprovalTargets \subseteq Targets
    /\ ContinueTargets \subseteq Targets
    /\ SharedTargets \subseteq Targets
    /\ ResumedRuns \subseteq Runs
    /\ MissingLimit \in Nat \ {0}
    /\ MaxApplies \in Nat \ {0}

VARIABLES
    obj,        \* the Target objects in the API server
    cache,      \* the informer cache's copy of them
    lag,        \* how far the cache is behind the object
    queued,     \* the workqueue holds the target, or a timer that will add it
    job,        \* the reconcile in progress on each target
    active,     \* Cluster.status.activePromotionRun
    activeSeen, \* the cached Cluster's activePromotionRun
    suspended,  \* PromotionRun.spec.suspended
    ended,      \* the PromotionRun reached a terminal phase
    approved,   \* an Approval object for the target exists
    passed,     \* history: gates that have answered Passed for the target
    applies,    \* history: actuator Apply calls for the target
    vetoed      \* history: rejected before it was persisted Applying

vars == <<obj, cache, lag, queued, job, active, activeSeen, suspended, ended,
          approved, passed, applies, vetoed>>

\* Groups of variables that most actions leave alone.
objects  == <<obj, cache, lag>>
clusters == <<active, activeSeen>>
parents  == <<suspended, ended, approved>>
history  == <<passed, applies, vetoed>>

-----------------------------------------------------------------------------
(* Phases and the objects they are kept in.                                *)

Terminal == {"Converged", "Failed", "Skipped"}

Phase == {"", "Pending", "Verification", "HealthCheck", "Soaking",
          "MetricsCheck", "WaitingApproval", "Applying"} \cup Terminal

Gates == {"verification", "health", "soak", "metrics", "approval"}

\* TargetExecutionState: the part of the status the state machine reads.
Status == [phase       : Phase,
           applyIssued : BOOLEAN,
           missing     : 0..MissingLimit,
           gateFailed  : BOOLEAN,
           rejected    : BOOLEAN]

\* The kapro.io/phase label: absent, of an earlier phase, of this phase.
Label == {"none", "stale", "current"}

\* spec.cancelled and spec.cancelledPhase, the phase label, and the status.
Object == [cancelled      : BOOLEAN,
           cancelledPhase : {"Failed", "Skipped"},
           label          : Label,
           status         : Status]

\* "quiet": the event still to come does not pass promotionTargetPredicates.
Lag == {"none", "quiet", "waking"}

\* Where a reconcile stands: reading, claiming, applying, writing back.
Step == {"idle", "fsm", "claim", "apply", "observe", "write", "cancel"}

Job == [pc : Step, status : Status, behind : BOOLEAN,
        cancelledPhase : {"Failed", "Skipped"}]

\* The gates a target must pass before its version may be applied.
Required(t) ==
    {"verification", "health"}
      \cup (IF t \in SoakTargets THEN {"soak"} ELSE {})
      \cup (IF t \in GatedTargets THEN {"metrics"} ELSE {})
      \cup (IF t \in ApprovalTargets THEN {"approval"} ELSE {})

EmptyStatus == [phase |-> "", applyIssued |-> FALSE, missing |-> 0,
                gateFailed |-> FALSE, rejected |-> FALSE]

NewObject == [cancelled |-> FALSE, cancelledPhase |-> "Failed",
              label |-> "none", status |-> EmptyStatus]

Idle == [pc |-> "idle", status |-> EmptyStatus, behind |-> FALSE,
         cancelledPhase |-> "Failed"]

\* Every variable stays in its type.
TypeOK ==
    /\ obj \in [Targets -> Object]
    /\ cache \in [Targets -> Object]
    /\ lag \in [Targets -> Lag]
    /\ queued \in [Targets -> BOOLEAN]
    /\ job \in [Targets -> Job]
    /\ active \in [Clusters -> Runs \cup {NoRun}]
    /\ activeSeen \in [Clusters -> Runs \cup {NoRun}]
    /\ suspended \in [Runs -> BOOLEAN]
    /\ ended \in [Runs -> BOOLEAN]
    /\ approved \in [Targets -> BOOLEAN]
    /\ passed \in [Targets -> SUBSET Gates]
    /\ applies \in [Targets -> 0..MaxApplies]
    /\ vetoed \in [Targets -> BOOLEAN]

Init ==
    /\ obj = [t \in Targets |-> NewObject]
    /\ cache = [t \in Targets |-> NewObject]
    /\ lag = [t \in Targets |-> "none"]
    /\ queued = [t \in Targets |-> TRUE]
    /\ job = [t \in Targets |-> Idle]
    /\ active = [c \in Clusters |-> NoRun]
    /\ activeSeen = [c \in Clusters |-> NoRun]
    /\ suspended = [r \in Runs |-> FALSE]
    /\ ended = [r \in Runs |-> FALSE]
    /\ approved = [t \in Targets |-> FALSE]
    /\ passed = [t \in Targets |-> {}]
    /\ applies = [t \in Targets |-> 0]
    /\ vetoed = [t \in Targets |-> FALSE]

-----------------------------------------------------------------------------
(* Writes of a Target object.  The watch event of a write wakes the        *)
(* reconciler when the spec, an annotation or the rejection changed, and   *)
(* passes unnoticed when only the rest of the status or a label did        *)
(* (promotionTargetPredicates).                                            *)

WriteObject(t, o, event) ==
    /\ obj' = [obj EXCEPT ![t] = o]
    /\ lag' = [lag EXCEPT ![t] = IF @ = "waking" THEN @ ELSE event]

\* A write by anyone else outdates the copy of a reconcile in progress.
OutdateJob(t) ==
    job' = [job EXCEPT ![t] = IF @.pc = "idle" THEN @
                                               ELSE [@ EXCEPT !.behind = TRUE]]

Enqueue(t) == queued' = [queued EXCEPT ![t] = TRUE]

\* syncPromotionTargetPhaseLabel right after a change of phase: the patch of
\* the label may fail after the phase has been written.
Relabelled(label, labelled) ==
    IF labelled THEN "current" ELSE IF label = "none" THEN "none" ELSE "stale"

-----------------------------------------------------------------------------
(* Moves of the private copy.                                              *)

\* transitionTo: entering Applying forgets that Apply was issued.
transitionTo(s, phase) ==
    [s EXCEPT !.phase = phase,
              !.applyIssued = IF phase = "Applying" THEN FALSE ELSE @]

\* failTarget: the gate's onFailure decides between Failed and Skipped.
failTarget(t, s) ==
    [s EXCEPT !.phase = IF t \in ContinueTargets THEN "Skipped" ELSE "Failed"]

\* Fault: the threshold is never compared with.
MissingForever(t, s) == [s EXCEPT !.missing = @ + 1]

\* A missing cluster is counted; at the threshold the target fails.
MissingCluster(t, s) ==
    LET counted == [s EXCEPT !.missing = @ + 1] IN
    IF counted.missing >= MissingLimit THEN failTarget(t, counted) ELSE counted

\* advanceTargetUntilStable: go on with the next phase at once, unless the
\* copy has just become Applying, which is persisted before its side effects.
Advance(t, s) ==
    job' = [job EXCEPT ![t].status = s,
                       ![t].pc = IF s.phase = "Applying" THEN "write" ELSE "fsm"]

\* The handler asked for a requeue: persist what the copy holds.
Persist(t, s) == job' = [job EXCEPT ![t].status = s, ![t].pc = "write"]

Working(t, phase) == job[t].pc = "fsm" /\ job[t].status.phase = phase

Pass(t, gate) == passed' = [passed EXCEPT ![t] = @ \cup {gate}]

\* The handlers that only change the copy and note which gates passed.
Private == UNCHANGED <<objects, queued, clusters, parents, applies, vetoed>>

-----------------------------------------------------------------------------
(* The start of a reconcile: the workqueue hands out the key.              *)

Dequeue(t) ==
    /\ job[t].pc = "idle"
    /\ queued[t]
    /\ queued' = [queued EXCEPT ![t] = FALSE]

\* A terminal target that is not cancelled: only its phase label is synced.
ReconcileTerminal(t) ==
    /\ Dequeue(t)
    /\ ~cache[t].cancelled
    /\ cache[t].status.phase \in Terminal
    /\ IF cache[t].label = "current" THEN UNCHANGED <<obj, lag>>
       ELSE WriteObject(t, [obj[t] EXCEPT !.label = "current"], "quiet")
    /\ UNCHANGED <<cache, job, clusters, parents, history>>

\* The parent run is suspended: nothing is done and nothing is requeued.
ReconcileSuspended(t) ==
    /\ Dequeue(t)
    /\ cache[t].cancelled \/ cache[t].status.phase \notin Terminal
    /\ suspended[RunOf[t]]
    /\ UNCHANGED <<objects, job, clusters, parents, history>>

\* A cancelled target: the phase to flip to is read once, from the cache.
ReconcileCancelled(t) ==
    /\ Dequeue(t)
    /\ ~suspended[RunOf[t]]
    /\ cache[t].cancelled
    /\ job' = [job EXCEPT ![t] = [pc |-> "cancel", status |-> cache[t].status,
                                  behind |-> lag[t] # "none",
                                  cancelledPhase |-> cache[t].cancelledPhase]]
    /\ UNCHANGED <<objects, clusters, parents, history>>

\* Otherwise the state machine runs on a copy of the cached status.
ReconcileFSM(t) ==
    /\ Dequeue(t)
    /\ ~suspended[RunOf[t]]
    /\ ~cache[t].cancelled
    /\ cache[t].status.phase \notin Terminal
    /\ job' = [job EXCEPT ![t] = [pc |-> "fsm", status |-> cache[t].status,
                                  behind |-> lag[t] # "none",
                                  cancelledPhase |-> "Failed"]]
    /\ UNCHANGED <<objects, clusters, parents, history>>

-----------------------------------------------------------------------------
(* The phases before any side effect.                                      *)

handleInitial(t) ==
    /\ Working(t, "")
    /\ Advance(t, transitionTo(job[t].status, "Pending"))
    /\ Private /\ UNCHANGED passed

\* found: the Cluster exists.  fresh: requireFreshHeartbeat lets it proceed.
handlePending(t, found, fresh) ==
    /\ Working(t, "Pending")
    /\ LET s == job[t].status
           seen == [s EXCEPT !.missing = 0]
       IN  \/ ~found /\ Persist(t, MissingCluster(t, s))
           \/ found /\ ~fresh /\ Persist(t, seen)
           \/ found /\ fresh /\ Advance(t, transitionTo(seen, "Verification"))
    /\ Private /\ UNCHANGED passed

\* answer: the result of the verification gate.
handleVerification(t, answer) ==
    /\ Working(t, "Verification")
    /\ LET s == job[t].status IN
       \/ /\ answer = "Passed"
          /\ Advance(t, transitionTo(s, "HealthCheck"))
          /\ Pass(t, "verification")
       \/ /\ answer = "Failed"
          /\ Persist(t, failTarget(t, s))
          /\ UNCHANGED passed
       \/ /\ answer = "Running"
          /\ Persist(t, s)
          /\ UNCHANGED passed
    /\ Private

\* Fault: the soak time is ignored.
NeverSoak(t, s) == transitionTo(s, "MetricsCheck")

transitionToSoakOrMetrics(t, s) ==
    transitionTo(s, IF t \in SoakTargets THEN "Soaking" ELSE "MetricsCheck")

\* health: what the cluster reports of its workloads.
handleHealthCheck(t, found, fresh, health) ==
    /\ Working(t, "HealthCheck")
    /\ LET s == job[t].status
           seen == [s EXCEPT !.missing = 0]
       IN  \/ /\ ~found
              /\ Persist(t, MissingCluster(t, s))
              /\ UNCHANGED passed
           \/ /\ found /\ ~fresh
              /\ Persist(t, seen)
              /\ UNCHANGED passed
           \/ /\ found /\ fresh /\ health = "Passed"
              /\ Advance(t, transitionToSoakOrMetrics(t, seen))
              /\ Pass(t, "health")
           \/ /\ found /\ fresh /\ health = "Failed"
              /\ Persist(t, failTarget(t, seen))
              /\ UNCHANGED passed
           \/ /\ found /\ fresh /\ health = "Running"
              /\ Persist(t, seen)
              /\ UNCHANGED passed
    /\ Private

\* elapsed: the soak time has passed since startedAt.
handleSoaking(t, elapsed) ==
    /\ Working(t, "Soaking")
    /\ LET s == job[t].status IN
       \/ /\ elapsed
          /\ Advance(t, transitionTo(s, "MetricsCheck"))
          /\ Pass(t, "soak")
       \/ /\ ~elapsed
          /\ Persist(t, s)
          /\ UNCHANGED passed
    /\ Private

nextAfterMetrics(t, s) ==
    transitionTo(s, IF t \in ApprovalTargets THEN "WaitingApproval"
                                             ELSE "Applying")

\* answer: what the metric gates and templates say together; "Failed" when a
\* template has failed for good.  Such a template is never evaluated again,
\* so gateFailed stays; metric gates are asked anew every time.
handleMetricsCheck(t, answer, timedOut) ==
    /\ Working(t, "MetricsCheck")
    /\ LET s == job[t].status
           failed == [s EXCEPT !.gateFailed = @ \/ answer = "Failed"]
           open == t \notin GatedTargets
           pass == answer = "Passed" /\ ~s.gateFailed
       IN  \/ /\ open
              /\ Advance(t, nextAfterMetrics(t, s))
              /\ UNCHANGED passed
           \/ /\ ~open /\ pass
              /\ Advance(t, nextAfterMetrics(t, s))
              /\ Pass(t, "metrics")
           \/ /\ ~open /\ ~pass
              /\ Persist(t, IF timedOut /\ t \in TimedTargets
                            THEN failTarget(t, failed) ELSE failed)
              /\ UNCHANGED passed
    /\ Private

\* Fault: the approval is looked up before the rejection.
ApprovalBeforeRejection(t) ==
    /\ Working(t, "WaitingApproval")
    /\ LET s == job[t].status IN
       \/ /\ approved[t]
          /\ Advance(t, transitionTo(s, "Applying"))
          /\ Pass(t, "approval")
       \/ /\ ~approved[t]
          /\ Persist(t, IF s.rejected THEN failTarget(t, s) ELSE s)
          /\ UNCHANGED passed
    /\ Private

handleWaitingApproval(t) ==
    /\ Working(t, "WaitingApproval")
    /\ LET s == job[t].status IN
       \/ /\ s.rejected
          /\ Persist(t, failTarget(t, s))
          /\ UNCHANGED passed
       \/ /\ ~s.rejected /\ approved[t]
          /\ Advance(t, transitionTo(s, "Applying"))
          /\ Pass(t, "approval")
       \/ /\ ~s.rejected /\ ~approved[t]
          /\ Persist(t, s)
          /\ UNCHANGED passed
    /\ Private

-----------------------------------------------------------------------------
(* Applying: claim the cluster, call the actuator, poll for convergence.   *)

\* usable: "Empty" when the target has no desired version, "Failed" when the
\* cluster's topology cannot take it, "Running" when no actuator resolves.
handleApplying(t, found, fresh, usable) ==
    /\ Working(t, "Applying")
    /\ LET s == job[t].status
           seen == [s EXCEPT !.missing = 0]
           holder == activeSeen[ClusterOf[t]]
           ready == found /\ fresh /\ usable = "Passed"
           goto(pc) == job' = [job EXCEPT ![t].status = seen, ![t].pc = pc]
       IN  \/ usable = "Empty" /\ Persist(t, failTarget(t, s))
           \/ usable # "Empty" /\ ~found /\ Persist(t, MissingCluster(t, s))
           \/ usable # "Empty" /\ found /\ ~fresh /\ Persist(t, seen)
           \/ found /\ fresh /\ usable = "Failed" /\ Persist(t, failTarget(t, seen))
           \/ found /\ fresh /\ usable = "Running" /\ Persist(t, seen)
           \/ ready /\ holder = NoRun /\ goto("claim")
           \/ ready /\ holder = RunOf[t] /\ goto("apply")
           \/ ready /\ holder \notin {NoRun, RunOf[t]} /\ Persist(t, seen)
    /\ Private /\ UNCHANGED passed

\* The claim is a merge patch computed from the cached cluster: it is not
\* conditional on what activePromotionRun holds by now.
claimCluster(t) ==
    /\ job[t].pc = "claim"
    /\ active' = [active EXCEPT ![ClusterOf[t]] = RunOf[t]]
    /\ job' = [job EXCEPT ![t].pc = "apply"]
    /\ UNCHANGED <<objects, queued, activeSeen, parents, history>>

\* The actuator has taken the version; calls are counted up to MaxApplies.
Deliver(t) ==
    applies' = [applies EXCEPT ![t] = IF @ < MaxApplies THEN @ + 1 ELSE @]

\* Fault: applyIssued is set before the call, and stays when the call fails.
IssuedBeforeCall(t, answer) ==
    /\ job[t].pc = "apply"
    /\ LET issued == [job[t].status EXCEPT !.applyIssued = TRUE] IN
       \/ /\ answer = "Error"
          /\ Persist(t, issued)
          /\ UNCHANGED applies
       \/ /\ answer = "Passed"
          /\ job' = [job EXCEPT ![t].pc = "observe", ![t].status = issued]
          /\ Deliver(t)
    /\ UNCHANGED <<objects, queued, clusters, parents, passed, vetoed>>

\* answer: "Passed"; "Failed" when the actuator cannot apply; "Error" when the
\* call failed, "Lost" when it failed after the actuator had taken it.
issueApply(t, answer) ==
    /\ job[t].pc = "apply"
    /\ LET s == job[t].status IN
       \/ /\ s.applyIssued
          /\ job' = [job EXCEPT ![t].pc = "observe"]
          /\ UNCHANGED applies
       \/ /\ ~s.applyIssued /\ answer = "Failed"
          /\ Persist(t, failTarget(t, s))
          /\ UNCHANGED applies
       \/ /\ ~s.applyIssued /\ answer = "Error"
          /\ Persist(t, s)
          /\ UNCHANGED applies
       \/ /\ ~s.applyIssued /\ answer = "Lost"
          /\ Persist(t, s)
          /\ Deliver(t)
       \/ /\ ~s.applyIssued /\ answer = "Passed"
          /\ job' = [job EXCEPT ![t].pc = "observe",
                                ![t].status = [s EXCEPT !.applyIssued = TRUE]]
          /\ Deliver(t)
    /\ UNCHANGED <<objects, queued, clusters, parents, passed, vetoed>>

\* answer: "Passed" when the actuator, or the cluster's own status, reports
\* convergence, or when the actuator cannot observe and is trusted.
pollConvergence(t, answer) ==
    /\ job[t].pc = "observe"
    /\ LET s == job[t].status IN
       \/ answer = "Passed" /\ Persist(t, transitionTo(s, "Converged"))
       \/ answer = "Failed" /\ Persist(t, failTarget(t, s))
       \/ answer = "Running" /\ Persist(t, s)
    /\ Private /\ UNCHANGED passed

-----------------------------------------------------------------------------
(* The end of a reconcile.                                                 *)

\* Fault: the status is patched without a resource version.
WriteBlindly(t) == TRUE

\* Status().Update succeeds only on the version the reconcile has read.
CanWrite(t) == ~job[t].behind

\* Fault: the requeue a handler asked for is dropped after the write.
WriteWithoutRequeue(t, labelled) ==
    /\ job[t].pc = "write"
    /\ CanWrite(t)
    /\ WriteObject(t, [obj[t] EXCEPT !.status = job[t].status,
                                     !.label = Relabelled(@, labelled)], "quiet")
    /\ job' = [job EXCEPT ![t] = Idle]
    /\ UNCHANGED <<cache, queued, clusters, parents, history>>

\* The write-back: every handler that leaves the target in a non-terminal
\* phase has asked for a requeue, and so has a label patch that failed.
writeStatus(t, labelled) ==
    /\ job[t].pc = "write"
    /\ CanWrite(t)
    /\ LET s == job[t].status IN
       /\ WriteObject(t, [obj[t] EXCEPT !.status = s,
                                        !.label = Relabelled(@, labelled)], "quiet")
       /\ queued' = [queued EXCEPT
                       ![t] = @ \/ s.phase \notin Terminal \/ ~labelled]
    /\ job' = [job EXCEPT ![t] = Idle]
    /\ UNCHANGED <<cache, clusters, parents, history>>

\* StatusUpdateWithRetry: on a conflict the cached object is fetched again, so
\* the flip lands once the first copy or the cache is current.
writeCancelled(t, labelled) ==
    /\ job[t].pc = "cancel"
    /\ CanWrite(t) \/ lag[t] = "none"
    /\ WriteObject(t, [obj[t] EXCEPT !.status = [@ EXCEPT !.phase = job[t].cancelledPhase],
                                     !.label = Relabelled(@, labelled)], "quiet")
    /\ queued' = [queued EXCEPT ![t] = @ \/ ~labelled]
    /\ job' = [job EXCEPT ![t] = Idle]
    /\ UNCHANGED <<cache, clusters, parents, history>>

\* Fault: a conflict is swallowed.
DropConflict(t) ==
    /\ job[t].pc # "idle"
    /\ job' = [job EXCEPT ![t] = Idle]
    /\ UNCHANGED <<objects, queued, clusters, parents, history>>

\* A conflict, an API error or a restart of the operator: the copy is lost,
\* what was done to the cluster is not, and the key is queued again.
abandon(t) ==
    /\ job[t].pc # "idle"
    /\ job' = [job EXCEPT ![t] = Idle]
    /\ Enqueue(t)
    /\ UNCHANGED <<objects, clusters, parents, history>>

-----------------------------------------------------------------------------
(* The other writers.                                                      *)

\* cancelPendingStageTargets, cancelPromotionRunTargets and
\* cancelSupersededRunTargets: the cached target is neither terminal nor
\* cancelled; a raw patch sets spec.cancelled whatever the object holds now.
cancelTarget(t) ==
    /\ cache[t].status.phase \notin Terminal
    /\ ~cache[t].cancelled
    /\ WriteObject(t, [obj[t] EXCEPT !.cancelled = TRUE,
                                     !.cancelledPhase = "Failed"], "waking")
    /\ OutdateJob(t)
    /\ UNCHANGED <<cache, queued, clusters, parents, history>>

\* markFailedStageTargetsSkipped
markSkipped(t) ==
    /\ cache[t].status.phase = "Failed"
    /\ ~(cache[t].cancelled /\ cache[t].cancelledPhase = "Skipped")
    /\ WriteObject(t, [obj[t] EXCEPT !.cancelled = TRUE,
                                     !.cancelledPhase = "Skipped"], "waking")
    /\ OutdateJob(t)
    /\ UNCHANGED <<cache, queued, clusters, parents, history>>

\* persistPromotionTargets on an existing child: the desired spec carries no
\* cancellation and the desired labels no phase, so a cached object that has
\* either is patched, and the patch removes what the cache shows.
persistTarget(t) ==
    /\ cache[t].cancelled \/ cache[t].label # "none"
    /\ LET uncancel == cache[t].cancelled
           unlabel == cache[t].label # "none"
       IN  WriteObject(t,
             [obj[t] EXCEPT !.cancelled = ~uncancel /\ @,
                            !.cancelledPhase = IF uncancel THEN "Failed" ELSE @,
                            !.label = IF unlabel THEN "none" ELSE @],
             IF uncancel THEN "waking" ELSE "quiet")
    /\ OutdateJob(t)
    /\ UNCHANGED <<cache, queued, clusters, parents, history>>

\* clearActivePromotionRun: a merge patch computed from the cached cluster.
clearActivePromotionRun(r, c) ==
    /\ ended[r]
    /\ activeSeen[c] = r
    /\ active' = [active EXCEPT ![c] = NoRun]
    /\ UNCHANGED <<objects, queued, job, activeSeen, parents, history>>

\* The parent run reaches Complete, Failed or Superseded.
endRun(r) ==
    /\ ~ended[r]
    /\ ended' = [ended EXCEPT ![r] = TRUE]
    /\ UNCHANGED <<objects, queued, job, clusters, suspended, approved, history>>

\* suspendOwnedRuns sets PromotionRun.spec.suspended; the reconciler of
\* Targets does not watch PromotionRuns.
suspendRun(r) ==
    /\ ~suspended[r]
    /\ suspended' = [suspended EXCEPT ![r] = TRUE]
    /\ UNCHANGED <<objects, queued, job, clusters, ended, approved, history>>

\* external: an operator clears spec.suspended of the run.
resumeRun(r) ==
    /\ r \in ResumedRuns
    /\ suspended[r]
    /\ suspended' = [suspended EXCEPT ![r] = FALSE]
    /\ UNCHANGED <<objects, queued, job, clusters, ended, approved, history>>

\* handleApprove and the CLI create the Approval object, which is watched.
approve(t) ==
    /\ t \in ApprovalTargets
    /\ ~approved[t]
    /\ approved' = [approved EXCEPT ![t] = TRUE]
    /\ Enqueue(t)
    /\ UNCHANGED <<objects, job, clusters, suspended, ended, history>>

\* handleReject (a signed link) and runReject (the CLI) set status.rejected in
\* any phase.
reject(t) ==
    /\ ~obj[t].status.rejected
    /\ WriteObject(t, [obj[t] EXCEPT !.status = [@ EXCEPT !.rejected = TRUE]], "waking")
    /\ OutdateJob(t)
    /\ vetoed' = [vetoed EXCEPT ![t] = /\ t \in ApprovalTargets
                                      /\ obj[t].status.phase \notin
                                           {"Applying"} \cup Terminal]
    /\ UNCHANGED <<cache, queued, clusters, parents, passed, applies>>

\* The informer delivers the newest version of the Target.
syncTarget(t) ==
    /\ lag[t] # "none"
    /\ cache' = [cache EXCEPT ![t] = obj[t]]
    /\ lag' = [lag EXCEPT ![t] = "none"]
    /\ queued' = [queued EXCEPT ![t] = @ \/ lag[t] = "waking"]
    /\ UNCHANGED <<obj, job, clusters, parents, history>>

syncCluster(c) ==
    /\ activeSeen[c] # active[c]
    /\ activeSeen' = [activeSeen EXCEPT ![c] = active[c]]
    /\ UNCHANGED <<objects, queued, job, active, parents, history>>

-----------------------------------------------------------------------------
Answers == {"Passed", "Failed", "Running"}

Begin(t) ==
    \/ ReconcileTerminal(t)
    \/ ReconcileSuspended(t)
    \/ ReconcileCancelled(t)
    \/ ReconcileFSM(t)

\* One phase handler, whatever the cluster and the gates answer.
Handle(t) ==
    \/ handleInitial(t)
    \/ \E found, fresh \in BOOLEAN : handlePending(t, found, fresh)
    \/ \E a \in Answers : handleVerification(t, a)
    \/ \E found, fresh \in BOOLEAN, a \in Answers : handleHealthCheck(t, found, fresh, a)
    \/ \E elapsed \in BOOLEAN : handleSoaking(t, elapsed)
    \/ \E a \in Answers, timedOut \in BOOLEAN : handleMetricsCheck(t, a, timedOut)
    \/ handleWaitingApproval(t)
    \/ \E found, fresh \in BOOLEAN, a \in Answers \cup {"Empty"} :
          handleApplying(t, found, fresh, a)
    \/ claimCluster(t)
    \/ \E a \in Answers \cup {"Error", "Lost"} : issueApply(t, a)
    \/ \E a \in Answers : pollConvergence(t, a)

Write(t) ==
    \E labelled \in BOOLEAN : writeStatus(t, labelled) \/ writeCancelled(t, labelled)

\* What the parent controllers and the webhooks do to a target.
Interfere(t) ==
    \/ cancelTarget(t)
    \/ markSkipped(t)
    \/ persistTarget(t)
    \/ approve(t)
    \/ reject(t)

Next ==
    \/ \E t \in Targets : Begin(t) \/ Handle(t) \/ Write(t) \/ abandon(t) \/ syncTarget(t)
    \/ \E t \in SharedTargets : Interfere(t)
    \/ \E r \in Runs : endRun(r) \/ suspendRun(r) \/ resumeRun(r)
    \/ \E r \in Runs, c \in Clusters : clearActivePromotionRun(r, c)
    \/ \E c \in Clusters : syncCluster(c)

Spec == Init /\ [][Next]_vars

-----------------------------------------------------------------------------
(* Fairness: the workqueue hands out every queued key, a reconcile that    *)
(* has begun ends, and the informers deliver.  For liveness the            *)
(* environment settles at some unknown time: writers other than the        *)
(* reconcile fall silent, no call fails, and the cluster and the gates     *)
(* give their best answer.                                                 *)

Settled(t) ==
    \/ Begin(t)
    \/ handleInitial(t)
    \/ handlePending(t, TRUE, TRUE)
    \/ handleVerification(t, "Passed")
    \/ handleHealthCheck(t, TRUE, TRUE, "Passed")
    \/ handleSoaking(t, TRUE)
    \/ handleMetricsCheck(t, "Passed", TRUE)
    \/ handleWaitingApproval(t)
    \/ handleApplying(t, TRUE, TRUE, "Passed")
    \/ claimCluster(t)
    \/ issueApply(t, "Passed")
    \/ pollConvergence(t, "Passed")
    \/ writeStatus(t, TRUE)
    \/ writeCancelled(t, TRUE)
    \/ job[t].behind /\ abandon(t)
    \/ syncTarget(t)

SettledNext ==
    \/ \E t \in Targets : Settled(t)
    \/ \E c \in Clusters : syncCluster(c)

Fairness ==
    /\ \A t \in Targets : WF_vars(Settled(t)) /\ WF_vars(syncTarget(t))
    /\ \A c \in Clusters : WF_vars(syncCluster(c))
    /\ <>[][SettledNext]_vars

FairSpec == Spec /\ Fairness

-----------------------------------------------------------------------------
(* Properties.                                                             *)

\* The actuator is called for a target only after every gate its policy asks
\* for has answered Passed for it: no interleaving of stale reads, conflicts,
\* cancellations and restarts lets a version reach a cluster around a gate.
GatesBeforeApply ==
    \A t \in Targets : applies[t] > 0 => Required(t) \subseteq passed[t]

\* A target that needs an approval and was rejected before it was persisted
\* Applying never reaches the actuator, even if an approval arrives too and a
\* reconcile that has not seen the rejection is under way.
VetoWins ==
    \A t \in Targets :
        vetoed[t] => applies[t] = 0 /\ obj[t].status.phase \notin {"Applying", "Converged"}

\* Converged, and applyIssued, are persisted only of targets whose version was
\* handed to the actuator.
ConvergedWasApplied ==
    \A t \in Targets :
        obj[t].status.phase = "Converged" \/ obj[t].status.applyIssued => applies[t] > 0

\* A target with work left is never forgotten: while its run is not suspended,
\* a reconcile is under way, the key is queued, or an event is on its way that
\* will queue it.  Work is left when the phase is not terminal and when the
\* parent asked for a failed target to be skipped.
NoLostWakeup ==
    \A t \in Targets :
        \/ suspended[RunOf[t]]
        \/ job[t].pc # "idle" \/ queued[t] \/ lag[t] = "waking"
        \/ /\ obj[t].status.phase \in Terminal
           /\ obj[t].cancelled => obj[t].status.phase = obj[t].cancelledPhase

\* The order of the phases in buildFSM's graph: each set holds the phases up to
\* one of them, and no set holds a terminal phase.
Prefixes ==
    {{""},
     {"", "Pending"},
     {"", "Pending", "Verification"},
     {"", "Pending", "Verification", "HealthCheck"},
     {"", "Pending", "Verification", "HealthCheck", "Soaking"},
     {"", "Pending", "Verification", "HealthCheck", "Soaking", "MetricsCheck"},
     Phase \ ({"Applying"} \cup Terminal),
     Phase \ Terminal}

Forward(p, q) == \E S \in Prefixes : p \in S /\ q \notin S

\* The persisted phase moves only forward: a reconcile that started from an
\* old copy never takes a target back to an earlier phase or out of a
\* terminal one.  The one exception is the flip of a cancelled target.
PhaseMovesForward ==
    [][\A t \in Targets :
         obj'[t].status.phase # obj[t].status.phase =>
            \/ Forward(obj[t].status.phase, obj'[t].status.phase)
            \/ job[t].pc = "cancel" /\ obj'[t].status.phase \in Terminal]_vars

\* Once the environment settles every target reaches a terminal phase, unless
\* its run is suspended, it waits for an approval nobody gives, or another run
\* holds its cluster.
Terminates ==
    \A t \in Targets :
        <>(\/ obj[t].status.phase \in Terminal
           \/ suspended[RunOf[t]]
           \/ obj[t].status.phase = "WaitingApproval" /\ ~approved[t]
           \/ activeSeen[ClusterOf[t]] \notin {NoRun, RunOf[t]})

=============================================================================

------------------------------ MODULE Delivery ------------------------------
(***************************************************************************)
(* The delivery of versions to one pull-mode cluster, from the hub's       *)
(* Targets to the spoke's objects and back: the claim of the Cluster by a  *)
(* run (internal/controller), the pull actuator that records the desired   *)
(* version (internal/actuator/pull), the delivery loop of the spoke        *)
(* (cmd/kapro-cluster-controller), its OCI provider and the two-phase      *)
(* apply engine (internal/delivery).                                       *)
(*                                                                         *)
(* Runs that have a target on this cluster compete for it.  The hub's      *)
(* reconcilers read the Cluster from an informer cache (clusterSeen); the  *)
(* spoke reads it from the API server.  All of them write merge patches    *)
(* without a resource version.  One unit is delivered, under one app key;  *)
(* gates, heartbeat and the target's other phases are in Target, the run's *)
(* in PromotionRun.  Whether the workloads are healthy, which another      *)
(* controller reports, is an input of each reconcile.                      *)
(***************************************************************************)
EXTENDS Naturals, FiniteSets

CONSTANTS
    Runs,       \* PromotionRuns with a target on the cluster
    Versions,   \* versions of the unit
    VersionOf,  \* the version each run promotes
    Objects,    \* objects the artifact renders to
    Deletable,  \* runs a user may delete
    None,       \* an empty field
    MaxFaults   \* bound: failed calls, restarts, failed runs, changes of suspend

ASSUME DeliveryAssumption ==
    /\ VersionOf \in [Runs -> Versions]
    /\ Deletable \subseteq Runs
    /\ Objects # {} /\ IsFiniteSet(Objects)
    /\ None \notin Runs \cup Versions
    /\ MaxFaults \in Nat

VARIABLES
    cluster,      \* the Cluster object
    suspend,      \* its spec.suspend, which only the spoke reads here
    clusterSeen,  \* the hub's cached copy
    target,       \* each run's target: phase and applyIssued
    work,         \* the target reconcile in progress, one per run
    run,          \* status.phase of each run, "gone" once it is deleted
    clearing,     \* the run reconcile that clears the claim
    spoke,        \* the tick in progress on the spoke
    running,      \* version of each object on the spoke
    committed,    \* history: versions all objects have had at once
    faults        \* how many of the bounded events have happened

hub == <<target, work, run, clearing>>
spokeVars == <<spoke, running, committed>>
vars == <<cluster, suspend, clusterSeen, hub, spokeVars, faults>>

-----------------------------------------------------------------------------
Optional(S) == S \cup {None}

Cluster == [claim   : Optional(Runs),      \* status.activePromotionRun
            desired : Optional(Versions),  \* spec.desiredVersions
            current : Optional(Versions)]  \* status.currentVersions

NewCluster == [claim |-> None, desired |-> None, current |-> None]

Work == [pc      : {"idle", "claim", "apply", "poll"},
         current : Optional(Versions)]  \* currentVersions of the copy in hand
NoWork == [pc |-> "idle", current |-> None]

Tick == [version : Optional(Versions),  \* desired version of the copy read
         todo    : SUBSET Objects,      \* objects still to be committed
         errors  : BOOLEAN]             \* some step of the pass has failed
NoTick == [version |-> None, todo |-> {}, errors |-> FALSE]

\* Every variable stays in its type.
TypeOK ==
    /\ suspend \in BOOLEAN
    /\ cluster \in Cluster /\ clusterSeen \in Cluster
    /\ target \in [Runs -> [phase : {"Applying", "Converged", "Failed"}, issued : BOOLEAN]]
    /\ work \in [Runs -> Work]
    /\ run \in [Runs -> {"Progressing", "Complete", "Failed", "gone"}]
    /\ clearing \in [Runs -> {"idle", "clear", "delete"}]
    /\ spoke \in Tick
    /\ running \in [Objects -> Optional(Versions)]
    /\ committed \in SUBSET Versions
    /\ faults \in 0..MaxFaults

Init ==
    /\ suspend = FALSE
    /\ cluster = NewCluster /\ clusterSeen = NewCluster
    /\ target = [r \in Runs |-> [phase |-> "Applying", issued |-> FALSE]]
    /\ work = [r \in Runs |-> NoWork]
    /\ run = [r \in Runs |-> "Progressing"]
    /\ clearing = [r \in Runs |-> "idle"]
    /\ spoke = NoTick
    /\ running = [o \in Objects |-> None]
    /\ committed = {}
    /\ faults = 0

Fault ==
    /\ faults < MaxFaults
    /\ faults' = faults + 1

-----------------------------------------------------------------------------
(* handleApplying of a run's target.                                       *)

\* The Cluster is read from the cache; a claim of another run ends the
\* reconcile, which comes again after requeueNormal.
handleApplying(r) ==
    /\ work[r].pc = "idle" /\ target[r].phase = "Applying" /\ run[r] # "gone"
    /\ clusterSeen.claim \in {None, r}
    /\ work' = [work EXCEPT ![r] =
          [pc |-> CASE clusterSeen.claim = None                    -> "claim"
                    [] clusterSeen.claim = r /\ ~target[r].issued -> "apply"
                    [] OTHER                                       -> "poll",
           current |-> clusterSeen.current]]
    /\ UNCHANGED <<cluster, suspend, clusterSeen, target, run, clearing, spokeVars, faults>>

\* The patch sets the claim whoever holds it by now, and its response
\* replaces the copy.
claimCluster(r) ==
    /\ work[r].pc = "claim"
    /\ cluster' = [cluster EXCEPT !.claim = r]
    /\ work' = [work EXCEPT ![r] = [pc |-> IF target[r].issued THEN "poll" ELSE "apply",
                                    current |-> cluster.current]]
    /\ UNCHANGED <<suspend, clusterSeen, target, run, clearing, spokeVars, faults>>

\* ApplyDelta reads the Cluster again, from the cache, and patches only if
\* that copy has another desired version.
ApplyDelta(r) ==
    /\ work[r].pc = "apply"
    /\ cluster' = [cluster EXCEPT !.desired =
                      IF clusterSeen.desired = VersionOf[r] THEN @ ELSE VersionOf[r]]
    /\ work' = [work EXCEPT ![r].pc = "poll"]
    /\ UNCHANGED <<suspend, clusterSeen, target, run, clearing, spokeVars, faults>>

\* IsAllConverged looks at the copy the reconcile started from, or the one the
\* claim returned.
IsAllConverged(r, healthy) == work[r].current = VersionOf[r] /\ healthy

\* The end of the reconcile writes the status back, unless the target was
\* cancelled meanwhile: the update is conditional.
pollConvergence(r) ==
    /\ work[r].pc = "poll"
    /\ \E healthy \in BOOLEAN :
          target' = [target EXCEPT ![r] =
              IF @.phase # "Applying" THEN @
              ELSE [phase |-> IF IsAllConverged(r, healthy) THEN "Converged" ELSE "Applying",
                    issued |-> TRUE]]
    /\ work' = [work EXCEPT ![r] = NoWork]
    /\ UNCHANGED <<cluster, suspend, clusterSeen, run, clearing, spokeVars, faults>>

\* A failed call or a restart of the operator ends the reconcile.
abandonTarget(r) ==
    /\ work[r].pc # "idle" /\ Fault
    /\ work' = [work EXCEPT ![r] = NoWork]
    /\ UNCHANGED <<cluster, suspend, clusterSeen, target, run, clearing, spokeVars>>

-----------------------------------------------------------------------------
(* The run's side of the claim.                                            *)

\* clearActivePromotionRun looks for the run's own claim in the cache; if it
\* is not there, a deleted run loses its finalizer at once.
BeginClear(r, phase, deleted) ==
    IF clusterSeen.claim = r
    THEN /\ clearing' = [clearing EXCEPT ![r] = IF deleted THEN "delete" ELSE "clear"]
         /\ run' = [run EXCEPT ![r] = phase]
    ELSE /\ run' = [run EXCEPT ![r] = IF deleted THEN "gone" ELSE phase]
         /\ UNCHANGED clearing

\* The run completes with its target, or fails with it or before it.
endRun(r) ==
    /\ run[r] = "Progressing" /\ clearing[r] = "idle"
    /\ \/ target[r].phase = "Converged" /\ BeginClear(r, "Complete", FALSE) /\ UNCHANGED faults
       \/ target[r].phase = "Failed" /\ BeginClear(r, "Failed", FALSE) /\ UNCHANGED faults
       \/ target[r].phase = "Applying" /\ Fault /\ BeginClear(r, "Failed", FALSE)
    /\ UNCHANGED <<cluster, suspend, clusterSeen, target, work, spokeVars>>

\* The target obeys the cancellation of a failed run.
cancelTarget(r) ==
    /\ run[r] = "Failed" /\ target[r].phase = "Applying"
    /\ target' = [target EXCEPT ![r].phase = "Failed"]
    /\ UNCHANGED <<cluster, suspend, clusterSeen, work, run, clearing, spokeVars, faults>>

\* A failed run clears again with every event of its targets.
handleFailed(r) ==
    /\ run[r] = "Failed" /\ clearing[r] = "idle"
    /\ BeginClear(r, "Failed", FALSE)
    /\ UNCHANGED <<cluster, suspend, clusterSeen, target, work, spokeVars, faults>>

handleDeletion(r) ==
    /\ r \in Deletable /\ run[r] # "gone" /\ clearing[r] = "idle"
    /\ BeginClear(r, run[r], TRUE)
    /\ UNCHANGED <<cluster, suspend, clusterSeen, target, work, spokeVars, faults>>

\* The patch empties the claim, whoever holds it by now; an error is logged and
\* the finalizer removed all the same.
clearActivePromotionRun(r) ==
    /\ clearing[r] # "idle"
    /\ \/ cluster' = [cluster EXCEPT !.claim = None] /\ UNCHANGED faults
       \/ Fault /\ UNCHANGED cluster
    /\ clearing' = [clearing EXCEPT ![r] = "idle"]
    /\ run' = [run EXCEPT ![r] = IF clearing[r] = "delete" THEN "gone" ELSE @]
    /\ UNCHANGED <<suspend, clusterSeen, target, work, spokeVars>>

-----------------------------------------------------------------------------
(* The spoke.                                                              *)

\* Fault: a cluster whose objects have the version is left alone.
BeginOnChange ==
    /\ spoke = NoTick
    /\ ~suspend /\ cluster.desired # None /\ \E o \in Objects : running[o] # cluster.desired
    /\ spoke' = [version |-> cluster.desired, todo |-> Objects, errors |-> FALSE]
    /\ UNCHANGED <<cluster, suspend, clusterSeen, hub, running, committed, faults>>

\* A tick reads the live Cluster.  A suspended cluster and an empty desired
\* version end it without a change of currentVersions.
beginTick ==
    /\ spoke = NoTick
    /\ ~suspend /\ cluster.desired # None
    /\ spoke' = [version |-> cluster.desired, todo |-> Objects, errors |-> FALSE]
    /\ UNCHANGED <<cluster, suspend, clusterSeen, hub, running, committed, faults>>

\* resolveSubstrate, Pull, DetectFormat, Render or the dry run of some object
\* fails: nothing is committed.
failBeforeCommit ==
    /\ spoke.todo = Objects /\ Fault
    /\ spoke' = [spoke EXCEPT !.todo = {}, !.errors = TRUE]
    /\ UNCHANGED <<cluster, suspend, clusterSeen, hub, running, committed>>

\* The commit goes on past an object that fails.
commitObject(o) ==
    /\ o \in spoke.todo
    /\ \/ /\ running' = [running EXCEPT ![o] = spoke.version]
          /\ spoke' = [spoke EXCEPT !.todo = @ \ {o}]
          /\ UNCHANGED faults
       \/ /\ Fault
          /\ spoke' = [spoke EXCEPT !.todo = @ \ {o}, !.errors = TRUE]
          /\ UNCHANGED running
    /\ committed' = committed \cup {v \in Versions : \A p \in Objects : running'[p] = v}
    /\ UNCHANGED <<cluster, suspend, clusterSeen, hub>>

\* Fault: the version desired by now is reported, not the one of the pass.
ReportDesired ==
    /\ spoke # NoTick /\ spoke.todo = {}
    /\ cluster' = [cluster EXCEPT !.current = IF spoke.errors THEN @ ELSE cluster.desired]
    /\ spoke' = NoTick
    /\ UNCHANGED <<suspend, clusterSeen, hub, running, committed, faults>>

\* currentVersions advances only when the pass has converged.  Nobody else
\* writes it, so the difference to the copy read is the difference to now.
writeStatus ==
    /\ spoke # NoTick /\ spoke.todo = {}
    /\ cluster' = [cluster EXCEPT !.current = IF spoke.errors THEN @ ELSE spoke.version]
    /\ spoke' = NoTick
    /\ UNCHANGED <<suspend, clusterSeen, hub, running, committed, faults>>

\* The status patch fails, the tick's time is up, or the spoke restarts.
abandonTick ==
    /\ spoke # NoTick /\ Fault
    /\ spoke' = NoTick
    /\ UNCHANGED <<cluster, suspend, clusterSeen, hub, running, committed>>

-----------------------------------------------------------------------------
(* The surroundings.                                                       *)

syncCluster ==
    /\ clusterSeen # cluster
    /\ clusterSeen' = cluster
    /\ UNCHANGED <<cluster, suspend, hub, spokeVars, faults>>

\* external: an operator suspends or resumes the cluster.
toggleSuspend ==
    /\ Fault
    /\ suspend' = ~suspend
    /\ UNCHANGED <<cluster, clusterSeen, hub, spokeVars>>

Spoke == beginTick \/ (\E o \in Objects : commitObject(o)) \/ writeStatus

HubStep(r) ==
    \/ handleApplying(r) \/ claimCluster(r) \/ ApplyDelta(r) \/ pollConvergence(r) \/ abandonTarget(r)
    \/ endRun(r) \/ cancelTarget(r) \/ handleFailed(r) \/ handleDeletion(r)
    \/ clearActivePromotionRun(r)

Next ==
    \/ \E r \in Runs : HubStep(r)
    \/ Spoke \/ failBeforeCommit \/ abandonTick
    \/ syncCluster \/ toggleSuspend

Spec == Init /\ [][Next]_vars

\* The delivery loop ticks for as long as the spoke runs.
FairSpec == Spec /\ WF_vars(Spoke)

-----------------------------------------------------------------------------
(* Properties.                                                             *)

\* "that map records the last successfully committed version per app"
\* (cluster_types.go): currentVersions names a version that all objects have
\* had, however often the desired version changed during the pass.
ReportedWasCommitted == cluster.current # None => cluster.current \in committed

\* A target converges only on a version that has been on the cluster, although
\* it compares with a cached copy and another run may have taken the cluster.
ConvergedWasDelivered ==
    \A r \in Runs : target[r].phase = "Converged" => VersionOf[r] \in committed

\* Neither a report nor a convergence is made up: whatever was lost, repeated or
\* read too late, the version was on every object at some time.
DeliveryIsHonest == ReportedWasCommitted /\ ConvergedWasDelivered

\* What the hub last asked for is what the spoke reports in the end, through
\* failed passes, lost reports and restarts.
SpokeFollows ==
    <>[](cluster.desired # None /\ ~suspend => cluster.current = cluster.desired)
=============================================================================

-------------------------------- MODULE Push --------------------------------
(***************************************************************************)
(* Push delivery: the actuators with which handleApplying of the           *)
(* TargetReconciler writes the version of each unit into an object of the  *)
(* substrate and asks whether the workload has it (internal/actuator).     *)
(*                                                                         *)
(*   direct  one Deployment per unit, read from the informer cache         *)
(*   argo    one Application per unit, read from the API server            *)
(*   flux    one ResourceSet with an entry per cluster, read from the API  *)
(*           server; the Flux Operator renders a HelmRelease per unit      *)
(*   plugin  a call of an actuator plugin per unit                         *)
(*                                                                         *)
(* Several targets are reconciled at once, each for a cluster of its own.  *)
(* The versions of a unit in Cluster.status.currentVersions are reported   *)
(* by pull-mode spokes only and are empty here.  An actuator that cannot   *)
(* be resolved, and a call that is refused, end the reconcile unchanged.   *)
(***************************************************************************)
EXTENDS Naturals, FiniteSets

CONSTANTS
    Clusters, Units, Versions,
    MaxPromotions,  \* bound: targets per cluster
    MaxFaults       \* bound: failed calls, lost updates, failed targets

VARIABLES
    kind,       \* the actuator
    object,     \* the objects the actuator writes
    seen,       \* the cached copies of them
    release,    \* the HelmRelease of each unit, for flux
    running,    \* the version of each unit that runs
    target,     \* the target of each cluster
    work,       \* the reconcile in progress of each target
    overtaken,  \* history: targets that wrote from a copy without another one's
                \* write, or whose write such a write has undone
    faults

vars == <<kind, object, seen, release, running, target, work, overtaken, faults>>

-----------------------------------------------------------------------------
Kinds == {"direct", "argo", "flux", "plugin"}

\* A unit on a cluster.  An object is named by the slots whose versions are in
\* one list or field of it, which a merge patch replaces as a whole.
Slots == Clusters \X Units
ObjectOf(s) == IF kind = "flux" THEN Slots ELSE {s}
Objects == {ObjectOf(s) : s \in Slots}
SlotsOf(c) == {s \in Slots : s[1] = c}

\* fresh: the status is that of the current generation.  An Application's sync
\* status and a Ready condition are there all the time, fresh or not.
Object(o) == [want : [o -> Versions], fresh : BOOLEAN, ready : BOOLEAN]
Release == [want : Versions, fresh : BOOLEAN, ready : BOOLEAN]

Target == [version : Versions, issued : BOOLEAN, n : 1..MaxPromotions,
           phase : {"Applying", "Converged", "Failed"}]
Work == [pc   : {"idle", "read", "patch", "poll"},
         todo : SUBSET Slots,                    \* slots left to write
         at   : Objects \union {{}},             \* the object read
         new  : UNION {[o -> Versions] : o \in Objects \union {{}}}]  \* what it is to want
Idle == [pc |-> "idle", todo |-> {}, at |-> {}, new |-> [s \in {} |-> 0]]

\* Every variable stays in its type.
TypeOK ==
    /\ kind \in Kinds
    /\ DOMAIN object = Objects /\ DOMAIN seen = Objects
    /\ \A o \in Objects : object[o] \in Object(o) /\ seen[o] \in Object(o)
    /\ release \in [Slots -> Release] /\ running \in [Slots -> Versions]
    /\ target \in [Clusters -> Target]
    /\ work \in [Clusters -> Work]
    /\ overtaken \subseteq Clusters
    /\ faults \in 0..MaxFaults

\* Version v runs everywhere, and the first targets ask for another one.
Init ==
    /\ kind \in Kinds
    /\ \E v \in Versions :
         /\ object = [o \in Objects |-> [want |-> [s \in o |-> v], fresh |-> TRUE, ready |-> TRUE]]
         /\ release = [s \in Slots |-> [want |-> v, fresh |-> TRUE, ready |-> TRUE]]
         /\ running = [s \in Slots |-> v]
         /\ target \in [Clusters -> {[version |-> w, issued |-> FALSE, n |-> 1, phase |-> "Applying"] :
                                       w \in Versions \ {v}}]
    /\ seen = object
    /\ work = [c \in Clusters |-> Idle]
    /\ overtaken = {}
    /\ faults = 0

Fault ==
    /\ faults < MaxFaults
    /\ faults' = faults + 1

Substrate == <<release, running>>

-----------------------------------------------------------------------------
(* handleApplying.                                                         *)

\* The actuator is resolved; a target whose apply was issued is only polled.
beginApplying(c) ==
    /\ target[c].phase = "Applying" /\ work[c].pc = "idle"
    /\ work' = [work EXCEPT ![c] =
          IF target[c].issued THEN [Idle EXCEPT !.pc = "poll"]
          ELSE [Idle EXCEPT !.pc = "read", !.todo = SlotsOf(c)]]
    /\ UNCHANGED <<kind, object, seen, Substrate, target, overtaken, faults>>

CopyOf(o) == IF kind = "direct" THEN seen[o] ELSE object[o]

Written(c, want) == [s \in DOMAIN want |-> IF s[1] = c THEN target[c].version ELSE want[s]]

\* When the copy has the version already nothing is written (direct, flux), or
\* nothing but a request to sync (argo).  A plugin is called in any case.
NothingToWrite(c, o) == kind # "plugin" /\ Written(c, CopyOf(o).want) = CopyOf(o).want

\* ApplyDelta: the object of the next unit is read.
ApplyDelta(c) ==
    /\ work[c].pc = "read"
    /\ IF work[c].todo = {}
       THEN work' = [work EXCEPT ![c] = [Idle EXCEPT !.pc = "poll"]] /\ UNCHANGED overtaken
       ELSE \E s \in work[c].todo :
              LET o == ObjectOf(s)
                  left == work[c].todo \ o
              IN  /\ work' = [work EXCEPT ![c] =
                        IF NothingToWrite(c, o) THEN [Idle EXCEPT !.pc = "read", !.todo = left]
                        ELSE [pc |-> "patch", todo |-> left, at |-> o,
                              new |-> Written(c, CopyOf(o).want)]]
                  /\ overtaken' = IF CopyOf(o).want = object[o].want THEN overtaken
                                  ELSE overtaken \union {c}
    /\ UNCHANGED <<kind, object, seen, Substrate, target, faults>>

Wanting(o, want) ==
    [object EXCEPT ![o].want = want, ![o].fresh = @ /\ object[o].want = want]

\* The merge patch carries the whole field or list.
setTargetRevision(c) ==
    LET o == work[c].at
        new == work[c].new
        undone == {d \in Clusters \ {c} : \E s \in o \intersect SlotsOf(d) : new[s] # object[o].want[s]}
    IN  /\ work[c].pc = "patch"
        /\ object' = Wanting(o, new)
        /\ overtaken' = overtaken \union undone
        /\ work' = [work EXCEPT ![c] = [Idle EXCEPT !.pc = "read", !.todo = work[c].todo]]
        /\ UNCHANGED <<kind, seen, Substrate, target, faults>>

Wants(c, s) == CopyOf(ObjectOf(s)).want[s] = target[c].version

\* The Deployment wants the version, and its status is that of its generation
\* and has all replicas updated and available.
DirectConverged(c) ==
    \A s \in SlotsOf(c) : Wants(c, s) /\ seen[ObjectOf(s)].fresh /\ seen[ObjectOf(s)].ready

\* The Application wants the version and is Synced and Healthy.
ArgoConverged(c) == \A s \in SlotsOf(c) : Wants(c, s) /\ object[ObjectOf(s)].ready

\* The first HelmRelease of the inventory that is of the cluster is Ready.
checkHelmReleaseFromInventory(c) == \E s \in SlotsOf(c) : release[s].ready

\* The ResourceSet is Ready, the cluster's entry wants the version.
FluxConverged(c) ==
    /\ \A s \in SlotsOf(c) : Wants(c, s) /\ object[ObjectOf(s)].ready
    /\ checkHelmReleaseFromInventory(c)

\* What a plugin answers that keeps its promise.
PluginConverged(c) == \A s \in SlotsOf(c) : running[s] = target[c].version

IsAllConverged(c) ==
    CASE kind = "direct" -> DirectConverged(c)
      [] kind = "argo" -> ArgoConverged(c)
      [] kind = "flux" -> FluxConverged(c)
      [] kind = "plugin" -> PluginConverged(c)

\* The convergence is polled in the reconcile that applied, and one update
\* records both.
pollConvergence(c) ==
    /\ work[c].pc = "poll"
    /\ target' = [target EXCEPT ![c].issued = TRUE,
                                ![c].phase = IF IsAllConverged(c) THEN "Converged" ELSE @]
    /\ work' = [work EXCEPT ![c] = Idle]
    /\ UNCHANGED <<kind, object, seen, Substrate, overtaken, faults>>

\* Fault: an apply that fails counts as issued.
FailIssued(c) ==
    /\ work[c] # Idle /\ Fault
    /\ work' = [work EXCEPT ![c] = Idle]
    /\ target' = [target EXCEPT ![c].issued = TRUE]
    /\ UNCHANGED <<kind, object, seen, Substrate, overtaken>>

\* A call fails, the update is refused, or the operator restarts.
failReconcile(c) ==
    /\ work[c] # Idle /\ Fault
    /\ work' = [work EXCEPT ![c] = Idle]
    /\ UNCHANGED <<kind, object, seen, Substrate, target, overtaken>>

-----------------------------------------------------------------------------
(* The others.                                                             *)

\* The target times out or is cancelled; the next run has one for the cluster.
failTarget(c) ==
    /\ target[c].phase = "Applying" /\ work[c] = Idle /\ Fault
    /\ target' = [target EXCEPT ![c].phase = "Failed"]
    /\ UNCHANGED <<kind, object, seen, Substrate, work, overtaken>>

promote(c) ==
    /\ target[c].phase # "Applying" /\ target[c].n < MaxPromotions
    /\ \E v \in Versions \ {target[c].version} :
         target' = [target EXCEPT ![c] = [version |-> v, issued |-> FALSE, n |-> @.n + 1, phase |-> "Applying"]]
    /\ overtaken' = overtaken \ {c}
    /\ UNCHANGED <<kind, object, seen, Substrate, work, faults>>

\* The substrate's controller sees the object: the Flux Operator renders the
\* HelmReleases, the others compare what runs with it.
observe(o) ==
    /\ IF kind = "flux"
       THEN /\ ~object[o].fresh
            /\ object' = [object EXCEPT ![o].fresh = TRUE]
            /\ release' = [s \in Slots |->
                 [release[s] EXCEPT !.want = object[o].want[s],
                                    !.fresh = @ /\ release[s].want = object[o].want[s]]]
       ELSE /\ object' = [object EXCEPT ![o] = [@ EXCEPT !.fresh = TRUE,
                            !.ready = \A s \in o : running[s] = object[o].want[s]]]
            /\ object' # object /\ UNCHANGED release
    /\ UNCHANGED <<kind, seen, running, target, work, overtaken, faults>>

\* The helm-controller compares what runs with the HelmRelease.
observeRelease(s) ==
    /\ kind = "flux"
    /\ release' = [release EXCEPT ![s] =
          [@ EXCEPT !.fresh = TRUE, !.ready = (running[s] = release[s].want)]]
    /\ release' # release
    /\ UNCHANGED <<kind, object, seen, running, target, work, overtaken, faults>>

rollOut(s) ==
    /\ LET from == IF kind = "flux" THEN release[s] ELSE [object[ObjectOf(s)] EXCEPT !.want = @[s]]
       IN  from.fresh /\ running' = [running EXCEPT ![s] = from.want]
    /\ running' # running
    /\ UNCHANGED <<kind, object, seen, release, target, work, overtaken, faults>>

syncObject(o) ==
    /\ kind = "direct"
    /\ seen[o] # object[o] /\ seen' = [seen EXCEPT ![o] = object[o]]
    /\ UNCHANGED <<kind, object, Substrate, target, work, overtaken, faults>>

Apply(c) == beginApplying(c) \/ ApplyDelta(c) \/ setTargetRevision(c) \/ pollConvergence(c)
Follow == \/ \E o \in Objects : observe(o) \/ syncObject(o)
          \/ \E s \in Slots : observeRelease(s) \/ rollOut(s)

Next ==
    \/ \E c \in Clusters : Apply(c) \/ failReconcile(c) \/ failTarget(c) \/ promote(c)
    \/ Follow

Spec == Init /\ [][Next]_vars

-----------------------------------------------------------------------------
(* Properties.                                                             *)

\* A target that has converged runs its version in all its units, unless a
\* copy hid another target's write.
ConvergedIsRunning ==
    \A c \in Clusters \ overtaken :
       target[c].phase = "Converged" => \A s \in SlotsOf(c) : running[s] = target[c].version

\* With Deployments this is so: a stale status and a stale copy are both told
\* by the generation (direct's IsConverged); so it is with a plugin.
DirectIsRunning == kind \in {"direct", "plugin"} => ConvergedIsRunning

\* In the end no target is left Applying whatever calls and updates failed on
\* the way, unless its write was undone or left out (handleApplying retries an
\* apply until it has gone through as a whole).
TargetsEnd == \A c \in Clusters : <>[](target[c].phase # "Applying" \/ c \in overtaken)

=============================================================================

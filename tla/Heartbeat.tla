------------------------------ MODULE Heartbeat ------------------------------
(***************************************************************************)
(* Whether a cluster can be reached: the spoke's heartbeat Lease           *)
(* (cmd/kapro-cluster-controller/heartbeat.go), the ClusterHeartbeat       *)
(* reconciler that turns it into the Ready condition, the Fleet reconciler *)
(* that writes the same condition, and the gate of the Target controller   *)
(* that reads it (internal/controller/heartbeat.go).                       *)
(*                                                                         *)
(* The conditions are one list.  A merge patch of the status replaces the  *)
(* whole list by the writer's copy, so it carries the other writers'       *)
(* conditions as they were when the writer read its cache.                 *)
(***************************************************************************)
EXTENDS Naturals

CONSTANTS
    Threshold,   \* spec.consecutiveFailureThreshold
    MaxFaults    \* bound: outages of the spoke, suspensions, failed calls

VARIABLES
    mode,      \* spec.substrate.mode
    cluster,   \* the Cluster in the API server
    seen,      \* the caches' copy of it
    lease,     \* the age of the Lease, as the hub sees it
    up,        \* the spoke reaches the hub
    hb,        \* the heartbeat reconcile in progress
    fleet,     \* the Fleet reconcile in progress
    reg,       \* the bootstrap reconciler's key is queued
    noted,     \* the Lease of now was reconciled from an up-to-date cache
    streak,    \* history: stale observations since the last fresh one
    faults

vars == <<mode, cluster, seen, lease, up, hb, fleet, reg, noted, streak,
          faults>>

-----------------------------------------------------------------------------
Reason == {"", "Suspended", "PushModeNoHeartbeat", "NotRegistered",
           "HeartbeatFresh", "HeartbeatStale", "Unreachable",
           "Converging", "AllHelmReleasesReady"}

\* The status of the Ready condition with this reason.
ReadyStatus(reason) ==
    CASE reason \in {"HeartbeatFresh", "PushModeNoHeartbeat", "AllHelmReleasesReady"} -> "True"
      [] reason \in {"Unreachable", "Converging"} -> "False"
      [] OTHER -> "Unknown"

\* The conditions Ready (its reason) and Registered: one list.
Conditions == [ready : Reason, registered : BOOLEAN]

Cluster == [suspend : BOOLEAN, used : BOOLEAN, conds : Conditions,
            misses : 0..Threshold]

\* Nothing, or one value.
Optional(S) == {{}} \cup {{x} : x \in S}

\* What a reconcile is about to patch; a field that is equal to the copy's is not
\* sent.  The heartbeat reconciler notes whether its copy was up to date.
HeartbeatPatch == [conds : Conditions, misses : Optional(0..Threshold), noting : BOOLEAN]

\* Every variable stays in its type; the misses never count past the threshold.
TypeOK ==
    /\ mode \in {"pull", "push"}
    /\ cluster \in Cluster /\ seen \in Cluster
    /\ lease \in {"missing", "fresh", "stale"} /\ up \in BOOLEAN
    /\ hb \in Optional(HeartbeatPatch) /\ fleet \in [busy : BOOLEAN, conds : Optional(Conditions)]
    /\ reg \in BOOLEAN /\ noted \in BOOLEAN /\ streak \in 0..Threshold
    /\ faults \in 0..MaxFaults

NewCluster ==
    [suspend |-> FALSE, used |-> FALSE, misses |-> 0,
     conds |-> [ready |-> "", registered |-> FALSE]]

NoFleetPatch == [busy |-> FALSE, conds |-> {}]

Init ==
    /\ mode \in {"pull", "push"}
    /\ cluster = NewCluster /\ seen = NewCluster
    /\ lease = "missing" /\ up = TRUE
    /\ hb = {} /\ fleet = NoFleetPatch
    /\ reg = FALSE /\ noted = FALSE /\ streak = 0
    /\ faults = 0

Fault == faults < MaxFaults /\ faults' = faults + 1

AtMost(a, b) == IF a < b THEN a ELSE b

\* A merge patch leaves alone what does not differ from the copy.
Sent(new, old) == IF new # old THEN {new} ELSE {}
Merge(sent, now) == IF sent = {} THEN now ELSE CHOOSE new \in sent : TRUE

-----------------------------------------------------------------------------
(* The heartbeat reconciler.  It reads the caches, computes, and patches;  *)
(* it is queued again after half of the Lease's freshness, whatever        *)
(* happened.                                                               *)

\* Fault: a fresh Lease does not reset the count.
ComputeWithoutReset(c, verdict) ==
    LET misses == AtMost(c.misses + 1, Threshold) IN
    CASE verdict = "fresh" -> [reason |-> "HeartbeatFresh", misses |-> c.misses]
      [] OTHER -> [reason |-> IF misses >= Threshold THEN "Unreachable" ELSE "HeartbeatStale",
                   misses |-> misses]

\* What computeDesiredReady answers for the copy c and the Lease's verdict.  A
\* failed read of the Lease is not counted as a miss.  (The count stops at the
\* threshold here; in the code it goes on without effect.)
computeDesiredReady(c, verdict) ==
    LET misses == AtMost(c.misses + 1, Threshold) IN
    CASE c.suspend -> [reason |-> "Suspended", misses |-> 0]
      [] ~c.suspend /\ mode = "push" -> [reason |-> "PushModeNoHeartbeat", misses |-> 0]
      [] ~c.suspend /\ mode = "pull" /\ ~c.used -> [reason |-> "NotRegistered", misses |-> 0]
      [] OTHER ->
         CASE verdict = "error" -> [reason |-> "HeartbeatStale", misses |-> c.misses]
           [] verdict = "fresh" -> [reason |-> "HeartbeatFresh", misses |-> 0]
           [] verdict \in {"stale", "missing"} ->
              [reason |-> IF misses >= Threshold THEN "Unreachable" ELSE "HeartbeatStale",
               misses |-> misses]

\* readLeaseFreshness reads the Lease, or fails.
readLeaseFreshness(verdict) ==
    \/ verdict = lease /\ UNCHANGED faults
    \/ verdict = "error" /\ Fault

reconcileHeartbeat(verdict) ==
    /\ hb = {} /\ readLeaseFreshness(verdict)
    /\ LET desired == computeDesiredReady(seen, verdict) IN
       \* The message tells the age of the Lease: the conditions always differ.
       hb' = {[conds |-> [seen.conds EXCEPT !.ready = desired.reason],
               misses |-> Sent(desired.misses, seen.misses),
               noting |-> seen.misses = cluster.misses /\ desired.misses = 0]}
    /\ streak' = CASE verdict = "fresh" -> 0
                   [] verdict = "error" -> streak
                   [] OTHER -> AtMost(streak + 1, Threshold)
    /\ UNCHANGED <<mode, cluster, seen, lease, up, fleet, reg, noted>>

applyDesired ==
    /\ \E patch \in hb :
         /\ cluster' = [cluster EXCEPT !.conds = patch.conds, !.misses = Merge(patch.misses, @)]
         /\ noted' = (noted \/ patch.noting)
    /\ hb' = {}
    /\ UNCHANGED <<mode, seen, lease, up, fleet, reg, streak, faults>>

failPatch ==
    /\ hb # {} /\ Fault
    /\ hb' = {}
    /\ UNCHANGED <<mode, cluster, seen, lease, up, fleet, reg, noted, streak>>

-----------------------------------------------------------------------------
(* The Fleet reconciler's syncFleetClusterStatus.  The Helm releases are   *)
(* all ready, or they are not.                                             *)

\* Fault: the condition takes over the reason of the Helm release.
FleetReasonOfRelease(allReady) ==
    /\ ~fleet.busy
    /\ fleet' = [busy |-> TRUE,
                 conds |-> {[seen.conds EXCEPT !.ready = IF allReady THEN @ ELSE "InstallFailed"]}]
    /\ UNCHANGED <<mode, cluster, seen, lease, up, hb, reg, noted, streak, faults>>

reconcileFleet(allReady) ==
    /\ ~fleet.busy
    /\ LET reason == IF allReady THEN "AllHelmReleasesReady" ELSE "Converging" IN
       fleet' = [busy |-> TRUE, conds |-> Sent([seen.conds EXCEPT !.ready = reason], seen.conds)]
    /\ UNCHANGED <<mode, cluster, seen, lease, up, hb, reg, noted, streak, faults>>

syncFleetClusterStatus ==
    /\ fleet.busy
    /\ cluster' = [cluster EXCEPT !.conds = Merge(fleet.conds, @)]
    /\ fleet' = NoFleetPatch
    /\ UNCHANGED <<mode, seen, lease, up, hb, reg, noted, streak, faults>>

-----------------------------------------------------------------------------
(* The bootstrap reconciler, as far as it writes the same conditions.      *)

\* markBootstrapUsed: an update of the newest version.
markBootstrapUsed ==
    /\ ~cluster.used
    /\ cluster' = [cluster EXCEPT !.used = TRUE, !.conds.registered = TRUE]
    /\ UNCHANGED <<mode, seen, lease, up, hb, fleet, reg, noted, streak, faults>>

\* handleRegistered asserts the condition again when it is queued; it is not
\* queued again by itself, and its watch leaves out changes of conditions.
handleRegistered ==
    /\ reg /\ reg' = FALSE
    /\ cluster' = IF seen.used /\ ~seen.conds.registered
                  THEN [cluster EXCEPT !.conds = [seen.conds EXCEPT !.registered = TRUE]]
                  ELSE cluster
    /\ UNCHANGED <<mode, seen, lease, up, hb, fleet, noted, streak, faults>>

-----------------------------------------------------------------------------
(* The spoke, time, the caches, the operator.                              *)

\* The spoke's heartbeat: it creates the Lease or renews it.
heartbeatTick ==
    /\ mode = "pull" /\ up /\ cluster.used /\ lease # "fresh"
    /\ lease' = "fresh" /\ noted' = FALSE
    /\ UNCHANGED <<mode, cluster, seen, up, hb, fleet, reg, streak, faults>>

\* heartbeatFreshTimeout passes without a renewal.  heartbeatReconcileRequeue is
\* half of it, so that a reconcile has seen the Lease fresh before, from a cache
\* that had caught up; by now the cache shows what that reconcile wrote.
leaseAges ==
    /\ lease = "fresh" /\ ~up /\ noted /\ seen.misses = cluster.misses
    /\ lease' = "stale"
    /\ UNCHANGED <<mode, cluster, seen, up, hb, fleet, reg, noted, streak, faults>>

goDown ==
    /\ up /\ Fault
    /\ up' = FALSE
    /\ UNCHANGED <<mode, cluster, seen, lease, hb, fleet, reg, noted, streak>>

comeUp ==
    /\ ~up /\ up' = TRUE
    /\ UNCHANGED <<mode, cluster, seen, lease, hb, fleet, reg, noted, streak, faults>>

toggleSuspend ==
    /\ Fault
    /\ cluster' = [cluster EXCEPT !.suspend = ~@]
    /\ UNCHANGED <<mode, seen, lease, up, hb, fleet, reg, noted, streak>>

syncCluster ==
    /\ seen # cluster
    /\ seen' = cluster
    /\ reg' = (reg \/ seen.used # cluster.used \/ seen.suspend # cluster.suspend)
    /\ UNCHANGED <<mode, cluster, lease, up, hb, fleet, noted, streak, faults>>

-----------------------------------------------------------------------------
Heartbeats == applyDesired \/ \E v \in {"missing", "fresh", "stale", "error"} : reconcileHeartbeat(v)

Fleets == syncFleetClusterStatus \/ \E ready \in BOOLEAN : reconcileFleet(ready)

Next ==
    \/ Heartbeats \/ failPatch
    \/ Fleets
    \/ markBootstrapUsed \/ handleRegistered
    \/ heartbeatTick \/ leaseAges \/ goDown \/ comeUp
    \/ toggleSuspend
    \/ syncCluster

Spec == Init /\ [][Next]_vars

-----------------------------------------------------------------------------
(* Properties.                                                             *)

\* The gate the Target controller puts before every side effect.
requireFreshHeartbeat == mode # "pull" \/ ReadyStatus(seen.conds.ready) = "True"

\* Hysteresis: a cluster is declared unreachable only after Threshold
\* observations of a stale Lease with no fresh one between them, whoever else
\* patches the status meanwhile ("a single missed Lease renewal does not flap
\* Ready").
UnreachableEarned ==
    \A patch \in hb : patch.conds.ready = "Unreachable" => streak >= Threshold

\* A spoke that is down for good is found out, and Ready says so again and again
\* whatever the other writers of the conditions do.
DownIsNoticed ==
    <>[](~up /\ ~cluster.suspend /\ mode = "pull") => []<>(cluster.conds.ready = "Unreachable")

\* A spoke that is back for good lets targets through again.
RecoveryIsNoticed == <>[](up /\ ~cluster.suspend) => []<>requireFreshHeartbeat

=============================================================================

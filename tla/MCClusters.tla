----------------------------- MODULE MCClusters -----------------------------
(***************************************************************************)
(* The clusters of a fleet: how a spoke gets its certificate (Bootstrap),  *)
(* whether it is there (Heartbeat), which Clusters there are (Fleet), what *)
(* the spoke delivers by itself (SpokeLoop), what the hub writes into Argo *)
(* CD, Flux and Deployments (Push) and which values go with it             *)
(* (ResourceSet).                                                          *)
(* The modules have their own Cluster objects, so a behaviour is one of    *)
(* any of them: part says of which, and the others stay as they begin.     *)
(***************************************************************************)
EXTENDS Integers, Sequences, TLC

CONSTANTS
    None,
    Parts   \* the modules that run

VARIABLES
    part, faults,
    bcluster, bseen, current, csr, csrSeen, sa, token, rbac, slotOver, queued, job, bspoke, stored, lost,
    mode, hcluster, hseen, lease, up, hb, fleet, reg, noted, streak,
    listed, version, inventory, fsecret, fcluster, fseen, fspoke, pass, discovered, import, edits,
    scluster, substrate, secret, repo, srelease, tick, ran, changes,
    kind, object, pseen, release, running, target, work, overtaken,
    source, set, rpass, promoted, redits

-----------------------------------------------------------------------------
\* A second request of the spoke, and one crash, time-out or lost call.
B == INSTANCE Bootstrap WITH
        cluster <- bcluster, seen <- bseen, spoke <- bspoke, MaxCSRs <- 2, MaxFaults <- 1

H == INSTANCE Heartbeat WITH
        cluster <- hcluster, seen <- hseen, Threshold <- 2, MaxFaults <- 1

\* A cluster may be listed, discovered and made by hand; two edits undo each other.
F == INSTANCE Fleet WITH
        secret <- fsecret, cluster <- fcluster, seen <- fseen, spoke <- fspoke,
        Names <- {"c1", "c2"}, Versions <- {"v1", "v2"}, MaxEdits <- 2, MaxFaults <- 1

\* The pull of one app's artifact fails or hangs.
Delivers(substrateKind, executionMode, first, second) ==
    [kind |-> substrateKind, mode |-> executionMode, repository |-> <<first, second>>,
     helmRelease |-> substrateKind = "flux"]

L == INSTANCE SpokeLoop WITH
        cluster <- scluster, release <- srelease, Apps <- {1, 2}, Versions <- {"v1"}, FluxApp <- 2,
        MaxChanges <- 1, MaxFaults <- 1,
        Substrates <- {Delivers("oci", "spoke", "missing", "served"), Delivers("oci", "spoke", "served", "hangs"),
                       Delivers("oci", "spoke", "hangs", "served"), Delivers("oci", "hub", "served", "served"),
                       Delivers("flux", "spoke", "served", "served")}

P == INSTANCE Push WITH
        seen <- pseen, Clusters <- {"c1"}, Units <- {"u1", "u2"}, Versions <- {1, 2},
        MaxPromotions <- 2, MaxFaults <- 1

\* Layers of values: for all, for a label, for a cluster, for a unit.
Tree(u, x) == ("u" :> u) @@ ("x" :> x)
Blank == ("a" :> 0) @@ ("b" :> 0)
Absent == [kind |-> "absent", scalar |-> 0, object |-> Blank]
Scalar(n) == [kind |-> "scalar", scalar |-> n, object |-> Blank]
Object(a, b) == [kind |-> "object", scalar |-> 0, object |-> ("a" :> a) @@ ("b" :> b)]
Override(clusters, selector, unit, values) ==
    [clusters |-> clusters, selector |-> selector, unit |-> unit, values |-> values]
Overrides ==
    {Override({}, {"canary", "eu"}, "", Tree(Scalar(1), Absent)),
     Override({}, {"eu"}, "", Tree(Object(1, 0), Object(0, 2))),
     Override({"c2"}, {"canary"}, "", Tree(Object(2, 2), Scalar(2))),
     Override({}, {}, "u", Tree(Object(2, 0), Absent)),
     Override({}, {"canary"}, "u", Tree(Object(0, 1), Absent))}

R == INSTANCE ResourceSet WITH
        pass <- rpass, edits <- redits,
        Clusters <- {"c1", "c2"}, LabelsOf <- ("c1" :> {"canary", "eu"}) @@ ("c2" :> {"eu"}),
        Keys <- {"u", "x"}, Subkeys <- {"a", "b"}, Scalars <- {1, 2}, Versions <- {1, 2}, MaxEdits <- 1,
        Sources <- {[units |-> <<0, 1>>, defaults |-> d, overrides |-> <<o, p>>] :
                       d \in {Tree(Absent, Scalar(1)), Tree(Object(1, 1), Object(1, 0))},
                       o \in Overrides, p \in Overrides}

-----------------------------------------------------------------------------
bootstrap == <<bcluster, bseen, current, csr, csrSeen, sa, token, rbac, slotOver, queued, job,
               bspoke, stored, lost>>
heartbeat == <<mode, hcluster, hseen, lease, up, hb, fleet, reg, noted, streak>>
fleets == <<listed, version, inventory, fsecret, fcluster, fseen, fspoke, pass, discovered, import, edits>>
loop == <<scluster, substrate, secret, repo, srelease, tick, ran, changes>>
push == <<kind, object, pseen, release, running, target, work, overtaken>>
values == <<source, set, rpass, promoted, redits>>
vars == <<part, faults, bootstrap, heartbeat, fleets, loop, push, values>>

Init ==
    /\ part \in Parts
    /\ faults = 0
    /\ B!Init
    /\ H!Init /\ (part # "heartbeat" => mode = "pull")
    /\ F!Init /\ (part # "fleet" => version = "v1")
    /\ L!Init /\ (part # "loop" => substrate = None)
    /\ P!Init /\ (part # "push" => kind = "direct" /\ target["c1"].version = 2)
    /\ R!Init /\ (part # "values" => source.defaults["u"] = Absent /\ \A i \in 1..2 :
                                        source.overrides[i].clusters # {})

Next ==
    /\ UNCHANGED part
    /\ \/ part = "bootstrap" /\ B!Next /\ UNCHANGED <<heartbeat, fleets, loop, push, values>>
       \/ part = "heartbeat" /\ H!Next /\ UNCHANGED <<bootstrap, fleets, loop, push, values>>
       \/ part = "fleet" /\ F!Next /\ UNCHANGED <<bootstrap, heartbeat, loop, push, values>>
       \/ part = "loop" /\ L!Next /\ UNCHANGED <<bootstrap, heartbeat, fleets, push, values>>
       \/ part = "push" /\ P!Next /\ UNCHANGED <<bootstrap, heartbeat, fleets, loop, values>>
       \/ part = "values" /\ R!Next /\ UNCHANGED <<bootstrap, heartbeat, fleets, loop, push, faults>>

\* Bootstrap: queued keys are handed out, informers deliver, the signer signs,
\* the spoke's process goes on; nothing makes time pass.
\* Heartbeat: both reconcilers queue themselves again, the caches catch up from
\* time to time, the spoke's ticker ticks, time passes.
\* Fleet: both controllers requeue themselves after every pass, informers catch
\* up.  SpokeLoop: the loop ticks for as long as the spoke runs.
\* Push: targets are requeued, the substrate follows what is written.
\* ResourceSet: the Fleet is reconciled every 5 minutes.
Spec ==
    /\ Init /\ [][Next]_vars
    /\ WF_(B!vars)(part = "bootstrap" /\ B!Reconcile)
    /\ WF_(B!vars)(part = "bootstrap" /\ B!Spoke)
    /\ WF_(B!vars)(part = "bootstrap" /\ B!syncCluster)
    /\ \A x \in B!CSRs : WF_(B!vars)(part = "bootstrap" /\ B!syncCSR(x))
    /\ \A x \in B!CSRs : WF_(B!vars)(part = "bootstrap" /\ B!sign(x))
    /\ WF_(H!vars)(part = "heartbeat" /\ H!Heartbeats)
    /\ WF_(H!vars)(part = "heartbeat" /\ H!Fleets)
    /\ WF_(H!vars)(part = "heartbeat" /\ H!handleRegistered)
    /\ WF_(H!vars)(part = "heartbeat" /\ H!heartbeatTick)
    /\ WF_(H!vars)(part = "heartbeat" /\ H!leaseAges)
    /\ WF_(H!vars)(part = "heartbeat" /\ H!markBootstrapUsed)
    /\ SF_(H!vars)(part = "heartbeat" /\ H!syncCluster)
    /\ WF_(F!vars)(part = "fleet" /\ F!FleetStep)
    /\ WF_(F!vars)(part = "fleet" /\ F!TemplateStep)
    /\ WF_(F!vars)(part = "fleet" /\ F!syncClusters)
    /\ WF_(L!vars)(part = "loop" /\ L!Tock)
    /\ WF_(P!vars)(part = "push" /\ P!Follow)
    /\ WF_(P!vars)(part = "push" /\ P!Apply("c1"))
    /\ WF_(R!vars)(part = "values" /\ (R!reconcileFleet \/ R!applyResourceSet))

-----------------------------------------------------------------------------
\* Every variable stays in its type.
TypeOK ==
    /\ part = "bootstrap" => B!TypeOK
    /\ part = "heartbeat" => H!TypeOK
    /\ part = "fleet" => F!TypeOK
    /\ part = "loop" => L!TypeOK
    /\ part = "push" => P!TypeOK
    /\ part = "values" => R!TypeOK

\* The behaviour is one of module p.
Runs(p) == []<>(part = p)

\* A slot is good for one certificate and leaves nothing behind, and the spoke
\* gets its certificate in the end (Bootstrap).
SpokeRegisters ==
    /\ [](B!OneBootstrap /\ B!ApprovedIsBound /\ B!CleanedUp)
    /\ Runs("bootstrap") => B!Registers

\* A spoke is declared unreachable only after Threshold stale observations; one
\* that is down is found out, one that is back is let through (Heartbeat).
HeartbeatIsNoticed ==
    /\ [](part = "heartbeat" => H!UnreachableEarned)
    /\ Runs("heartbeat") => H!DownIsNoticed /\ H!RecoveryIsNoticed

\* Clusters, Secrets and spokes follow the list and the source (Fleet), and
\* every cluster gets its own values (ResourceSet).
FleetFollows ==
    /\ Runs("fleet") => F!WantedExist /\ F!SecretsFollowList /\ F!SpokesFollowSource
    /\ Runs("values") => R!ValuesFollow

\* An app that fails does not keep the others from their version, only one that
\* hangs does (SpokeLoop).
FailuresAreIsolated == Runs("loop") => L!FailuresAreIsolated

\* Pushed targets end, and only on what runs (Push).
PushEnds ==
    /\ [](part = "push" => P!DirectIsRunning)
    /\ Runs("push") => P!TargetsEnd

\* What is promoted to a cluster stays until something else is (ResourceSet).
PromotedIsKept == R!PromotedIsKept
=============================================================================

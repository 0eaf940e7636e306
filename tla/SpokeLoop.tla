------------------------------ MODULE SpokeLoop ------------------------------
(***************************************************************************)
(* The delivery loop of a spoke over all the apps of its Cluster           *)
(* (cmd/kapro-cluster-controller/delivery_loop.go) with the providers its  *)
(* registry resolves (pkg/spokeprovider): the OCI provider, which takes    *)
(* its reference and its token from the parameters, and the Flux provider, *)
(* which only observes an OCIRepository and a HelmRelease.                 *)
(*                                                                         *)
(* The passes of the apply engine are in Delivery; here an app's pass is   *)
(* one step.  One tick reads the Cluster and the Substrate once, goes      *)
(* through the apps in the order of their keys and writes one patch, all   *)
(* within one minute.                                                      *)
(***************************************************************************)
EXTENDS Naturals, FiniteSets, FiniteSetsExt

CONSTANTS
    Apps,       \* app keys, numbers in their order
    Versions,   \* versions; each has the same name for every app
    FluxApp,    \* the app that the HelmRelease of the cluster deploys
    Substrates, \* the Substrates the cluster may have
    None,       \* an empty field
    MaxChanges, \* bound: edits of the Cluster, the Substrate and the secret
    MaxFaults   \* bound: failed calls and restarts

VARIABLES
    cluster,    \* spec.desiredVersions, spec.suspend, status.currentVersions and delivery
    substrate,  \* the Substrate of the cluster, None if there is none
    secret,     \* whether the Secret of the registry's token is the valid one
    repo,       \* the OCIRepository: artifact and Ready
    release,    \* the HelmRelease: version it runs and Ready
    tick,       \* the tick in progress
    ran,        \* history: versions each app has had on the cluster
    changes, faults

world == <<repo, release>>
vars == <<cluster, substrate, secret, world, tick, ran, changes, faults>>

-----------------------------------------------------------------------------
Optional(S) == S \cup {None}
Phases == {"Pulling", "Applying", "Converged", "Failed", "Skipped"}
Ready == {"True", "False", "Unknown"}

Cluster == [desired : [Apps -> Optional(Versions)], suspend : BOOLEAN,
            current : [Apps -> Optional(Versions)], phase : [Apps -> Optional(Phases)]]
\* What becomes of the pull of an artifact.
Answers == {"served", "missing", "hangs"}
Substrate == [kind : {"oci", "flux", "argo"}, mode : {"spoke", "hub", "external"},
              repository : Optional([Apps -> Answers]), \* the repository parameter, if it is given,
                                                   \* with what its server does for each app
              helmRelease : BOOLEAN]     \* so is the name of a HelmRelease
Tick == [pc : {"idle", "resolve", "apps", "write"}, desired : [Apps -> Optional(Versions)],
         suspend : BOOLEAN, substrate : Optional(Substrate), todo : SUBSET Apps,
         phase : [Apps -> Optional(Phases)],
         expired : BOOLEAN]   \* the minute is up: every further call fails

NoTick == [pc |-> "idle", desired |-> [a \in Apps |-> None], suspend |-> FALSE, substrate |-> None,
           todo |-> {}, phase |-> [a \in Apps |-> None], expired |-> FALSE]

\* Every variable stays in its type.
TypeOK ==
    /\ cluster \in Cluster /\ substrate \in Optional(Substrate)
    /\ secret \in {"valid", "revoked"}
    /\ repo \in [artifact : Optional(Versions), ready : Ready]
    /\ release \in [version : Optional(Versions), ready : Ready]
    /\ tick \in Tick
    /\ ran \in [Apps -> SUBSET Versions]
    /\ changes \in 0..MaxChanges /\ faults \in 0..MaxFaults

Init ==
    /\ \E v \in Versions : cluster = [desired |-> [a \in Apps |-> v], suspend |-> FALSE,
           current |-> [a \in Apps |-> None], phase |-> [a \in Apps |-> None]]
    /\ substrate \in Optional(Substrates)
    /\ secret = "valid"
    /\ repo = [artifact |-> None, ready |-> "Unknown"]
    /\ release = [version |-> None, ready |-> "Unknown"]
    /\ tick = NoTick
    /\ ran = [a \in Apps |-> {}]
    /\ changes = 0 /\ faults = 0

Fault == faults < MaxFaults /\ faults' = faults + 1
Change == changes < MaxChanges /\ changes' = changes + 1

-----------------------------------------------------------------------------
(* One tick.                                                               *)

mergedDesiredVersions == {a \in Apps : cluster.desired[a] # None}

\* A suspended Cluster has every app Skipped; one that wants nothing is not
\* touched.
beginTick ==
    /\ tick.pc = "idle" /\ mergedDesiredVersions # {}
    /\ tick' = [NoTick EXCEPT !.pc = IF cluster.suspend THEN "write" ELSE "resolve",
                              !.desired = cluster.desired, !.suspend = cluster.suspend,
                              !.phase = [a \in Apps |-> IF a \in mergedDesiredVersions
                                                        THEN "Skipped" ELSE None],
                              !.todo = IF cluster.suspend THEN {} ELSE mergedDesiredVersions]
    /\ UNCHANGED <<cluster, substrate, secret, world, ran, changes, faults>>

resolveSubstrate ==
    /\ tick.pc = "resolve"
    /\ \/ tick' = [tick EXCEPT !.pc = "apps", !.substrate = substrate] /\ UNCHANGED faults
       \/ Fault /\ tick' = [tick EXCEPT !.pc = "apps"]
    /\ UNCHANGED <<cluster, substrate, secret, world, ran, changes>>

\* Providers are registered for these kinds.
Resolve(kind) == kind \in {"oci", "flux"}

\* The reference needs the repository, and the token is read anew each time.
resolveRef == tick.substrate.repository # None /\ secret = "valid"

\* The tag of the artifact is the version, and the artifact is Ready.  One
\* repository is named by the parameters, whichever app is asked for.
revisionMatches(a) == repo.artifact = tick.desired[a]

\* Fault: the readiness of the release is passed on as the phase.
FluxReadiness(a) ==
    IF repo.artifact = None \/ ~revisionMatches(a) THEN "Pulling" ELSE release.ready

FluxReconcile(a) ==
    IF tick.substrate.repository = None THEN "Failed"
    ELSE IF repo.artifact = None THEN "Pulling"
    ELSE IF repo.ready = "False" THEN "Failed"
    ELSE IF ~revisionMatches(a) \/ repo.ready # "True" THEN "Pulling"
    ELSE IF ~tick.substrate.helmRelease THEN "Converged"
    ELSE CASE release.ready = "False" -> "Failed"
           [] release.ready = "True" -> "Converged"
           [] OTHER -> "Applying"

\* The phases that the app may be found in.
reconcileOneResult(a) ==
    IF tick.substrate = None THEN {"Failed"}
    ELSE IF tick.substrate.mode # "spoke" THEN {"Skipped"}
    ELSE IF ~Resolve(tick.substrate.kind) \/ tick.expired THEN {"Failed"}
    ELSE IF tick.substrate.kind = "flux" THEN {FluxReconcile(a)}
    ELSE IF resolveRef /\ tick.substrate.repository[a] = "served" THEN {"Converged"}
    ELSE {"Failed"}

\* The pull of the artifact has no time-out but that of the tick.
Hangs(sub, a) ==
    /\ sub # None /\ sub.kind = "oci" /\ sub.mode = "spoke" /\ sub.repository # None
    /\ sub.repository[a] = "hangs"

Next1(todo, phase, a) ==
    tick' = [tick EXCEPT !.todo = todo, !.phase[a] = phase, !.pc = IF todo = {} THEN "write" ELSE @,
                         !.expired = @ \/ Hangs(tick.substrate, a)]

Ran(a, phase) ==
    ran' = IF tick.substrate # None /\ tick.substrate.kind = "oci" /\ phase = "Converged"
           THEN [ran EXCEPT ![a] = @ \cup {tick.desired[a]}] ELSE ran

\* Fault: the first app that fails ends the tick.
ReconcileUntilFailure ==
    /\ tick.pc = "apps"
    /\ LET a == Min(tick.todo) IN
       \E phase \in reconcileOneResult(a) :
         /\ IF phase = "Failed" THEN Next1({}, phase, a) ELSE Next1(tick.todo \ {a}, phase, a)
         /\ Ran(a, phase)
         /\ UNCHANGED <<cluster, substrate, secret, world, changes, faults>>

\* The next app, in the order of the keys; what fails is its own result.
reconcileOne ==
    /\ tick.pc = "apps"
    /\ LET a == Min(tick.todo) IN
       \/ \E phase \in reconcileOneResult(a) :
            /\ Next1(tick.todo \ {a}, phase, a)
            /\ Ran(a, phase)
            /\ UNCHANGED faults
       \/ Fault /\ Next1(tick.todo \ {a}, "Failed", a) /\ UNCHANGED ran
    /\ UNCHANGED <<cluster, substrate, secret, world, changes>>

\* currentVersions advances for the apps that converged; the rest stays.  The
\* patch is under the same minute as the apps.
writeStatus ==
    /\ tick.pc = "write"
    /\ IF tick.expired THEN UNCHANGED cluster
       ELSE cluster' = [cluster EXCEPT
          !.phase = [a \in Apps |-> IF tick.phase[a] = None THEN @[a] ELSE tick.phase[a]],
          !.current = [a \in Apps |-> IF tick.phase[a] = "Converged" THEN tick.desired[a] ELSE @[a]]]
    /\ tick' = NoTick
    /\ UNCHANGED <<substrate, secret, world, ran, changes, faults>>

\* A call to the hub fails or the spoke restarts.
abandonTick ==
    /\ tick.pc # "idle" /\ Fault
    /\ tick' = NoTick
    /\ UNCHANGED <<cluster, substrate, secret, world, ran, changes>>

Tock == beginTick \/ resolveSubstrate \/ reconcileOne \/ writeStatus

-----------------------------------------------------------------------------
(* The surroundings.                                                       *)

\* external: the hub wants another version of an app, or an operator suspends
\* or resumes the cluster, changes its substrate or rotates the token.
editCluster(a) ==
    /\ Change
    /\ \/ \E v \in Optional(Versions) \ {cluster.desired[a]} : cluster' = [cluster EXCEPT !.desired[a] = v]
       \/ cluster' = [cluster EXCEPT !.suspend = ~@]
    /\ UNCHANGED <<substrate, secret, world, tick, ran, faults>>

editSubstrate ==
    /\ Change
    /\ substrate' \in Optional(Substrates) \ {substrate}
    /\ UNCHANGED <<cluster, secret, world, tick, ran, faults>>

rotateToken ==
    /\ Change
    /\ secret' = IF secret = "valid" THEN "revoked" ELSE "valid"
    /\ UNCHANGED <<cluster, substrate, world, tick, ran, faults>>

\* external: the source controller fetches the version the hub wants of the
\* Flux app, and the Helm controller rolls it out.
fetch ==
    /\ substrate # None /\ substrate.kind = "flux" /\ cluster.desired[FluxApp] # None
    /\ \E r \in Ready : repo' \in {[artifact |-> cluster.desired[FluxApp], ready |-> r]} \ {repo}
    /\ UNCHANGED <<cluster, substrate, secret, release, tick, ran, changes, faults>>

rollOut ==
    /\ repo.artifact # None
    /\ \E r \in Ready : release' \in {[version |-> repo.artifact, ready |-> r]} \ {release}
    /\ ran' = [ran EXCEPT ![FluxApp] = @ \cup {v \in {release'.version} : release'.ready = "True"}]
    /\ UNCHANGED <<cluster, substrate, secret, repo, tick, changes, faults>>

Next ==
    \/ Tock \/ abandonTick
    \/ (\E a \in Apps : editCluster(a)) \/ editSubstrate \/ rotateToken
    \/ fetch \/ rollOut

Spec == Init /\ [][Next]_vars

-----------------------------------------------------------------------------
(* Properties.                                                             *)

\* "Per-app Provider.Reconcile errors are isolated; one failure does not abort
\* the rest of the tick" (delivery_loop.go): an app that can be delivered is
\* delivered and reported in the end, whichever of the others fail, through
\* lost ticks, a suspension and a rotated token.  An app that hangs is not
\* isolated: it spends the minute of every tick, so that the apps after it are
\* not delivered and no app is reported.
Deliverable(a) ==
    /\ cluster.desired[a] # None /\ ~cluster.suspend
    /\ substrate # None /\ substrate.mode = "spoke" /\ substrate.kind = "oci"
    /\ substrate.repository # None /\ substrate.repository[a] = "served" /\ secret = "valid"
HangsFirst(a) == \E b \in mergedDesiredVersions : b < a /\ Hangs(substrate, b)
FailuresAreIsolated ==
    \A a \in Apps :
      /\ <>[](Deliverable(a) /\ ~HangsFirst(a) => cluster.desired[a] \in ran[a])
      /\ <>[](Deliverable(a) /\ (\A b \in mergedDesiredVersions : ~Hangs(substrate, b))
                 => cluster.current[a] = cluster.desired[a])

=============================================================================

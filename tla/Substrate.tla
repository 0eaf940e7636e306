------------------------------ MODULE Substrate ------------------------------
(***************************************************************************)
(* A delivery substrate and what its readiness hangs on: the three          *)
(* reconcilers of substrateclass_controller.go, substrate_controller.go and *)
(* substratediscoverypolicy_controller.go, one SubstrateClass, one          *)
(* Substrate that may reference it, and one SubstrateDiscoveryPolicy.       *)
(***************************************************************************)
EXTENDS Integers, Sequences, FiniteSets, Functions

CONSTANTS
    Specs,        \* the specs the Substrate may have (SubstrateSpec)
    ClassModes,   \* the default modes the SubstrateClass may have (ExecutionModes.Default)
    PolicySpecs,  \* the specs the policy may have (SubstrateDiscoveryPolicySpec)
    Inventories,  \* what the lists of Argo CD and of Flux objects may return
    Limit,        \* maxObjects of a list
    MaxEdits,     \* bound: what users change
    MaxFaults     \* bound: failed calls

VARIABLES
    class, cseen,      \* the SubstrateClass and its cached copy
    substrate, sseen,  \* the Substrate
    policy, pseen,     \* the SubstrateDiscoveryPolicy
    world,             \* the typed config, the plugin, the discovered objects
    work,              \* the Substrate reconcile in progress
    queued,            \* the controllers with their object in the queue
    edits, faults

vars == <<class, cseen, substrate, sseen, policy, pseen, world, work, queued, edits, faults>>

-----------------------------------------------------------------------------
(* Objects.                                                                *)

Controllers == {"class", "substrate", "policy"}
Names == {"kapro.io/argo", "kapro.io/oci", "kapro.io/other", "acme.io/argo"}
Kinds == {"argo", "flux", "oci", "external", "open"}
Condition == {"absent", "True", "False"}

\* profile is the controller whose profile the status shows.
Class == [exists : BOOLEAN, controller : Names, mode : ClassModes, generation : Nat, observed : Nat,
          accepted : Condition, profile : Names \union {"none"}]
NoClass == [exists |-> FALSE, controller |-> "kapro.io/argo", mode |-> "", generation |-> 0, observed |-> 0,
            accepted |-> "absent", profile |-> "none"]

Discovery == [status : Condition, reason : STRING, objects : Nat]
Disabled == [status |-> "absent", reason |-> "", objects |-> 0]

Substrate == [exists : BOOLEAN, spec : {s \in Specs : s.kind \in Kinds},
              generation : Nat, observed : Nat, ready : BOOLEAN, classAccepted : Condition, discovery : Discovery]
NewSubstrate(s) == [exists |-> TRUE, spec |-> s, generation |-> 1, observed |-> 0, ready |-> FALSE,
                    classAccepted |-> "absent", discovery |-> Disabled]

Idle == [on |-> FALSE]

Outcome(r, why, n) == [ready |-> r, reason |-> why, objects |-> n]

\* fresh: the last sync is less than half an interval ago.
Policy == [spec : PolicySpecs, generation : Nat, observed : Nat, fresh : BOOLEAN,
           outcome : [ready : BOOLEAN, reason : STRING, objects : Nat]]

-----------------------------------------------------------------------------
(* SubstrateClass.                                                         *)

\* Of the built-in classes, argo and oci stand for the four: execution modes,
\* accepted config kinds.
BuiltIn == {"kapro.io/argo", "kapro.io/oci"}
SupportedModes(p) == IF p = "kapro.io/argo" THEN {"hub-push", "spoke-pull"} ELSE {"spoke-pull"}
AcceptedKinds(p) == CASE p = "kapro.io/argo" -> {"ArgoCDSubstrateConfig"}
                      [] p = "kapro.io/oci" -> {"OCIBundleApplyConfig"}
                      [] OTHER -> {}

\* A reconcile that fails, on an object that is gone or by a failed call, is
\* tried again.
Retry(c, gone) ==
    /\ \/ gone /\ UNCHANGED faults
       \/ faults < MaxFaults /\ faults' = faults + 1
    /\ queued' = queued \union {c}

\* What a merge patch leaves in a field: it has only what differs from the copy.
Patched(old, copy, new) == IF copy = new THEN old ELSE new

\* A class with a foreign controllerName is left to its controller.  Nobody
\* else writes its status, so the read from the cache and the patch are one step.
reconcileClass ==
    LET known == cseen.controller \in BuiltIn
    IN  /\ "class" \in queued
        /\ \/ /\ ~cseen.exists \/ cseen.controller = "acme.io/argo"
              /\ queued' = queued \ {"class"} /\ UNCHANGED <<class, faults>>
           \/ /\ cseen.exists /\ cseen.controller # "acme.io/argo"
              /\ \/ /\ class.exists
                    /\ class' = [class EXCEPT
                           !.observed = Patched(@, cseen.observed, cseen.generation),
                           !.accepted = Patched(@, cseen.accepted, IF known THEN "True" ELSE "False"),
                           !.profile = Patched(@, cseen.profile, IF known THEN cseen.controller ELSE "none")]
                    /\ queued' = queued \ {"class"} /\ UNCHANGED faults
                 \/ Retry("class", ~class.exists) /\ UNCHANGED class
        /\ UNCHANGED <<cseen, substrate, sseen, policy, pseen, world, work, edits>>

-----------------------------------------------------------------------------
(* Substrate.                                                              *)

substrateClassAccepted(c) == c.observed = c.generation /\ c.accepted = "True"

\* The mode asked for, or else the default of the class, or that of the kind.
substrateExecutionModeForClass(s, c) ==
    IF s.mode # "" THEN s.mode
    ELSE IF c.mode # "" THEN c.mode
    ELSE CASE s.kind \in {"flux", "oci"} -> "spoke-pull"
           [] s.kind = "external" -> "external-pull"
           [] OTHER -> "hub-push"

\* config is the kind of the typed config the spec references, or "".
profileClassReadiness(s, c, config) ==
    /\ c.exists /\ substrateClassAccepted(c)
    /\ c.profile # "none" => substrateExecutionModeForClass(s, c) \in SupportedModes(c.profile)
    /\ IF s.config = "" THEN AcceptedKinds(c.profile) = {}
       ELSE s.config \in AcceptedKinds(c.profile) /\ config

profileReadiness(s, c, w) ==
    IF s.classRef THEN profileClassReadiness(s, c, w.config)
    ELSE \/ s.kind \in {"argo", "flux", "oci"}
         \/ s.kind = "external" /\ w.plugin

\* The lists are read in order; a negative length is an error of the list.
Failed == -1
NotInstalled == -2
Exceeded(n) == n > Limit
Found(n) == IF n = NotInstalled THEN 0 ELSE n
Total(l) == FoldFunction(LAMBDA a, b : Found(a) + b, 0, l)

Result(status, reason, n) == [status |-> status, reason |-> reason, objects |-> n]
TooMany == Result("False", "DiscoveryLimitExceeded", 0)

\* Cluster Secrets, Applications, ApplicationSets.
observeArgoDiscovery(l) ==
    IF l[1] < 0 THEN Result("False", "ClusterDiscoveryFailed", 0)
    ELSE IF Exceeded(l[1]) THEN TooMany
    ELSE IF l[2] < 0 THEN Result("True", "ApplicationDiscoveryFailed", l[1])
    ELSE IF Exceeded(l[2]) THEN TooMany
    ELSE IF l[3] = Failed THEN Result("True", "ApplicationSetDiscoveryFailed", l[1] + l[2])
    ELSE IF Exceeded(l[3]) THEN TooMany
    ELSE Result("True", "DiscoverySucceeded", Total(l))

\* Three kinds of sources, HelmReleases, Kustomizations: what went wrong with a
\* list is the reason, and the status is True all the same.
observeFluxDiscovery(l) ==
    LET bad == {i \in DOMAIN l : l[i] = Failed \/ Exceeded(l[i])}
        first == CHOOSE i \in bad : \A j \in bad : i <= j
    IN  IF bad = {} THEN Result("True", "DiscoverySucceeded", Total(l))
        ELSE IF Exceeded(l[first]) THEN Result("True", "DiscoveryLimitExceeded", 0)
        ELSE Result("True", IF first <= 3 THEN "SourceDiscoveryFailed" ELSE "ApplicationDiscoveryFailed", 0)

observeDiscovery(s, w) ==
    IF ~s.discovery THEN Disabled
    ELSE IF s.kind \notin {"argo", "flux"} THEN Result("True", "DiscoveryUnsupported", 0)
    ELSE IF ~s.selectorValid
         THEN Result(IF s.kind = "argo" THEN "False" ELSE "True", "InvalidSelector", 0)
    ELSE IF s.kind = "argo" THEN observeArgoDiscovery(w.lists.argo)
    ELSE observeFluxDiscovery(w.lists.flux)

\* The class is read for the readiness and again for the conditions.
reconcileSubstrate ==
    /\ ~work.on /\ "substrate" \in queued
    /\ queued' = queued \ {"substrate"}
    /\ work' = IF sseen.exists
               THEN [on |-> TRUE, copy |-> sseen, ready |-> profileReadiness(sseen.spec, cseen, world)]
               ELSE Idle
    /\ UNCHANGED <<class, cseen, substrate, sseen, policy, pseen, world, edits, faults>>

setSubstrateClassConditions(s, c) ==
    IF ~s.classRef THEN "absent"
    ELSE IF c.exists /\ substrateClassAccepted(c) THEN "True" ELSE "False"

\* With discovery the next reconcile is in two minutes.
patchSubstrate ==
    LET copy == work.copy
    IN  /\ work.on
        /\ \/ /\ substrate.exists
              /\ substrate' = [substrate EXCEPT
                     !.observed = Patched(@, copy.observed, copy.generation),
                     !.ready = Patched(@, copy.ready, work.ready),
                     !.classAccepted = Patched(@, copy.classAccepted, setSubstrateClassConditions(copy.spec, cseen)),
                     !.discovery = Patched(@, copy.discovery, observeDiscovery(copy.spec, world))]
              /\ queued' = IF copy.spec.discovery THEN queued \union {"substrate"} ELSE queued
              /\ UNCHANGED faults
           \/ Retry("substrate", ~substrate.exists) /\ UNCHANGED substrate
        /\ work' = Idle
        /\ UNCHANGED <<class, cseen, sseen, policy, pseen, world, edits>>

-----------------------------------------------------------------------------
(* SubstrateDiscoveryPolicy.                                               *)

\* Argo and Flux substrates are mirrored when the policy has no selector of
\* its own; otherwise the adapter answers, from a static model.
discoverPolicy(p, s) ==
    IF ~s.exists THEN Outcome(FALSE, "SubstrateNotFound", 0)
    ELSE IF p.expected \notin {"", s.spec.kind} THEN Outcome(FALSE, "SubstrateKindMismatch", 0)
    ELSE IF ~s.spec.discovery THEN Outcome(FALSE, "DiscoveryDisabled", 0)
    ELSE IF s.spec.kind \notin {"argo", "flux", "oci"} THEN Outcome(FALSE, "AdapterResolveFailed", 0)
    ELSE IF s.spec.kind = "oci" THEN Outcome(FALSE, "DiscoveryUnsupported", 0)
    ELSE IF ~s.spec.selectorValid THEN Outcome(FALSE, "InvalidSelector", 0)
    ELSE IF p.dryRun THEN Outcome(TRUE, "DiscoveryDryRun", 0)
    ELSE IF p.selector THEN Outcome(TRUE, "DiscoveryModeled", 0)
    ELSE IF s.discovery.status = "absent" THEN Outcome(FALSE, "DiscoveryPending", s.discovery.objects)
    ELSE Outcome(s.discovery.status = "True", s.discovery.reason, s.discovery.objects)

\* Fault: only the readiness counts as a change.
OnlyReadiness(p, o) == p.outcome.ready = o.ready /\ p.observed = p.generation /\ p.fresh

\* A status that says the same, and lately, is not written again.
upToDate(p, o) == p.outcome = o /\ p.observed = p.generation /\ p.fresh

\* As for a class, one step; the next one is an interval later.
reconcilePolicy ==
    LET o == discoverPolicy(pseen.spec, sseen)
    IN  /\ "policy" \in queued
        /\ \/ /\ policy' = IF upToDate(pseen, o) THEN policy
                           ELSE [policy EXCEPT
                                   !.observed = Patched(@, pseen.observed, pseen.generation),
                                   !.fresh = TRUE,
                                   !.outcome.ready = Patched(@, pseen.outcome.ready, o.ready),
                                   !.outcome.reason = Patched(@, pseen.outcome.reason, o.reason),
                                   !.outcome.objects = Patched(@, pseen.outcome.objects, o.objects)]
              /\ UNCHANGED <<queued, faults>>
           \/ ~upToDate(pseen, o) /\ Retry("policy", FALSE) /\ UNCHANGED policy
        /\ UNCHANGED <<class, cseen, substrate, sseen, pseen, world, work, edits>>

-----------------------------------------------------------------------------
(* Users, and the informers.                                               *)

Edit == edits < MaxEdits /\ edits' = edits + 1

\* A class may be made after the Substrate that references it; what is deleted
\* stays deleted.
editClass ==
    /\ Edit
    /\ \/ /\ class.exists \/ class.generation = 0
          /\ \E n \in Names, m \in ClassModes :
                class' = [class EXCEPT !.exists = TRUE, !.controller = n, !.mode = m, !.generation = @ + 1]
       \/ class.exists /\ class' = [class EXCEPT !.exists = FALSE]
    /\ UNCHANGED <<cseen, substrate, sseen, policy, pseen, world, work, queued, faults>>

editSubstrate ==
    /\ Edit /\ substrate.exists
    /\ \/ \E s \in Specs \ {substrate.spec} : substrate' = [substrate EXCEPT !.spec = s, !.generation = @ + 1]
       \/ substrate' = [substrate EXCEPT !.exists = FALSE]
    /\ UNCHANGED <<class, cseen, sseen, policy, pseen, world, work, queued, faults>>

editPolicy ==
    /\ Edit
    /\ \E p \in PolicySpecs \ {policy.spec} : policy' = [policy EXCEPT !.spec = p, !.generation = @ + 1]
    /\ UNCHANGED <<class, cseen, substrate, sseen, pseen, world, work, queued, faults>>

\* The config object comes or goes, and its watch says so; the plugin, and the
\* objects of Argo CD and of Flux, have no watch.
changeWorld ==
    /\ Edit
    /\ \/ world' = [world EXCEPT !.config = ~@, !.event = TRUE]
       \/ world' = [world EXCEPT !.plugin = ~@]
       \/ \E i \in Inventories : world' = [world EXCEPT !.lists = i]
    /\ UNCHANGED <<class, cseen, substrate, sseen, policy, pseen, work, queued, faults>>

\* A class and a config reach the Substrate that references them.
syncClass ==
    /\ cseen # class
    /\ cseen' = class
    /\ queued' = queued \union {"class"} \union (IF sseen.spec.classRef THEN {"substrate"} ELSE {})
    /\ UNCHANGED <<class, substrate, sseen, policy, pseen, world, work, edits, faults>>

syncConfig ==
    /\ world.event
    /\ world' = [world EXCEPT !.event = FALSE]
    /\ queued' = queued \union (IF sseen.spec.config # "" THEN {"substrate"} ELSE {})
    /\ UNCHANGED <<class, cseen, substrate, sseen, policy, pseen, work, edits, faults>>

syncSubstrate ==
    /\ sseen # substrate
    /\ sseen' = substrate /\ queued' = queued \union {"substrate", "policy"}
    /\ UNCHANGED <<class, cseen, substrate, policy, pseen, world, work, edits, faults>>

syncPolicy ==
    /\ pseen # policy
    /\ pseen' = policy /\ queued' = queued \union {"policy"}
    /\ UNCHANGED <<class, cseen, substrate, sseen, policy, world, work, edits, faults>>

ageSync ==
    /\ policy.fresh /\ Edit
    /\ policy' = [policy EXCEPT !.fresh = FALSE]
    /\ UNCHANGED <<class, cseen, substrate, sseen, pseen, world, work, queued, faults>>

-----------------------------------------------------------------------------
Init ==
    /\ class \in {NoClass, [NoClass EXCEPT !.exists = TRUE, !.generation = 1]} /\ cseen = class
    /\ \E s \in Specs : substrate = NewSubstrate(s) /\ sseen = substrate
    /\ \E p \in PolicySpecs :
          /\ policy = [spec |-> p, generation |-> 1, observed |-> 0, fresh |-> FALSE, outcome |-> Outcome(FALSE, "", 0)]
          /\ pseen = policy
    /\ \E i \in Inventories :
          world = [config |-> TRUE, event |-> FALSE, plugin |-> FALSE, lists |-> i]
    /\ work = Idle
    /\ queued = Controllers /\ edits = 0 /\ faults = 0


Next ==
    \/ reconcileClass \/ reconcileSubstrate \/ patchSubstrate \/ reconcilePolicy
    \/ syncClass \/ syncConfig \/ syncSubstrate \/ syncPolicy
    \/ editClass \/ editSubstrate \/ editPolicy \/ changeWorld \/ ageSync

Spec == Init /\ [][Next]_vars

\* Every variable stays in its type.
TypeOK ==
    /\ work = Idle \/ work \in [on : {TRUE}, copy : Substrate, ready : BOOLEAN]
    /\ class \in Class /\ cseen \in Class
    /\ substrate \in Substrate /\ sseen \in Substrate
    /\ policy \in Policy /\ pseen \in Policy
    /\ queued \subseteq Controllers

-----------------------------------------------------------------------------
(* Properties.                                                             *)

Watched(s) == s.classRef \/ s.kind # "external" \/ s.discovery

\* What the statuses say ends up true of the objects as they are, whatever was
\* edited, deleted or recreated while a reconcile was under way: the readiness
\* of the Substrate (profileReadiness), whether its class is accepted, what was
\* discovered, and the policy that mirrors it.  Excepted is the readiness of an
\* external substrate without discovery, whose plugin nobody watches.
StatusFollows ==
    <>[](/\ substrate.exists =>
              /\ substrate.observed = substrate.generation
              /\ Watched(substrate.spec) =>
                    (substrate.ready <=> profileReadiness(substrate.spec, class, world))
              /\ substrate.classAccepted = setSubstrateClassConditions(substrate.spec, class)
              /\ substrate.discovery = observeDiscovery(substrate.spec, world)
         /\ policy.observed = policy.generation
         /\ policy.outcome = discoverPolicy(policy.spec, substrate))

=============================================================================

------------------------------- MODULE Fleet --------------------------------
(***************************************************************************)
(* The two controllers that make and delete Clusters on the hub: a Fleet   *)
(* with a legacy source in the spoke-local Flux mode                       *)
(* (fleet_controller.go), which also makes kubeconfig Secrets and          *)
(* bootstraps the spokes, and a ClusterTemplate with spec.prune that       *)
(* imports what a provider discovers (clustertemplate_controller.go).      *)
(*                                                                         *)
(* Both read Clusters from the informer cache and write without a resource *)
(* version.  Users edit the Fleet's list of clusters, the provider's       *)
(* inventory and the source's version, and create Clusters by hand.  What  *)
(* the Fleet reconciler writes into the conditions of a Cluster is in      *)
(* Heartbeat.                                                              *)
(***************************************************************************)
EXTENDS Naturals, FiniteSets

CONSTANTS
    Names,      \* names of clusters
    Versions,   \* packaged versions of the source
    None,       \* an empty field, an object that does not exist
    MaxEdits,   \* bound: changes by users
    MaxFaults   \* bound: failed calls

VARIABLES
    listed,      \* Fleet.spec.clusters
    version,     \* the source's primary version
    inventory,   \* Fleet.status.inventory, its Clusters
    secret,      \* clusters with a kubeconfig Secret
    cluster,     \* the Cluster objects
    seen,        \* the cached Cluster objects
    spoke,       \* tag of the OCIRepository on each spoke
    pass,        \* the pass of the Fleet reconciler in progress
    discovered,  \* what the provider reports
    import,      \* the pass of the ClusterTemplate reconciler in progress
    edits, faults

user == <<listed, version, discovered, edits>>
vars == <<user, inventory, secret, cluster, seen, spoke, pass, import, faults>>

-----------------------------------------------------------------------------
Optional(S) == S \cup {None}

\* A Cluster: who created it, and the version it reports as converged.
Object == [owner : {"fleet", "template", "hand"}, version : Optional(Versions)]
New(owner) == [owner |-> owner, version |-> None]
Existing(objects) == {c \in Names : objects[c] # None}

Pass == [pc   : {"idle", "secrets", "apply", "bootstrap", "sync", "cleanup", "status"},
         spec : SUBSET Names,         \* the list of clusters read
         inv  : SUBSET Names,         \* the inventory read
         ver  : Optional(Versions),   \* the source's version read
         todo : SUBSET Names]         \* clusters the current loop has left
NoPass == [pc |-> "idle", spec |-> {}, inv |-> {}, ver |-> None, todo |-> {}]

Import == [pc   : {"idle", "upsert", "prune"},
           kept : SUBSET Names,       \* clusters discovered
           todo : SUBSET Names]
NoImport == [pc |-> "idle", kept |-> {}, todo |-> {}]

\* Every variable stays in its type.
TypeOK ==
    /\ listed \in SUBSET Names /\ discovered \in SUBSET Names
    /\ version \in Versions
    /\ inventory \in SUBSET Names /\ secret \in SUBSET Names
    /\ cluster \in [Names -> Optional(Object)] /\ seen \in [Names -> Optional(Object)]
    /\ spoke \in [Names -> Optional(Versions)]
    /\ pass \in Pass /\ import \in Import
    /\ edits \in 0..MaxEdits /\ faults \in 0..MaxFaults

Init ==
    /\ listed = {} /\ discovered = {}
    /\ version \in Versions
    /\ inventory = {} /\ secret = {}
    /\ cluster = [c \in Names |-> None] /\ seen = [c \in Names |-> None]
    /\ spoke = [c \in Names |-> None]
    /\ pass = NoPass /\ import = NoImport
    /\ edits = 0 /\ faults = 0

Fault ==
    /\ faults < MaxFaults
    /\ faults' = faults + 1

-----------------------------------------------------------------------------
(* The Fleet reconciler.                                                   *)

\* Fleet and source are read; a Fleet that is suspended or whose source is
\* missing ends the pass here.
reconcileFleet ==
    /\ pass.pc = "idle"
    /\ pass' = [pc |-> "secrets", spec |-> listed, inv |-> inventory, ver |-> version, todo |-> {}]
    /\ UNCHANGED <<user, inventory, secret, cluster, seen, spoke, import, faults>>

\* A Secret that cannot be made is logged and its cluster is not bootstrapped
\* in this pass.
ensureKubeconfigSecret ==
    /\ pass.pc = "secrets"
    /\ \/ secret' = secret \cup pass.spec /\ UNCHANGED faults
       \/ \E c \in pass.spec : secret' = secret \cup (pass.spec \ {c}) /\ Fault
    /\ pass' = [pass EXCEPT !.pc = "apply", !.todo = pass.spec]
    /\ UNCHANGED <<user, inventory, cluster, seen, spoke, import>>

\* One Cluster is applied.  An error ends the pass, which is retried; the
\* inventory is not written.
applyCluster ==
    /\ pass.pc = "apply" /\ pass.todo # {}
    /\ \/ /\ \E c \in pass.todo :
                /\ cluster' = [cluster EXCEPT ![c] = IF @ = None THEN New("fleet") ELSE @]
                /\ pass' = [pass EXCEPT !.todo = @ \ {c}]
          /\ UNCHANGED faults
       \/ Fault /\ pass' = NoPass /\ UNCHANGED cluster
    /\ UNCHANGED <<user, inventory, secret, seen, spoke, import>>

applied ==
    /\ pass.pc = "apply" /\ pass.todo = {}
    /\ pass' = [pass EXCEPT !.pc = "bootstrap", !.todo = pass.spec]
    /\ UNCHANGED <<user, inventory, secret, cluster, seen, spoke, import, faults>>

\* The cached Cluster reports the version as converged.
spokeAlreadyBootstrapped(c) == seen[c] # None /\ seen[c].version = pass.ver

\* The spokes are bootstrapped in any order; one that fails is logged.
bootstrapSpoke ==
    /\ pass.pc = "bootstrap" /\ pass.todo # {}
    /\ \E c \in pass.todo :
          /\ IF spokeAlreadyBootstrapped(c) \/ c \notin secret
             THEN UNCHANGED <<spoke, faults>>
             ELSE \/ spoke' = [spoke EXCEPT ![c] = pass.ver] /\ UNCHANGED faults
                  \/ Fault /\ UNCHANGED spoke
          /\ pass' = [pass EXCEPT !.todo = @ \ {c}]
    /\ UNCHANGED <<user, inventory, secret, cluster, seen, import>>

bootstrapped ==
    /\ pass.pc = "bootstrap" /\ pass.todo = {}
    /\ pass' = [pass EXCEPT !.pc = "sync", !.todo = pass.spec]
    /\ UNCHANGED <<user, inventory, secret, cluster, seen, spoke, import, faults>>

\* The spoke's HelmReleases are ready and its tag is the version reported, or
\* they are not and nothing is reported as converged.  A failure is logged.
syncFleetClusterStatus ==
    /\ pass.pc = "sync" /\ pass.todo # {}
    /\ \E c \in pass.todo :
          /\ IF seen[c] # None /\ cluster[c] # None /\ c \in secret
             THEN \/ /\ \E v \in {spoke[c], None} :
                           cluster' = [cluster EXCEPT ![c].version = v]
                     /\ UNCHANGED faults
                  \/ Fault /\ UNCHANGED cluster
             ELSE UNCHANGED <<cluster, faults>>
          /\ pass' = [pass EXCEPT !.todo = @ \ {c}]
    /\ UNCHANGED <<user, inventory, secret, seen, spoke, import>>

\* The Clusters and the Secrets the cleanup is to delete.
synced ==
    /\ pass.pc = "sync" /\ pass.todo = {}
    /\ pass' = [pass EXCEPT !.pc = "cleanup", !.todo = (Existing(seen) \cap pass.inv) \ pass.spec]
    /\ UNCHANGED <<user, inventory, secret, cluster, seen, spoke, import, faults>>

\* One Cluster is deleted; a failure is logged.
cleanupCluster ==
    /\ pass.pc = "cleanup" /\ pass.todo # {}
    /\ \E c \in pass.todo :
          /\ \/ cluster' = [cluster EXCEPT ![c] = None] /\ UNCHANGED faults
             \/ cluster[c] # None /\ Fault /\ UNCHANGED cluster
          /\ pass' = [pass EXCEPT !.todo = @ \ {c}]
    /\ UNCHANGED <<user, inventory, secret, seen, spoke, import>>

\* The Secrets labelled with this Fleet whose cluster is not in the list.
cleanupSecrets ==
    /\ pass.pc = "cleanup" /\ pass.todo = {}
    /\ LET old == secret \ pass.spec IN
       \/ secret' = secret \ old /\ UNCHANGED faults
       \/ \E c \in old : secret' = secret \ (old \ {c}) /\ Fault
    /\ pass' = [pass EXCEPT !.pc = "status"]
    /\ UNCHANGED <<user, inventory, cluster, seen, spoke, import>>

patchFleetStatus ==
    /\ pass.pc = "status"
    /\ \/ inventory' = pass.spec /\ UNCHANGED faults
       \/ Fault /\ UNCHANGED inventory
    /\ pass' = NoPass
    /\ UNCHANGED <<user, secret, cluster, seen, spoke, import>>

-----------------------------------------------------------------------------
(* The ClusterTemplate reconciler.                                         *)

\* A discovery that fails ends the pass.
reconcileTemplate ==
    /\ import.pc = "idle"
    /\ import' = [pc |-> "upsert", kept |-> discovered, todo |-> discovered]
    /\ UNCHANGED <<user, inventory, secret, cluster, seen, spoke, pass, faults>>

\* A Cluster the cache does not show is created, which fails if it exists; one
\* without the managed-by label is left alone; a managed one gets its labels.
\* Errors are collected and the loop goes on.
upsertFleetCluster ==
    /\ import.pc = "upsert" /\ import.todo # {}
    /\ \E c \in import.todo :
          /\ \/ /\ seen[c] = None /\ cluster[c] = None
                /\ cluster' = [cluster EXCEPT ![c] = New("template")]
                /\ UNCHANGED faults
             \/ /\ seen[c] = None /\ cluster[c] = None
                /\ Fault /\ UNCHANGED cluster
             \/ /\ seen[c] # None \/ cluster[c] # None
                /\ UNCHANGED <<cluster, faults>>
          /\ import' = [import EXCEPT !.todo = @ \ {c}]
    /\ UNCHANGED <<user, inventory, secret, seen, spoke, pass>>

\* The list of managed Clusters the prune works on is the cache's.
upserted ==
    /\ import.pc = "upsert" /\ import.todo = {}
    /\ import' = [import EXCEPT !.pc = "prune",
          !.todo = {c \in Existing(seen) : seen[c].owner = "template"} \ import.kept]
    /\ UNCHANGED <<user, inventory, secret, cluster, seen, spoke, pass, faults>>

\* A delete that fails ends the loop.
pruneOrphans ==
    /\ import.pc = "prune"
    /\ \/ /\ \E c \in import.todo :
                /\ cluster' = [cluster EXCEPT ![c] = None]
                /\ import' = [import EXCEPT !.todo = @ \ {c}]
          /\ UNCHANGED faults
       \/ import.todo # {} /\ Fault /\ import' = NoImport /\ UNCHANGED cluster
       \/ import.todo = {} /\ import' = NoImport /\ UNCHANGED <<cluster, faults>>
    /\ UNCHANGED <<user, inventory, secret, seen, spoke, pass>>

-----------------------------------------------------------------------------
Edit ==
    /\ edits < MaxEdits
    /\ edits' = edits + 1
    /\ UNCHANGED <<inventory, secret, seen, spoke, pass, import, faults>>

\* A user adds or removes a cluster of the Fleet, sets the source's version,
\* or creates a Cluster by hand; the provider's clusters come and go.
editFleet ==
    /\ Edit
    /\ \/ /\ \E c \in Names : listed' = (listed \cup {c}) \ (listed \cap {c})
          /\ UNCHANGED <<version, discovered, cluster>>
       \/ /\ version' \in Versions \ {version}
          /\ UNCHANGED <<listed, discovered, cluster>>
       \/ /\ \E c \in Names : discovered' = (discovered \cup {c}) \ (discovered \cap {c})
          /\ UNCHANGED <<listed, version, cluster>>
       \/ /\ \E c \in Names : cluster[c] = None /\ cluster' = [cluster EXCEPT ![c] = New("hand")]
          /\ UNCHANGED <<listed, version, discovered>>

syncClusters ==
    /\ seen # cluster
    /\ seen' = cluster
    /\ UNCHANGED <<user, inventory, secret, cluster, spoke, pass, import, faults>>

FleetStep ==
    \/ reconcileFleet \/ ensureKubeconfigSecret \/ applyCluster \/ applied
    \/ bootstrapSpoke \/ bootstrapped \/ syncFleetClusterStatus \/ synced
    \/ cleanupCluster \/ cleanupSecrets \/ patchFleetStatus

TemplateStep == reconcileTemplate \/ upsertFleetCluster \/ upserted \/ pruneOrphans

Next == FleetStep \/ TemplateStep \/ editFleet \/ syncClusters

Spec == Init /\ [][Next]_vars

-----------------------------------------------------------------------------
(* Properties.  Edits and faults are bounded, so "in the end" is after the *)
(* last of them.                                                           *)

\* In the end every cluster that the Fleet lists or the provider reports has
\* its Cluster, although each controller deletes by name what the other may
\* have created (cleanupRemovedClusters, pruneOrphans).
WantedExist == <>[](listed \cup discovered \subseteq Existing(cluster))

\* In the end the Secrets are those of the listed clusters, whichever deletes
\* and passes failed on the way: they are found by label, not by inventory
\* (cleanupRemovedClusters).
SecretsFollowList == <>[](secret = listed)

\* In the end every listed spoke has the version of the source, although a
\* pass skips a spoke that a stale Cluster reports as converged at that
\* version (spokeAlreadyBootstrapped).
SpokesFollowSource == <>[](\A c \in listed : spoke[c] = version)

=============================================================================

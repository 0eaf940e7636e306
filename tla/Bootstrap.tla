------------------------------ MODULE Bootstrap ------------------------------
(***************************************************************************)
(* How a spoke registers with the hub: the ClusterBootstrapReconciler of   *)
(* internal/controller/cluster_bootstrap_controller.go and the certificate *)
(* manager of cmd/kapro-cluster-controller/bootstrap.go.                   *)
(*                                                                         *)
(* The hub hands out a kubeconfig with a short-lived token for one Cluster *)
(* (the slot).  The spoke uses it to submit a certificate signing request; *)
(* the hub binds the slot to the request, grants the cluster its role and  *)
(* approves; the spoke saves the signed certificate and renews it later    *)
(* with its own identity.  A restarted spoke that has not saved one starts *)
(* over with a new request.                                                *)
(*                                                                         *)
(* The reconciler reads the Cluster and the requests from caches.  The     *)
(* binding is an Update, which needs the newest version of the object; the *)
(* other writes are merge patches.  "registered" is the condition of that  *)
(* name; the conditions Stalled and Reconciling go along with it.          *)
(***************************************************************************)
EXTENDS Naturals

CONSTANTS
    MaxCSRs,    \* bound: signing requests, named by the time they are made
    MaxFaults   \* bound: crashes, lost calls, time-outs, other writers, edits

CSRs == 1..MaxCSRs
NoCSR == 0

VARIABLES
    cluster,   \* the Cluster object, as far as the bootstrap goes
    seen,      \* the cache's copy of it
    current,   \* the copy has the newest resourceVersion
    csr,       \* the signing requests
    csrSeen,   \* the cache's copies of them
    sa,        \* the bootstrap ServiceAccount and its role exist
    token,     \* the token in the kubeconfig Secret
    rbac,      \* the role of the registered cluster exists
    slotOver,  \* the time is past spec.bootstrap.expiresAt
    queued,    \* the Cluster's key is queued
    job,       \* the reconcile in progress
    spoke,     \* the spoke's process
    stored,    \* the spoke's Secret holds a certificate
    faults,    \* how many of the bounded events have happened
    lost       \* history: the spoke let go of a bootstrap request it had made

hub == <<cluster, seen, current>>
grants == <<sa, token, rbac>>
edge == <<spoke, stored, lost>>
vars == <<hub, csr, csrSeen, grants, slotOver, queued, job, edge, faults>>

-----------------------------------------------------------------------------
Cluster == [exists : BOOLEAN, deleting : BOOLEAN, suspend : BOOLEAN,
            finalizer : BOOLEAN, expires : BOOLEAN, used : BOOLEAN,
            bound : CSRs \cup {NoCSR}, issued : BOOLEAN,
            registered : {"", "False", "True"}]

Request == [state   : {"none", "pending", "approved", "signed", "denied"},
            purpose : {"bootstrap", "renewal"}]

Job == [pc    : {"idle", "cleanup", "unfinalize", "expire", "grant", "mark",
                 "approve", "deny", "issue", "register"},
        copy  : Cluster,   \* the copy the reconcile works on
        fresh : BOOLEAN,   \* nobody has written the object since it was read
        csr   : CSRs \cup {NoCSR}]

\* Every variable stays in its type.
TypeOK ==
    /\ cluster \in Cluster /\ seen \in Cluster /\ current \in BOOLEAN
    /\ csr \in [CSRs -> Request] /\ csrSeen \in [CSRs -> Request]
    /\ sa \in BOOLEAN /\ token \in {"none", "valid", "old"} /\ rbac \in BOOLEAN
    /\ slotOver \in BOOLEAN /\ queued \in BOOLEAN /\ job \in Job
    /\ spoke \in [pc : {"start", "wait", "persist", "run", "renew", "save"},
                  csr : CSRs \cup {NoCSR}, old : BOOLEAN]
    /\ stored \in BOOLEAN /\ faults \in 0..MaxFaults /\ lost \in BOOLEAN

NewCluster ==
    [exists |-> TRUE, deleting |-> FALSE, suspend |-> FALSE, finalizer |-> FALSE,
     expires |-> FALSE, used |-> FALSE, bound |-> NoCSR, issued |-> FALSE,
     registered |-> ""]

Idle == [pc |-> "idle", copy |-> NewCluster, fresh |-> FALSE, csr |-> NoCSR]

Init ==
    /\ cluster = NewCluster /\ seen = NewCluster /\ current = TRUE
    /\ csr = [x \in CSRs |-> [state |-> "none", purpose |-> "bootstrap"]]
    /\ csrSeen = csr
    /\ sa = FALSE /\ token = "none" /\ rbac = FALSE
    /\ slotOver = FALSE
    /\ queued = TRUE /\ job = Idle
    /\ spoke = [pc |-> "start", csr |-> NoCSR, old |-> FALSE]
    /\ stored = FALSE /\ faults = 0 /\ lost = FALSE

Fault == faults < MaxFaults /\ faults' = faults + 1

-----------------------------------------------------------------------------
(* The hub's reconcile.  It reads the cache once; each handler starts one  *)
(* job, the steps of which follow.                                         *)

\* A patch without a difference does not make a new version.
Write(c) ==
    /\ cluster' = c
    /\ current' = (current /\ c = cluster)
    /\ UNCHANGED seen

Begin == job.pc = "idle" /\ queued /\ seen.exists /\ queued' = FALSE

Start(pc, x) ==
    /\ job' = [pc |-> pc, copy |-> seen, fresh |-> current, csr |-> x]
    /\ UNCHANGED <<hub, csr, csrSeen, grants, slotOver, edge, faults>>

\* The object is gone from the cache.
reconcileGone ==
    /\ job.pc = "idle" /\ queued /\ ~seen.exists
    /\ queued' = FALSE
    /\ UNCHANGED <<hub, csr, csrSeen, grants, slotOver, job, edge, faults>>

handleDeletion ==
    /\ Begin /\ seen.deleting /\ seen.finalizer
    /\ Start("cleanup", NoCSR)

\* handleSuspended touches the Stalled and Reconciling conditions alone.
handleSuspended ==
    /\ Begin /\ ~seen.deleting /\ seen.suspend
    /\ UNCHANGED <<hub, csr, csrSeen, grants, slotOver, job, edge, faults>>

Active == Begin /\ ~seen.deleting /\ ~seen.suspend

\* The finalizer, then spec.bootstrap.expiresAt; each ends the reconcile with
\* a requeue.
addFinalizer ==
    /\ job.pc = "idle" /\ queued /\ seen.exists /\ ~seen.deleting /\ ~seen.suspend
    /\ ~seen.finalizer /\ cluster.exists
    /\ Write([cluster EXCEPT !.finalizer = TRUE])
    /\ UNCHANGED <<csr, csrSeen, grants, slotOver, queued, job, edge, faults>>

computeExpiresAt ==
    /\ job.pc = "idle" /\ queued /\ seen.exists /\ ~seen.deleting /\ ~seen.suspend
    /\ seen.finalizer /\ ~seen.expires /\ cluster.exists
    /\ Write([cluster EXCEPT !.expires = TRUE])
    /\ UNCHANGED <<csr, csrSeen, grants, slotOver, queued, job, edge, faults>>

Prepared == Active /\ seen.finalizer /\ seen.expires

expired == slotOver /\ ~seen.used

handleExpired ==
    /\ Prepared /\ expired
    /\ Start("expire", NoCSR)

\* listCSRsForCluster and classifyClusterCSR: requests not finalized yet.
Pending == {x \in CSRs : csrSeen[x].state = "pending"}

\* processCSRsForCluster on one of the listed requests: a renewal of a cluster
\* that is not registered and a request that comes after the bound one are
\* denied, the others are granted.
Denied(x) ==
    \/ csrSeen[x].purpose = "renewal" /\ ~seen.used
    \/ csrSeen[x].purpose = "bootstrap" /\ seen.used /\ seen.bound # x

processCSRsForCluster(x) ==
    /\ Prepared /\ ~expired /\ x \in Pending
    /\ Start(IF Denied(x) THEN "deny" ELSE "grant", x)

handleRegistered ==
    /\ Prepared /\ Pending = {} /\ seen.used
    /\ Start("register", NoCSR)

shouldProvision == ~seen.issued \/ token # "valid"

\* ServiceAccount, role, TokenRequest and Secret.
ensureBootstrapProvisioned ==
    /\ Prepared /\ ~expired /\ Pending = {} /\ ~seen.used /\ shouldProvision
    /\ sa' = TRUE /\ token' = "valid"
    /\ job' = [pc |-> "issue", copy |-> seen, fresh |-> current, csr |-> NoCSR]
    /\ UNCHANGED <<hub, csr, csrSeen, rbac, slotOver, edge, faults>>

\* markAwaitingCSR: no timer is set.
markAwaitingCSR ==
    /\ Prepared /\ ~expired /\ Pending = {} /\ ~seen.used /\ ~shouldProvision
    /\ cluster.exists
    /\ Write(IF seen.registered = "False" THEN cluster
             ELSE [cluster EXCEPT !.registered = "False"])
    /\ UNCHANGED <<csr, csrSeen, grants, slotOver, job, edge, faults>>

-----------------------------------------------------------------------------
(* The steps of a job.                                                     *)

\* The job ends; an error or a Result with a delay queues the key again.
End(again) == job' = Idle /\ queued' = (queued \/ again)

cleanupBootstrapResources ==
    /\ job.pc \in {"cleanup", "expire"}
    /\ sa' = FALSE /\ token' = "none"
    /\ IF job.pc = "cleanup"
       THEN /\ rbac' = FALSE
            /\ job' = [job EXCEPT !.pc = "unfinalize"]
            /\ UNCHANGED <<hub, queued>>
       ELSE \* markExpired
            /\ UNCHANGED rbac
            /\ Write(IF ~cluster.exists THEN cluster
                     ELSE [cluster EXCEPT !.issued = @ /\ ~job.copy.issued,
                             !.registered = IF job.copy.registered = "False" THEN @ ELSE "False"])
            /\ End(FALSE)
    /\ UNCHANGED <<csr, csrSeen, slotOver, edge, faults>>

\* Clearing the last finalizer lets the object go.
clearFinalizer ==
    /\ job.pc = "unfinalize"
    /\ Write([cluster EXCEPT !.exists = FALSE])
    /\ End(FALSE)
    /\ UNCHANGED <<csr, csrSeen, grants, slotOver, edge, faults>>

\* ensureClusterRBAC, for a bootstrap or renewal request or to keep the role;
\* then markRegistered in the last case.
ensureClusterRBAC ==
    /\ job.pc \in {"grant", "register"}
    /\ rbac' = TRUE
    /\ IF job.pc = "grant"
       THEN /\ job' = [job EXCEPT !.pc = IF csrSeen[job.csr].purpose = "renewal"
                                           THEN "approve" ELSE "mark"]
            /\ UNCHANGED <<hub, queued>>
       ELSE /\ Write(IF job.copy.registered = "True" \/ ~cluster.exists THEN cluster
                     ELSE [cluster EXCEPT !.registered = "True"])
            /\ End(FALSE)
    /\ UNCHANGED <<csr, csrSeen, sa, token, slotOver, edge, faults>>

Bind(x) == [cluster EXCEPT !.used = TRUE, !.bound = x, !.registered = "True"]

\* Fault: the binding is a merge patch, without regard to the version.
MarkBlindly ==
    /\ job.pc = "mark"
    /\ Write(Bind(job.csr))
    /\ job' = [job EXCEPT !.pc = "approve"]
    /\ UNCHANGED <<csr, csrSeen, grants, slotOver, queued, edge, faults>>

\* markBootstrapUsed with StatusUpdateWithRetry: a conflict makes it read the
\* cache again; a slot that turns out to be taken is an error.
markBootstrapUsed ==
    /\ job.pc = "mark"
    /\ \/ /\ job.copy.used /\ job.copy.bound = job.csr
          /\ job' = [job EXCEPT !.pc = "approve"]
          /\ UNCHANGED <<hub, queued>>
       \/ /\ job.copy.used /\ job.copy.bound # job.csr
          /\ End(TRUE)
          /\ UNCHANGED hub
       \/ /\ ~job.copy.used /\ job.fresh
          /\ Write(Bind(job.csr))
          /\ job' = [job EXCEPT !.pc = "approve"]
          /\ UNCHANGED queued
       \/ /\ ~job.copy.used /\ ~job.fresh
          /\ job' = [job EXCEPT !.copy = seen, !.fresh = current]
          /\ UNCHANGED <<hub, queued>>
    /\ UNCHANGED <<csr, csrSeen, grants, slotOver, edge, faults>>

\* approveCSR and denyCSR: UpdateApproval refuses a copy that is not the newest.
UpdateApproval ==
    /\ job.pc \in {"approve", "deny"}
    /\ csr' = IF csr[job.csr].state = "pending"
              THEN [csr EXCEPT ![job.csr].state = IF job.pc = "approve" THEN "approved" ELSE "denied"]
              ELSE csr
    /\ End(TRUE)
    /\ UNCHANGED <<hub, csrSeen, grants, slotOver, edge, faults>>

\* The Secret's name is recorded; the reconcile runs again.
recordIssued ==
    /\ job.pc = "issue"
    /\ Write(IF ~cluster.exists \/ job.copy.issued THEN cluster
             ELSE [cluster EXCEPT !.issued = TRUE])
    /\ End(TRUE)
    /\ UNCHANGED <<csr, csrSeen, grants, slotOver, edge, faults>>

\* A failed call or a crash of the operator: the key is queued again.
abandon ==
    /\ job.pc # "idle" /\ Fault
    /\ End(TRUE)
    /\ UNCHANGED <<hub, csr, csrSeen, grants, slotOver, edge>>

-----------------------------------------------------------------------------
(* Caches, other writers, time.                                            *)

\* fleetClusterBootstrapPredicate: a change of conditions alone wakes nobody.
Noticed(a, b) ==
    \/ a.exists # b.exists \/ a.deleting # b.deleting \/ a.suspend # b.suspend
    \/ a.finalizer # b.finalizer \/ a.expires # b.expires
    \/ a.used # b.used \/ a.bound # b.bound \/ a.issued # b.issued

syncCluster ==
    /\ ~current
    /\ seen' = cluster /\ current' = TRUE
    /\ queued' = (queued \/ Noticed(seen, cluster))
    /\ UNCHANGED <<cluster, csr, csrSeen, grants, slotOver, job, edge, faults>>

syncCSR(x) ==
    /\ csrSeen[x] # csr[x]
    /\ csrSeen' = [csrSeen EXCEPT ![x] = csr[x]]
    /\ queued' = TRUE
    /\ UNCHANGED <<hub, csr, grants, slotOver, job, edge, faults>>

\* external: the signer of kube-controller-manager.
sign(x) ==
    /\ csr[x].state = "approved"
    /\ csr' = [csr EXCEPT ![x].state = "signed"]
    /\ UNCHANGED <<hub, csrSeen, grants, slotOver, queued, job, edge, faults>>

\* external: an operator suspends, resumes or deletes the Cluster, or another
\* controller writes its status.
Outside(c) ==
    /\ cluster.exists /\ Fault
    /\ cluster' = c /\ current' = FALSE
    /\ job' = [job EXCEPT !.fresh = FALSE]
    /\ UNCHANGED <<seen, csr, csrSeen, grants, slotOver, queued, edge>>

suspendCluster == Outside([cluster EXCEPT !.suspend = ~@])
deleteCluster ==
    /\ ~cluster.deleting
    /\ Outside(IF cluster.finalizer THEN [cluster EXCEPT !.deleting = TRUE]
               ELSE [cluster EXCEPT !.exists = FALSE])
otherWriter == Outside(cluster)

\* bootstrapTokenLifetime is over, or nearly so.
tokenAges ==
    /\ token = "valid"
    /\ token' = "old"
    /\ UNCHANGED <<hub, csr, csrSeen, sa, rbac, slotOver, queued, job, edge, faults>>

slotExpires ==
    /\ cluster.expires /\ ~slotOver
    /\ slotOver' = TRUE
    /\ UNCHANGED <<hub, csr, csrSeen, grants, queued, job, edge, faults>>

-----------------------------------------------------------------------------
(* The spoke: startCertManager and runRotation.                            *)

Unused == {x \in CSRs : csr[x].state = "none"}

Submit(purpose, pc) ==
    /\ Unused # {}
    /\ LET x == CHOOSE y \in Unused : \A z \in Unused : y <= z IN
       /\ csr' = [csr EXCEPT ![x] = [state |-> "pending", purpose |-> purpose]]
       /\ spoke' = [spoke EXCEPT !.pc = pc, !.csr = x]
    /\ UNCHANGED <<hub, csrSeen, grants, slotOver, queued, job, stored, faults, lost>>

\* A saved certificate is used, otherwise a first request is made with the
\* token.
loadCert ==
    /\ spoke.pc = "start" /\ stored
    /\ spoke' = [spoke EXCEPT !.pc = "run"]
    /\ UNCHANGED <<hub, csr, csrSeen, grants, slotOver, queued, job, stored, faults, lost>>

submitBootstrap ==
    /\ spoke.pc = "start" /\ ~stored /\ sa /\ token = "valid"
    /\ Submit("bootstrap", "wait")

\* The certificate is past half of its life.
shouldRenew ==
    /\ spoke.pc = "run" /\ ~spoke.old /\ Unused # {}
    /\ spoke' = [spoke EXCEPT !.old = TRUE]
    /\ UNCHANGED <<hub, csr, csrSeen, grants, slotOver, queued, job, stored, faults, lost>>

submitRenewal ==
    /\ spoke.pc = "run" /\ spoke.old /\ rbac
    /\ Submit("renewal", "renew")

\* submitAndWaitForCert's polling, with the identity the request was made with.
pollCSR ==
    /\ \/ spoke.pc = "wait" /\ sa
       \/ spoke.pc = "renew" /\ rbac
    /\ \/ /\ csr[spoke.csr].state = "signed"
          /\ spoke' = [spoke EXCEPT !.pc = IF @ = "wait" THEN "persist" ELSE "save"]
       \/ /\ csr[spoke.csr].state = "denied"
          /\ spoke' = [spoke EXCEPT !.pc = IF @ = "wait" THEN "start" ELSE "run"]
    /\ UNCHANGED <<hub, csr, csrSeen, grants, slotOver, queued, job, stored, faults, lost>>

persist ==
    /\ spoke.pc \in {"persist", "save"}
    /\ stored' = TRUE
    /\ spoke' = [spoke EXCEPT !.pc = "run", !.old = FALSE]
    /\ UNCHANGED <<hub, csr, csrSeen, grants, slotOver, queued, job, faults, lost>>

\* WaitForFirstCert is over: the first request ends the process, a renewal is
\* tried again.
waitExpires ==
    /\ spoke.pc \in {"wait", "renew"} /\ Fault
    /\ spoke' = [spoke EXCEPT !.pc = IF @ = "wait" THEN "start" ELSE "run"]
    /\ lost' = (lost \/ spoke.pc = "wait")
    /\ UNCHANGED <<hub, csr, csrSeen, grants, slotOver, queued, job, stored>>

restartSpoke ==
    /\ spoke.pc # "start" /\ Fault
    /\ spoke' = [spoke EXCEPT !.pc = "start"]
    /\ lost' = (lost \/ spoke.pc \in {"wait", "persist"})
    /\ UNCHANGED <<hub, csr, csrSeen, grants, slotOver, queued, job, stored>>

-----------------------------------------------------------------------------
Reconcile ==
    \/ reconcileGone \/ handleDeletion \/ handleSuspended
    \/ addFinalizer \/ computeExpiresAt \/ handleExpired
    \/ \E x \in CSRs : processCSRsForCluster(x)
    \/ handleRegistered \/ ensureBootstrapProvisioned \/ markAwaitingCSR
    \/ cleanupBootstrapResources \/ clearFinalizer
    \/ ensureClusterRBAC \/ markBootstrapUsed \/ UpdateApproval \/ recordIssued

Spoke == loadCert \/ submitBootstrap \/ submitRenewal \/ pollCSR \/ persist

Sync == syncCluster \/ \E x \in CSRs : syncCSR(x)

Next ==
    \/ Reconcile
    \/ Spoke
    \/ Sync
    \/ \E x \in CSRs : sign(x)
    \/ abandon
    \/ suspendCluster \/ deleteCluster \/ otherWriter
    \/ tokenAges \/ slotExpires
    \/ shouldRenew \/ waitExpires \/ restartSpoke

Spec == Init /\ [][Next]_vars

-----------------------------------------------------------------------------
(* Properties.                                                             *)

Approved == {x \in CSRs : csr[x].purpose = "bootstrap" /\ csr[x].state \in {"approved", "signed"}}

\* A slot is good for one certificate: stale caches, a crash between the steps
\* of handleBootstrapCSR and a second request of a restarted spoke never get a
\* second bootstrap request approved.
OneBootstrap == \A x, y \in Approved : x = y

\* An approved request is the one the slot is bound to, and its role exists
\* already ("approve LAST so a transient approval failure does not leak the
\* slot").
ApprovedIsBound ==
    \A x \in Approved :
        cluster.exists => /\ cluster.used /\ cluster.bound = x
                          /\ rbac \/ cluster.deleting

\* A deleted Cluster leaves neither its token and account nor its role behind,
\* wherever the deletion meets the reconcile.
CleanedUp ==
    ~cluster.exists /\ job.pc = "idle" => ~sa /\ token = "none" /\ ~rbac

Unavailable ==
    lost \/ slotOver \/ cluster.suspend \/ cluster.deleting \/ ~cluster.exists

\* The spoke gets and saves its certificate, in spite of crashes of the hub and
\* of conflicting writes, unless the slot expires, the operator steps in, the
\* token runs out, or the spoke gives up the request it has made.
Registers == []<>(stored \/ Unavailable \/ token = "old")

=============================================================================

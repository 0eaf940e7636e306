--------------------------- MODULE DeliveryProofs ---------------------------
(***************************************************************************)
(* Proofs about Delivery, for every set of runs, versions and objects and  *)
(* every number of faults.                                                 *)
(***************************************************************************)
EXTENDS Delivery, TLAPS

-----------------------------------------------------------------------------
(* Type correctness.                                                       *)

\* The types of the Cluster and of its cached copy.
LEMMA ClusterFields ==
    ASSUME NEW c \in Cluster
    PROVE  /\ c.claim \in Optional(Runs)
           /\ c.desired \in Optional(Versions)
           /\ c.current \in Optional(Versions)
           /\ \A r \in Optional(Runs) : [c EXCEPT !.claim = r] \in Cluster
           /\ \A v \in Optional(Versions) : /\ [c EXCEPT !.desired = v] \in Cluster
                                            /\ [c EXCEPT !.current = v] \in Cluster
  BY DEF Cluster

\* What BeginClear may write.
LEMMA BeginClearType ==
    ASSUME TypeOK, NEW r \in Runs, NEW deleted \in BOOLEAN,
           NEW phase \in {"Progressing", "Complete", "Failed", "gone"},
           BeginClear(r, phase, deleted)
    PROVE  /\ run' \in [Runs -> {"Progressing", "Complete", "Failed", "gone"}]
           /\ clearing' \in [Runs -> {"idle", "clear", "delete"}]
  BY DEF TypeOK, BeginClear

\* The hub's steps keep the types: each writes the claim and the desired
\* version of the Cluster from its own sets.
LEMMA HubType ==
    ASSUME TypeOK, NEW r \in Runs, HubStep(r)
    PROVE  TypeOK'
<1>0. /\ VersionOf[r] \in Versions /\ MaxFaults \in Nat
      /\ work[r] \in Work /\ NoWork \in Work
      /\ cluster \in Cluster /\ clusterSeen \in Cluster
      /\ run[r] \in {"Progressing", "Complete", "Failed", "gone"}
  BY DeliveryAssumption DEF TypeOK, Work, NoWork, Optional
<1> USE <1>0
<1>1. Fault => faults' \in 0..MaxFaults
  BY DEF Fault, TypeOK
<1>2. CASE handleApplying(r)
  <2>1. clusterSeen.current \in Optional(Versions)
    BY ClusterFields
  <2>2. work' \in [Runs -> Work]
    BY <1>2, <2>1 DEF handleApplying, TypeOK, Work
  <2> QED
    BY <1>2, <2>2 DEF handleApplying, TypeOK, spokeVars
<1>3. CASE claimCluster(r)
  <2>1. cluster.current \in Optional(Versions) /\ r \in Optional(Runs)
    BY ClusterFields DEF Optional
  <2>2. work' \in [Runs -> Work]
    BY <1>3, <2>1 DEF claimCluster, TypeOK, Work
  <2>3. cluster' \in Cluster
    BY <1>3, <2>1, ClusterFields DEF claimCluster
  <2> QED
    BY <1>3, <2>2, <2>3 DEF claimCluster, TypeOK, spokeVars
<1>4. CASE ApplyDelta(r)
  <2>1. cluster.desired \in Optional(Versions) /\ VersionOf[r] \in Optional(Versions)
    BY ClusterFields DEF Optional
  <2>2. cluster' \in Cluster
    BY <1>4, <2>1, ClusterFields DEF ApplyDelta
  <2>3. work' \in [Runs -> Work]
    BY <1>4 DEF ApplyDelta, TypeOK, Work
  <2> QED
    BY <1>4, <2>2, <2>3 DEF ApplyDelta, TypeOK, spokeVars
<1>5. CASE pollConvergence(r)
  BY <1>5 DEF pollConvergence, TypeOK, spokeVars
<1>6. CASE abandonTarget(r)
  BY <1>1, <1>6 DEF abandonTarget, TypeOK, spokeVars
<1>7. CASE endRun(r)
  <2>1. /\ run' \in [Runs -> {"Progressing", "Complete", "Failed", "gone"}]
        /\ clearing' \in [Runs -> {"idle", "clear", "delete"}]
    BY <1>7, BeginClearType DEF endRun
  <2> QED
    BY <1>1, <1>7, <2>1 DEF endRun, TypeOK, spokeVars
<1>8. CASE cancelTarget(r)
  BY <1>8 DEF cancelTarget, TypeOK, spokeVars
<1>9. CASE handleFailed(r)
  <2>1. /\ run' \in [Runs -> {"Progressing", "Complete", "Failed", "gone"}]
        /\ clearing' \in [Runs -> {"idle", "clear", "delete"}]
    BY <1>9, BeginClearType DEF handleFailed
  <2> QED
    BY <1>9, <2>1 DEF handleFailed, TypeOK, spokeVars
<1>10. CASE handleDeletion(r)
  <2>1. /\ run' \in [Runs -> {"Progressing", "Complete", "Failed", "gone"}]
        /\ clearing' \in [Runs -> {"idle", "clear", "delete"}]
    BY <1>10, BeginClearType DEF handleDeletion
  <2> QED
    BY <1>10, <2>1 DEF handleDeletion, TypeOK, spokeVars
<1>11. CASE clearActivePromotionRun(r)
  <2>1. cluster' \in Cluster
    BY <1>11, ClusterFields DEF clearActivePromotionRun, Optional
  <2> QED
    BY <1>1, <1>11, <2>1 DEF clearActivePromotionRun, TypeOK, spokeVars
<1> QED
  BY <1>2, <1>3, <1>4, <1>5, <1>6, <1>7, <1>8, <1>9, <1>10, <1>11 DEF HubStep

\* The spoke's steps and those of its surroundings keep the types.
LEMMA SpokeType ==
    ASSUME TypeOK, Spoke \/ failBeforeCommit \/ abandonTick \/ syncCluster \/ toggleSuspend
    PROVE  TypeOK'
<1>0. /\ MaxFaults \in Nat /\ cluster \in Cluster
      /\ spoke \in Tick /\ spoke.version \in Optional(Versions) /\ spoke.todo \subseteq Objects
      /\ NoTick \in Tick
  BY DeliveryAssumption DEF TypeOK, Tick, NoTick, Optional
<1> USE <1>0
<1>1. Fault => faults' \in 0..MaxFaults
  BY DEF Fault, TypeOK
<1>2. CASE beginTick
  BY <1>2, ClusterFields DEF beginTick, TypeOK, Tick, hub
<1>3. ASSUME NEW o \in Objects, commitObject(o)
      PROVE  TypeOK'
  <2>1. spoke' \in Tick
    BY <1>3 DEF commitObject, Tick
  <2>2. running' \in [Objects -> Optional(Versions)]
    BY <1>3 DEF commitObject, TypeOK
  <2>3. committed' \in SUBSET Versions
    BY <1>3 DEF commitObject, TypeOK
  <2>4. faults' \in 0..MaxFaults
    BY <1>1, <1>3 DEF commitObject, TypeOK
  <2> QED
    BY <1>3, <2>1, <2>2, <2>3, <2>4 DEF commitObject, TypeOK, hub
<1>4. CASE writeStatus
  <2>1. cluster' \in Cluster
    BY <1>4, ClusterFields DEF writeStatus
  <2> QED
    BY <1>4, <2>1 DEF writeStatus, TypeOK, hub
<1>5. CASE failBeforeCommit
  <2>1. spoke' \in Tick
    BY <1>5 DEF failBeforeCommit, Tick
  <2> QED
    BY <1>1, <1>5, <2>1 DEF failBeforeCommit, TypeOK, hub
<1>6. CASE abandonTick
  BY <1>1, <1>6 DEF abandonTick, TypeOK, hub
<1>7. CASE syncCluster
  BY <1>7 DEF syncCluster, TypeOK, hub, spokeVars
<1>8. CASE toggleSuspend
  BY <1>1, <1>8 DEF toggleSuspend, TypeOK, hub, spokeVars
<1> QED
  BY <1>2, <1>3, <1>4, <1>5, <1>6, <1>7, <1>8 DEF Spoke

LEMMA TypeStep == (Init => TypeOK) /\ (TypeOK /\ [Next]_vars => TypeOK')
<1>1. Init => TypeOK
  <2>1. MaxFaults \in Nat
    BY DeliveryAssumption
  <2>2. NewCluster \in Cluster /\ NoWork \in Work /\ NoTick \in Tick
    BY DEF NewCluster, Cluster, NoWork, Work, NoTick, Tick, Optional
  <2>3. Init => running \in [Objects -> Optional(Versions)]
    BY DEF Init, Optional
  <2>4. Init => target \in [Runs -> [phase : {"Applying", "Converged", "Failed"},
                                     issued : BOOLEAN]]
    BY DEF Init
  <2>5. Init => work \in [Runs -> Work] /\ committed \in SUBSET Versions
    BY <2>2 DEF Init
  <2>6. Init => faults \in 0..MaxFaults
    BY <2>1 DEF Init
  <2> QED
    BY <2>2, <2>3, <2>4, <2>5, <2>6 DEF Init, TypeOK
<1>2. ASSUME TypeOK, UNCHANGED vars
      PROVE  TypeOK'
  BY <1>2 DEF vars, hub, spokeVars, TypeOK
<1> QED
  BY <1>1, <1>2, HubType, SpokeType DEF Next

\* The state of the hub, the spoke and their surroundings stays in its type,
\* for any number of runs, versions and objects.
THEOREM DeliveryTypeCorrect == Spec => []TypeOK
  BY TypeStep, PTL DEF Spec

-----------------------------------------------------------------------------
(* DeliveryIsHonest is not inductive: the Cluster the hub's reconciles      *)
(* compare with is a cached copy, or the copy a claim returned, and the    *)
(* version the spoke will report is the one its pass began with.           *)

\* Every copy of currentVersions, however old, names a version all objects
\* have had at once.
CopiesAreHonest ==
    /\ cluster.current \in Optional(committed)
    /\ clusterSeen.current \in Optional(committed)
    /\ \A r \in Runs : work[r].current \in Optional(committed)

\* As long as nothing has failed, the objects a pass is done with have its
\* version, although the desired version may have changed meanwhile.
PassIsHonest ==
    spoke # NoTick =>
        /\ spoke.version \in Versions
        /\ ~spoke.errors =>
              /\ \A o \in Objects \ spoke.todo : running[o] = spoke.version
              /\ spoke.todo = {} => spoke.version \in committed

HonestInv == CopiesAreHonest /\ PassIsHonest /\ ConvergedWasDelivered

\* The hub copies currentVersions around, and a target converges only on the
\* version its reconcile found there.
LEMMA HubHonest ==
    ASSUME TypeOK, HonestInv, NEW r \in Runs, HubStep(r)
    PROVE  HonestInv'
<1>0. /\ VersionOf[r] \in Versions /\ None \notin Versions
      /\ cluster \in Cluster /\ clusterSeen \in Cluster
      /\ work \in [Runs -> Work] /\ work[r] \in Work
      /\ target \in [Runs -> [phase : {"Applying", "Converged", "Failed"}, issued : BOOLEAN]]
  BY DeliveryAssumption DEF TypeOK
<1>1. /\ cluster.current \in Optional(committed)
      /\ clusterSeen.current \in Optional(committed)
      /\ \A q \in Runs : work[q].current \in Optional(committed)
      /\ None \in Optional(committed)
  BY DEF HonestInv, CopiesAreHonest, Optional
<1>2. UNCHANGED <<spokeVars, clusterSeen>>
  BY DEF HubStep, handleApplying, claimCluster, ApplyDelta, pollConvergence, abandonTarget,
         endRun, cancelTarget, handleFailed, handleDeletion, clearActivePromotionRun
<1>3. PassIsHonest'
  BY <1>2 DEF HonestInv, PassIsHonest, spokeVars
<1>4. cluster'.current = cluster.current
  BY <1>0 DEF HubStep, handleApplying, claimCluster, ApplyDelta, pollConvergence,
         abandonTarget, endRun, cancelTarget, handleFailed, handleDeletion,
         clearActivePromotionRun, Cluster
<1>5. ASSUME NEW q \in Runs
      PROVE  work'[q].current \in Optional(committed)
  <2>1. CASE work' = work
    BY <1>1, <2>1
  <2>2. ASSUME NEW w, w.current \in Optional(committed), work' = [work EXCEPT ![r] = w]
        PROVE  work'[q].current \in Optional(committed)
    BY <1>0, <1>1, <2>2
  <2>3. CASE handleApplying(r)
    BY <1>1, <2>2, <2>3 DEF handleApplying
  <2>4. CASE claimCluster(r)
    BY <1>1, <2>2, <2>4 DEF claimCluster
  <2>5. CASE ApplyDelta(r)
    BY <1>0, <1>1, <2>5 DEF ApplyDelta, Work
  <2>6. CASE pollConvergence(r)
    BY <1>1, <2>2, <2>6 DEF pollConvergence, NoWork
  <2>7. CASE abandonTarget(r)
    BY <1>1, <2>2, <2>7 DEF abandonTarget, NoWork
  <2> QED
    BY <2>1, <2>3, <2>4, <2>5, <2>6, <2>7 DEF HubStep, endRun, cancelTarget,
       handleFailed, handleDeletion, clearActivePromotionRun
<1>6. CopiesAreHonest'
  BY <1>1, <1>2, <1>4, <1>5 DEF CopiesAreHonest, spokeVars
<1>7. ASSUME NEW q \in Runs, target'[q].phase = "Converged"
      PROVE  VersionOf[q] \in committed
  <2>1. CASE target[q].phase = "Converged"
    BY <2>1 DEF HonestInv, ConvergedWasDelivered
  <2>2. CASE target[q].phase # "Converged"
    <3>1. \/ pollConvergence(r)
          \/ cancelTarget(r)
          \/ target' = target
      BY DEF HubStep, handleApplying, claimCluster, ApplyDelta, abandonTarget,
             endRun, handleFailed, handleDeletion, clearActivePromotionRun
    <3>2. target'[q].phase # "Converged" \/ pollConvergence(r)
      BY <1>0, <2>2, <3>1 DEF cancelTarget
    <3>3. q = r /\ work[r].current = VersionOf[r]
      BY <1>0, <1>7, <2>2, <3>2 DEF pollConvergence, IsAllConverged
    <3> QED
      BY <1>0, <1>1, <3>3 DEF Optional
  <2> QED
    BY <2>1, <2>2
<1>8. ConvergedWasDelivered'
  BY <1>2, <1>7 DEF ConvergedWasDelivered, spokeVars
<1> QED
  BY <1>3, <1>6, <1>8 DEF HonestInv

\* A pass that ends without an error reports the version it has committed to
\* every object.
LEMMA SpokeHonest ==
    ASSUME TypeOK, HonestInv,
           Spoke \/ failBeforeCommit \/ abandonTick \/ syncCluster \/ toggleSuspend
    PROVE  HonestInv'
<1>0. /\ Objects # {} /\ None \notin Versions
      /\ cluster \in Cluster /\ cluster.desired \in Optional(Versions)
      /\ spoke \in Tick /\ spoke.todo \subseteq Objects
      /\ running \in [Objects -> Optional(Versions)]
  BY DeliveryAssumption DEF TypeOK, Cluster, Tick
<1>1. committed \subseteq committed'
  BY DEF Spoke, beginTick, commitObject, writeStatus, failBeforeCommit, abandonTick,
         syncCluster, toggleSuspend, spokeVars
<1>2. ConvergedWasDelivered'
  <2>1. target' = target
    BY DEF Spoke, beginTick, commitObject, writeStatus, failBeforeCommit, abandonTick,
           syncCluster, toggleSuspend, hub
  <2> QED
    BY <1>1, <2>1 DEF HonestInv, ConvergedWasDelivered
<1>3. PassIsHonest'
  <2>1. CASE beginTick
    BY <1>0, <2>1 DEF beginTick, PassIsHonest, Optional
  <2>2. ASSUME NEW o \in Objects, commitObject(o)
        PROVE  PassIsHonest'
    <3>1. spoke # NoTick
      BY <2>2 DEF commitObject, NoTick
    <3>2. spoke.version \in Versions /\ spoke'.version = spoke.version
      BY <1>0, <2>2, <3>1 DEF commitObject, HonestInv, PassIsHonest, Tick
    <3>3. ASSUME ~spoke'.errors
          PROVE  /\ running' = [running EXCEPT ![o] = spoke.version]
                 /\ ~spoke.errors
                 /\ spoke'.todo = spoke.todo \ {o}
      BY <1>0, <2>2, <3>3 DEF commitObject, Tick
    <3>4. ASSUME ~spoke'.errors, NEW p \in Objects \ spoke'.todo
          PROVE  running'[p] = spoke.version
      BY <1>0, <3>1, <3>3, <3>4 DEF HonestInv, PassIsHonest
    <3>5. ASSUME ~spoke'.errors, spoke'.todo = {}
          PROVE  spoke.version \in committed'
      BY <2>2, <3>2, <3>4, <3>5 DEF commitObject
    <3> QED
      BY <3>2, <3>4, <3>5 DEF PassIsHonest
  <2>3. CASE failBeforeCommit
    <3>1. spoke # NoTick
      BY <1>0, <2>3 DEF failBeforeCommit, NoTick
    <3>2. spoke'.errors /\ spoke'.version = spoke.version
      BY <1>0, <2>3 DEF failBeforeCommit, Tick
    <3> QED
      BY <3>1, <3>2 DEF HonestInv, PassIsHonest
  <2>4. CASE writeStatus \/ abandonTick
    BY <2>4 DEF writeStatus, abandonTick, PassIsHonest
  <2>5. CASE syncCluster \/ toggleSuspend
    BY <2>5 DEF syncCluster, toggleSuspend, spokeVars, HonestInv, PassIsHonest
  <2> QED
    BY <2>1, <2>2, <2>3, <2>4, <2>5 DEF Spoke
<1>4. cluster'.current \in Optional(committed')
  <2>1. CASE writeStatus
    <3>1. cluster'.current = IF spoke.errors THEN cluster.current ELSE spoke.version
      BY <1>0, <2>1 DEF writeStatus, Cluster
    <3> QED
      BY <1>1, <2>1, <3>1 DEF writeStatus, HonestInv, PassIsHonest, CopiesAreHonest, Optional
  <2>2. CASE cluster' = cluster
    BY <1>1, <2>2 DEF HonestInv, CopiesAreHonest, Optional
  <2> QED
    BY <2>1, <2>2 DEF Spoke, beginTick, commitObject, failBeforeCommit, abandonTick,
                      syncCluster, toggleSuspend
<1>5. clusterSeen'.current \in Optional(committed')
  <2>1. clusterSeen' \in {clusterSeen, cluster}
    BY DEF Spoke, beginTick, commitObject, writeStatus, failBeforeCommit, abandonTick,
           syncCluster, toggleSuspend
  <2> QED
    BY <1>1, <2>1 DEF HonestInv, CopiesAreHonest, Optional
<1>6. \A r \in Runs : work'[r].current \in Optional(committed')
  <2>1. work' = work
    BY DEF Spoke, beginTick, commitObject, writeStatus, failBeforeCommit, abandonTick,
           syncCluster, toggleSuspend, hub
  <2> QED
    BY <1>1, <2>1 DEF HonestInv, CopiesAreHonest, Optional
<1> QED
  BY <1>2, <1>3, <1>4, <1>5, <1>6 DEF HonestInv, CopiesAreHonest

LEMMA HonestStep == (Init => HonestInv) /\ (TypeOK /\ HonestInv /\ [Next]_vars => HonestInv')
<1>1. Init => HonestInv
  BY DEF Init, HonestInv, CopiesAreHonest, PassIsHonest, ConvergedWasDelivered,
         NewCluster, NoWork, Optional
<1>2. ASSUME HonestInv, UNCHANGED vars
      PROVE  HonestInv'
  BY <1>2 DEF vars, hub, spokeVars, HonestInv, CopiesAreHonest, PassIsHonest,
              ConvergedWasDelivered
<1> QED
  BY <1>1, <1>2, HubHonest, SpokeHonest DEF Next

\* currentVersions never names, and no target ever converges on, a version the
\* cluster's objects did not all have: whatever calls were lost or failed,
\* however old the copies were that the hub's reconciles compared with, and
\* whichever runs took the cluster from one another.
THEOREM DeliveryAlwaysHonest == Spec => []DeliveryIsHonest
<1>1. TypeOK /\ HonestInv => DeliveryIsHonest
  BY DEF HonestInv, CopiesAreHonest, DeliveryIsHonest, ReportedWasCommitted, Optional
<1> QED
  BY <1>1, TypeStep, HonestStep, PTL DEF Spec
=============================================================================

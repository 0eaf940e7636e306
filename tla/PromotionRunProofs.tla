------------------------- MODULE PromotionRunProofs -------------------------
(***************************************************************************)
(* Proofs about PromotionRun, for every plan, every finite set of clusters *)
(* and every number of failed calls, restarts and suspended clusters.      *)
(***************************************************************************)
EXTENDS PromotionRun, FiniteSetTheorems, FunctionTheorems, TLAPS

-----------------------------------------------------------------------------
(* What the helpers of a reconcile return.                                 *)

\* A nonempty set of natural numbers has a least element.
LEMMA Least ==
    ASSUME NEW T \in SUBSET Nat, T # {}
    PROVE  \E n \in T : \A m \in T : n <= m
<1> DEFINE R == {ss \in Nat \X Nat : ss[1] < ss[2]}
<1>1. OpToRel(<, Nat) = R
  BY DEF OpToRel
<1>2. IsWellFoundedOn(R, Nat)
  BY NatLessThanWellFounded, <1>1, Zenon
<1>3. PICK n \in T : \A m \in T : <<m, n>> \notin R
  <2> HIDE DEF R
  <2> QED
    BY <1>2, WFMin
<1>4. n \in Nat /\ \A m \in T : m \in Nat /\ ~(m < n)
  BY <1>3
<1> QED
  BY <1>4

\* The planner's order has a last one among any clusters.
LEMMA LastRank ==
    ASSUME NEW X \in SUBSET Clusters, X # {}
    PROVE  \E x \in X : \A y \in X : Rank[y] <= Rank[x]
<1>1. IsFiniteSet(X) /\ \A c \in Clusters : Rank[c] \in Nat
  BY FS_Subset, ConstantsAssumption
<1> DEFINE Above(c) == {d \in X : Rank[c] < Rank[d]}
<1> DEFINE T == {Cardinality(Above(c)) : c \in X}
<1>2. \A c \in X : IsFiniteSet(Above(c)) /\ Cardinality(Above(c)) \in Nat
  BY <1>1, FS_Subset, FS_CardinalityType
<1>3. T \in SUBSET Nat /\ T # {}
  BY <1>2
<1>4. PICK n \in T : \A m \in T : n <= m
  <2> HIDE DEF T
  <2> QED
    BY <1>3, Least
<1>5. PICK x \in X : n = Cardinality(Above(x))
  BY <1>4
<1>6. \A y \in X : Rank[y] <= Rank[x]
  <2> SUFFICES ASSUME NEW y \in X, Rank[x] < Rank[y]
               PROVE  FALSE
    BY <1>1
  <2>1. Above(y) \subseteq Above(x) /\ y \in Above(x) /\ y \notin Above(y)
    BY <1>1
  <2>2. Cardinality(Above(y)) <= Cardinality(Above(x))
        /\ Cardinality(Above(y)) # Cardinality(Above(x))
    <3> HIDE DEF Above
    <3> QED
      BY <1>2, <2>1, FS_Subset
  <2>3. Cardinality(Above(x)) <= Cardinality(Above(y))
    BY <1>4, <1>5
  <2>4. Cardinality(Above(x)) \in Nat /\ Cardinality(Above(y)) \in Nat
    BY <1>2
  <2> QED
    <3> HIDE DEF Above
    <3> QED
      BY <2>2, <2>3, <2>4
<1> QED
  BY <1>6

\* Admission takes no more clusters than there is room for.
LEMMA AdmitFits ==
    ASSUME NEW free \in SUBSET Clusters, NEW n \in Nat
    PROVE  IsFiniteSet(Admit(free, n)) /\ Cardinality(Admit(free, n)) <= n
<1> DEFINE X == Admit(free, n)
<1> DEFINE Below(c) == {d \in free : Rank[d] < Rank[c]}
<1>1. \A c \in free : IsFiniteSet(Below(c)) /\ Cardinality(Below(c)) \in Nat
  BY FS_Subset, FS_CardinalityType, ConstantsAssumption
<1>2. X \in SUBSET Clusters /\ IsFiniteSet(X)
  BY FS_Subset, ConstantsAssumption DEF Admit
<1>3. CASE X = {}
  BY <1>2, <1>3, FS_EmptySet
<1>4. CASE X # {}
  <2>1. PICK x \in X : \A y \in X : Rank[y] <= Rank[x]
    <3> HIDE DEF X
    <3> QED
      BY <1>2, <1>4, LastRank
  <2>2. x \in free /\ Cardinality(Below(x)) < n
    BY DEF Admit
  <2>3. \A c \in X \ {x} : c \in free /\ Rank[c] < Rank[x]
    BY <2>1, <2>2, ConstantsAssumption DEF Admit
  <2>4. X \ {x} \subseteq Below(x)
    BY <2>3
  <2>5. Cardinality(X \ {x}) <= Cardinality(Below(x))
    <3> HIDE DEF Below, X
    <3> QED
      BY <1>1, <2>2, <2>4, FS_Subset
  <2>6. Cardinality(X \ {x}) = Cardinality(X) - 1 /\ Cardinality(X) \in Nat
    <3> HIDE DEF X
    <3> QED
      BY <1>2, FS_RemoveElement, FS_CardinalityType
  <2>7. Cardinality(Below(x)) \in Nat
    BY <1>1, <2>2
  <2> QED
    BY <1>2, <2>2, <2>5, <2>6, <2>7
<1> QED
  BY <1>3, <1>4

\* A reconcile of a plan gets to stages of the plan, and to all of them unless
\* one has failed.
LEMMA WalkedStage ==
    ASSUME NEW p \in PlanNames
    PROVE  /\ Walked(p) \subseteq StageSeq(p)
           /\ (\A s \in Walked(p) : StagePhase(s) # "Failed") => Walked(p) = StageSeq(p)
<1>1. DOMAIN StagesOf[p] = 1..Len(StagesOf[p]) /\ Len(StagesOf[p]) \in Nat
  BY ConstantsAssumption
<1>2. Walked(p) \subseteq StageSeq(p)
  BY <1>1 DEF Walked, UpTo, StageSeq
<1>3. ASSUME \A s \in Walked(p) : StagePhase(s) # "Failed"
      PROVE  StageSeq(p) \subseteq Walked(p)
  <2> DEFINE Bad == {i \in DOMAIN StagesOf[p] : StagePhase(StagesOf[p][i]) = "Failed"}
  <2>1. Bad = {}
    <3> SUFFICES ASSUME Bad # {}
                 PROVE  FALSE
      OBVIOUS
    <3>1. Bad \in SUBSET Nat
      BY <1>1
    <3>2. PICK n \in Bad : \A m \in Bad : n <= m
      <4> HIDE DEF Bad
      <4> QED
        BY <3>1, Least
    <3>3. n \in 1..Len(StagesOf[p]) /\ StagePhase(StagesOf[p][n]) = "Failed"
      BY <1>1, <3>2
    <3>4. \A j \in 1..(n - 1) : StagePhase(StagesOf[p][j]) # "Failed"
      BY <1>1, <3>2, <3>3
    <3>5. StagesOf[p][n] \in Walked(p)
      BY <3>3, <3>4 DEF Walked, UpTo
    <3> QED
      BY <1>3, <3>3, <3>5
  <2> QED
    BY <1>1, <2>1 DEF Walked, UpTo, StageSeq
<1> QED
  BY <1>2, <1>3

LEMMA WalkedIsStage ==
    WalkedStages \subseteq Stages
<1>1. DOMAIN Plans = 1..Len(Plans)
  BY ConstantsAssumption
<1>2. Visited \subseteq PlanNames
  BY <1>1 DEF Visited, UpTo, PlanNames
<1> QED
  BY <1>2, WalkedStage DEF WalkedStages, Stages

\* The rows of a stage are finitely many.
LEMMA RowsFinite ==
    ASSUME NEW s \in Stages
    PROVE  IsFiniteSet(Rows(s)) /\ IsFiniteSet(Planned(s)) /\ Planned(s) \subseteq Clusters
<1>1. IsFiniteSet(BOOLEAN)
  <2>1. BOOLEAN = {TRUE} \cup {FALSE}
    OBVIOUS
  <2>2. IsFiniteSet({TRUE})
    BY FS_Singleton
  <2>3. IsFiniteSet({TRUE} \cup {FALSE})
    BY <2>2, FS_AddElement
  <2> QED
    BY <2>1, <2>3
<1>2. IsFiniteSet(Clusters \X BOOLEAN)
  BY <1>1, FS_Product, ConstantsAssumption
<1> DEFINE f == [k \in Rows(s) |-> <<k.cluster, k.rollback>>]
<1>3. f \in Injection(Rows(s), Clusters \X BOOLEAN)
  <2>1. \A k \in Rows(s) : /\ k \in [stage : Stages, cluster : Clusters, rollback : BOOLEAN]
                           /\ k.stage = s
    BY DEF Rows, Listed, Targets
  <2>2. f \in [Rows(s) -> Clusters \X BOOLEAN]
    BY <2>1
  <2>3. \A j, k \in Rows(s) : f[j] = f[k] => j = k
    <3> SUFFICES ASSUME NEW j \in Rows(s), NEW k \in Rows(s), f[j] = f[k]
                 PROVE  j = k
      OBVIOUS
    <3>1. j.cluster = k.cluster /\ j.rollback = k.rollback /\ j.stage = k.stage
      BY <2>1
    <3> QED
      BY <2>1, <3>1
  <2> QED
    BY <2>2, <2>3, Fun_IsInj
<1>4. IsFiniteSet(Rows(s))
  <2> HIDE DEF f
  <2> QED
    BY <1>2, <1>3, FS_Injection
<1>5. Planned(s) \subseteq Clusters
  BY ConstantsAssumption DEF Planned
<1> QED
  BY <1>4, <1>5, FS_Subset, ConstantsAssumption

-----------------------------------------------------------------------------
(* Type correctness.                                                       *)

\* What a reconcile derives from the lists it has read is of its type.
LEMMA DerivedType ==
    ASSUME TypeOK
    PROVE  /\ NewRun \in Run /\ Idle \in Job /\ Reading \in Job
           /\ Listed \in SUBSET Targets /\ Buffer \in SUBSET Targets
           /\ \A policy : FailedStages(policy) \in SUBSET Stages
           /\ ProgressOf \in [PlanNames -> PlanPhase]
<1>1. NewRun \in Run
  BY DEF NewRun, Run, PlanPhase
<1>2. Idle \in Job
  BY <1>1 DEF Idle, Job
<1>3. Listed \in SUBSET Targets
  BY DEF Listed
<1>4. Reading \in Job
  BY <1>2, <1>3 DEF Reading, Job, TypeOK
<1>5. \A policy : FailedStages(policy) \in SUBSET Stages
  BY WalkedIsStage DEF FailedStages
<1>6. \A s : triggerRollbackTargets(s) \in SUBSET Targets
  <2> SUFFICES ASSUME NEW s, NEW j \in Listed
               PROVE  [j EXCEPT !.rollback = TRUE] \in Targets
    BY DEF triggerRollbackTargets
  <2> QED
    BY <1>3 DEF Targets
<1>7. Buffer \in SUBSET Targets
  BY <1>3, <1>6 DEF Buffer, Bound
<1>8. \A p \in PlanNames : NextPlanPhase(p) \in PlanPhase
  <2> SUFFICES ASSUME NEW p \in PlanNames
               PROVE  NextPlanPhase(p) \in PlanPhase
    OBVIOUS
  <2>1. StagesPhase(p) \in PlanPhase
    BY DEF StagesPhase, PlanPhase
  <2>2. runSeen.plan[p] \in PlanPhase
    BY DEF TypeOK, Run
  <2> QED
    BY <2>1, <2>2 DEF NextPlanPhase, PlanPhase
<1>9. ProgressOf \in [PlanNames -> PlanPhase]
  BY <1>8 DEF ProgressOf, PlanPhase
<1> QED
  BY <1>1, <1>2, <1>3, <1>4, <1>5, <1>7, <1>9

\* The parent's writes and the child's steps keep the children's types.
LEMMA ChildType ==
    ASSUME TypeOK
    PROVE  /\ \A S : \A p \in {"Failed", "Skipped"} : Child!Ask(S, p) => Child!LifeTypeOK'
           /\ \A new, withdrawn : Child!Keep(new, withdrawn) => Child!LifeTypeOK'
           /\ \A k \in Targets : Child!ChildStep(k) => Child!LifeTypeOK'
           /\ UNCHANGED children => Child!LifeTypeOK'
<1> USE DEF TypeOK, Child!LifeTypeOK, Child!Life, Child!Ended
<1>1. ASSUME NEW S, NEW p \in {"Failed", "Skipped"}, Child!Ask(S, p)
      PROVE  Child!LifeTypeOK'
  BY <1>1 DEF Child!Ask
<1>2. ASSUME NEW new, NEW withdrawn, Child!Keep(new, withdrawn)
      PROVE  Child!LifeTypeOK'
  BY <1>2 DEF Child!Keep
<1>3. ASSUME NEW k \in Targets, Child!ChildStep(k)
      PROVE  Child!LifeTypeOK'
  BY <1>3 DEF Child!ChildStep, Child!Start, Child!Finish, Child!GiveUp, Child!Flip
<1>4. ASSUME UNCHANGED children
      PROVE  Child!LifeTypeOK'
  BY <1>4 DEF children
<1> QED
  BY <1>1, <1>2, <1>3, <1>4

\* A fault counts up to the bound.
LEMMA FaultType ==
    ASSUME TypeOK, Fault
    PROVE  faults' \in 0..MaxFaults
  BY ConstantsAssumption DEF TypeOK, Fault

\* A reconcile that begins.
BeginStep == handlePending \/ handleProgressing \/ handleFailed \/ reconcileComplete
             \/ handleTimeout \/ planChanged

LEMMA BeginType ==
    ASSUME TypeOK, BeginStep
    PROVE  TypeOK'
<1> USE DerivedType DEF Dequeue
<1>0. /\ UNCHANGED <<run, runSeen, children, seen, away, absent, soaked, succeeded>>
      /\ queued' = FALSE
      /\ \/ faults' = faults /\ troubled' = troubled
         \/ Fault /\ troubled' = TRUE
  BY DEF BeginStep, handlePending, handleProgressing, handleFailed, reconcileComplete,
         handleTimeout, planChanged, outside, history
<1>1. Child!LifeTypeOK'
  BY <1>0, ChildType
<1>2. faults' \in 0..MaxFaults /\ troubled' \in BOOLEAN
  BY <1>0, FaultType DEF TypeOK
<1>3. job' \in Job
  <2>0. runSeen \in Run /\ Reading \in Job /\ job \in Job
    BY DEF TypeOK
  <2>1. CASE handlePending
    <3>1. [phase |-> "Progressing", plan |-> [p \in PlanNames |-> "Pending"]] \in Run
      BY DEF Run, PlanPhase
    <3> QED
      BY <2>0, <2>1, <3>1 DEF handlePending, Job
  <2>2. CASE handleProgressing
    <3> DEFINE plans == ProgressOf
    <3>1. PICK phase \in {"Progressing", "Failed", "Complete"}, again \in BOOLEAN :
             job' = [Reading EXCEPT !.pc = "skip", !.next = [phase |-> phase, plan |-> plans],
                       !.want = Buffer, !.skip = FailedStages("skip"),
                       !.halt = FailedStages("halt"), !.again = again]
      <4> HIDE DerivedType
      <4> QED
        BY <2>2 DEF handleProgressing, hasActiveRollbackTargets
    <3>2. [phase |-> phase, plan |-> plans] \in Run
      BY DEF Run
    <3> QED
      BY <2>0, <3>1, <3>2 DEF Job
  <2>3. CASE handleFailed
    BY <2>0, <2>3 DEF handleFailed, Job
  <2>4. CASE reconcileComplete
    BY <2>0, <2>4 DEF reconcileComplete
  <2>5. CASE handleTimeout \/ planChanged
    <3>1. [Reading EXCEPT !.pc = "cancelAll", !.next.phase = "Failed"] \in Job
          /\ [Reading EXCEPT !.pc = "patch", !.next.phase = "Failed"] \in Job
      BY <2>0 DEF Job, Run
    <3> QED
      BY <2>5, <3>1 DEF handleTimeout, planChanged
  <2> QED
    BY <2>1, <2>2, <2>3, <2>4, <2>5 DEF BeginStep
<1> QED
  BY <1>0, <1>1, <1>2, <1>3 DEF TypeOK

\* A reconcile that goes on, or is abandoned.
WriteStep == cancelPromotionRunTargets \/ markFailedStageTargetsSkipped
             \/ persistPromotionTargets \/ cancelPendingStageTargets
             \/ patchPromotionRunStatus \/ abandon

LEMMA WriteType ==
    ASSUME TypeOK, WriteStep
    PROVE  TypeOK'
<1>0. /\ job \in Job /\ Idle \in Job
      /\ run \in Run /\ runSeen \in Run /\ job.was \in Run /\ job.next \in Run
      /\ queued \in BOOLEAN /\ job.again \in BOOLEAN
  BY DerivedType DEF TypeOK, Job
<1>1. /\ UNCHANGED <<runSeen, seen, away, absent, soaked, succeeded, troubled>>
      /\ queued' \in BOOLEAN
      /\ faults' = faults \/ Fault
  BY <1>0 DEF WriteStep, cancelPromotionRunTargets, markFailedStageTargetsSkipped,
         persistPromotionTargets, cancelPendingStageTargets, patchPromotionRunStatus, abandon,
         outside, history
<1>2. job' \in Job
  <2>1. [job EXCEPT !.pc = "patch"] \in Job /\ [job EXCEPT !.pc = "persist"] \in Job
        /\ [job EXCEPT !.pc = "halt"] \in Job
    BY <1>0 DEF Job
  <2> QED
    BY <1>0, <2>1 DEF WriteStep, cancelPromotionRunTargets, markFailedStageTargetsSkipped,
         persistPromotionTargets, cancelPendingStageTargets, patchPromotionRunStatus, abandon
<1>3. run' \in Run
  <2>1. Merged \in Run
    BY <1>0 DEF Merged, Run
  <2> QED
    BY <1>0, <2>1 DEF WriteStep, cancelPromotionRunTargets, markFailedStageTargetsSkipped,
         persistPromotionTargets, cancelPendingStageTargets, patchPromotionRunStatus, abandon
<1>4. Child!LifeTypeOK'
  BY ChildType DEF WriteStep, cancelPromotionRunTargets, markFailedStageTargetsSkipped,
         persistPromotionTargets, cancelPendingStageTargets, patchPromotionRunStatus, abandon
<1> QED
  BY <1>1, <1>2, <1>3, <1>4, FaultType DEF TypeOK

\* The children, the caches and the clusters.
LEMMA OutsideType ==
    ASSUME TypeOK,
           \/ \E k \in Targets : childStep(k) \/ soakElapses(k) \/ syncTarget(k)
           \/ syncRun
           \/ \E c \in Clusters : suspendCluster(c)
    PROVE  TypeOK'
<1> USE DEF outside, history
<1>1. ASSUME NEW k \in Targets, childStep(k)
      PROVE  TypeOK'
  BY <1>1, ChildType DEF childStep, TypeOK
<1>2. ASSUME NEW k \in Targets, soakElapses(k)
      PROVE  TypeOK'
  BY <1>2, ChildType DEF soakElapses, TypeOK
<1>3. ASSUME NEW k \in Targets, syncTarget(k)
      PROVE  TypeOK'
  <2>1. [life |-> life[k], cancelled |-> cancelled[k]] \in Copy
    BY DEF TypeOK, Child!LifeTypeOK, Copy
  <2> QED
    BY <1>3, <2>1, ChildType DEF syncTarget, TypeOK
<1>4. CASE syncRun
  BY <1>4, ChildType DEF syncRun, TypeOK
<1>5. ASSUME NEW c \in Clusters, suspendCluster(c)
      PROVE  TypeOK'
  BY <1>5, ChildType, FaultType DEF suspendCluster, TypeOK
<1> QED
  BY <1>1, <1>2, <1>3, <1>4, <1>5

\* Next by the groups of steps above.
LEMMA NextCases ==
    ASSUME Next
    PROVE  \/ BeginStep \/ WriteStep
           \/ \E k \in Targets : childStep(k) \/ soakElapses(k) \/ syncTarget(k)
           \/ syncRun
           \/ \E c \in Clusters : suspendCluster(c)
  BY DEF Next, Reconcile, BeginStep, WriteStep

\* Every variable of the run, its children and its caches keeps its type,
\* whatever plan, policies and faults there are.
THEOREM PromotionRunTypeCorrect == Spec => []TypeOK
<1>1. Init => TypeOK
  <2> SUFFICES ASSUME Init
               PROVE  TypeOK
    OBVIOUS
  <2>1. NewRun \in Run
    BY DEF NewRun, Run, PlanPhase
  <2>2. Idle \in Job
    BY <2>1 DEF Idle, Job
  <2>3. Child!LifeTypeOK
    BY DEF Init, Child!LifeTypeOK, Child!Life, Child!Ended
  <2>4. seen \in [Targets -> Copy]
    <3>1. [life |-> "none", cancelled |-> "no"] \in Copy
      BY DEF Copy, Child!Life
    <3> QED
      BY <3>1 DEF Init
  <2>5. run \in Run /\ runSeen \in Run /\ job \in Job
    BY <2>1, <2>2 DEF Init
  <2>6. queued \in BOOLEAN /\ troubled \in BOOLEAN
    BY DEF Init
  <2>7. away \in SUBSET Clusters /\ absent \in SUBSET Clusters
        /\ soaked \in SUBSET Targets /\ succeeded \in SUBSET Targets
    BY DEF Init
  <2>8. faults \in 0..MaxFaults
    BY ConstantsAssumption DEF Init
  <2> QED
    BY <2>3, <2>4, <2>5, <2>6, <2>7, <2>8 DEF TypeOK
<1>2. TypeOK /\ [Next]_vars => TypeOK'
  <2> SUFFICES ASSUME TypeOK, [Next]_vars
               PROVE  TypeOK'
    OBVIOUS
  <2>1. CASE Next
    BY <2>1, NextCases, BeginType, WriteType, OutsideType
  <2>2. CASE UNCHANGED vars
    <3>1. Child!LifeTypeOK'
      BY <2>2, ChildType DEF vars, children
    <3> QED
      BY <2>2, <3>1 DEF vars, TypeOK, outside, history
  <2> QED
    BY <2>1, <2>2
<1> QED
  BY <1>1, <1>2, PTL DEF Spec

-----------------------------------------------------------------------------
(* What the steps of a reconcile do, in the terms of the proofs below.     *)

\* The plans of a pass that reaches a failed one, and of one that finds all
\* complete.
Fails == \E p \in Visited : Open(p) /\ ProgressOf[p] = "Failed"
Completes == \A p \in PlanNames : ProgressOf[p] = "Complete"

\* A reconcile that begins writes nothing yet; what it is going to write comes
\* from the copies.
LEMMA BeginEffect ==
    ASSUME TypeOK, BeginStep
    PROVE  /\ UNCHANGED <<run, runSeen, life, cancelled, asked, seen, away, absent, soaked, succeeded>>
           /\ troubled => troubled'
           /\ \/ job' = job
              \/ /\ job'.was = runSeen /\ job'.want = Listed /\ job'.skip = {}
                 /\ \/ job'.next.plan = runSeen.plan
                    \/ job'.next.plan = [p \in PlanNames |-> "Pending"]
                 /\ \/ job'.next.phase \in {runSeen.phase, "Progressing"}
                    \/ job'.next.phase = "Failed" /\ troubled'
              \/ /\ job'.was = runSeen /\ job'.want = Buffer /\ job'.skip = FailedStages("skip")
                 /\ job'.next.plan = ProgressOf
                 /\ \/ job'.next.phase = "Failed" /\ Fails
                    \/ job'.next.phase = "Complete" /\ Completes
                    \/ job'.next.phase = "Progressing"
<1> USE DEF outside, history, children
<1>0. /\ Reading \in Job /\ Reading.was = runSeen /\ Reading.next = runSeen
      /\ Reading.want = Listed /\ Reading.skip = {} /\ runSeen \in Run
  BY DerivedType DEF Reading, Idle, TypeOK
<1>1. CASE handlePending
  BY <1>0, <1>1 DEF handlePending, Job
<1>2. CASE handleProgressing
  <2> DEFINE phase == IF Fails THEN "Failed" ELSE IF Completes THEN "Complete" ELSE "Progressing"
  <2>1. PICK again : job' = [Reading EXCEPT !.pc = "skip",
                               !.next = [phase |-> phase, plan |-> ProgressOf],
                               !.want = Buffer, !.skip = FailedStages("skip"),
                               !.halt = FailedStages("halt"), !.again = again]
    BY <1>2 DEF handleProgressing, Fails, Completes
  <2>2. /\ job'.was = runSeen /\ job'.want = Buffer /\ job'.skip = FailedStages("skip")
        /\ job'.next = [phase |-> phase, plan |-> ProgressOf]
    BY <1>0, <2>1 DEF Job
  <2> QED
    BY <1>2, <2>2 DEF handleProgressing
<1>3. CASE handleFailed
  BY <1>0, <1>3 DEF handleFailed, Job
<1>4. CASE reconcileComplete
  BY <1>4 DEF reconcileComplete
<1>5. CASE handleTimeout \/ planChanged
  <2>1. PICK pc : job' = [Reading EXCEPT !.pc = pc, !.next.phase = "Failed"]
    BY <1>5 DEF handleTimeout, planChanged
  <2>2. /\ job'.was = runSeen /\ job'.want = Listed /\ job'.skip = {}
        /\ job'.next = [runSeen EXCEPT !.phase = "Failed"]
    BY <1>0, <2>1 DEF Job
  <2>3. job'.next.plan = runSeen.plan /\ job'.next.phase = "Failed"
    BY <1>0, <2>2 DEF Run
  <2>4. UNCHANGED <<run, runSeen, children, seen, away, absent, soaked, succeeded>> /\ troubled'
    BY <1>5 DEF handleTimeout, planChanged
  <2> QED
    BY <2>2, <2>3, <2>4
<1> QED
  BY <1>1, <1>2, <1>3, <1>4, <1>5 DEF BeginStep

\* The parent's writes to its children.
ParentWrites ==
    \/ UNCHANGED children
    \/ \E S \in SUBSET Targets : Child!Ask(S, "Failed")
    \/ \E S \in SUBSET {k \in Targets : k.stage \in job.skip} : Child!Ask(S, "Skipped")
    \/ \E new \in SUBSET (job.want \ Listed) : \E withdrawn : Child!Keep(new, withdrawn)

\* A reconcile that goes on writes what it has in hand.
LEMMA WriteEffect ==
    ASSUME TypeOK, WriteStep
    PROVE  /\ UNCHANGED <<runSeen, seen, away, absent, soaked, succeeded, troubled>>
           /\ run' = run \/ run' = Merged
           /\ \/ job' = Idle
              \/ /\ job'.was = job.was /\ job'.next = job.next
                 /\ job'.want = job.want /\ job'.skip = job.skip
           /\ ParentWrites
<1> USE DEF outside, history
<1>0. job \in Job
  BY DEF TypeOK
<1>1. CASE cancelPromotionRunTargets
  BY <1>0, <1>1 DEF cancelPromotionRunTargets, ParentWrites, Cancellable, Listed, Job
<1>2. CASE markFailedStageTargetsSkipped
  <2> DEFINE S == {k \in Listed : /\ k.stage \in job.skip /\ seen[k].life = "Failed"
                                  /\ seen[k].cancelled # "Skipped"}
  <2>1. S \in SUBSET {k \in Targets : k.stage \in job.skip} /\ Child!Ask(S, "Skipped")
    BY <1>2 DEF markFailedStageTargetsSkipped, Listed
  <2>2. ParentWrites
    <3> HIDE DEF S
    <3> QED
      BY <2>1 DEF ParentWrites
  <2> QED
    BY <1>0, <1>2, <2>2 DEF markFailedStageTargetsSkipped, Job
<1>3. CASE persistPromotionTargets
  <2>1. ParentWrites
    BY <1>3 DEF persistPromotionTargets, ParentWrites
  <2> QED
    BY <1>0, <1>3, <2>1 DEF persistPromotionTargets, Job
<1>4. CASE cancelPendingStageTargets
  BY <1>0, <1>4 DEF cancelPendingStageTargets, ParentWrites, Cancellable, Listed, Job
<1>5. CASE patchPromotionRunStatus
  BY <1>0, <1>5 DEF patchPromotionRunStatus, ParentWrites
<1>6. CASE abandon
  <2>1. ParentWrites
    <3>1. CASE \E S \in SUBSET (job.want \ Listed) : Child!Keep(S, {})
      BY <3>1 DEF ParentWrites
    <3>2. CASE \E S \in SUBSET Cancellable({k \in Targets : job.pc = "halt" => k.stage \in job.halt}) :
                 Child!Ask(S, "Failed")
      BY <3>2 DEF ParentWrites, Cancellable, Listed
    <3> QED
      BY <1>6, <3>1, <3>2 DEF abandon, ParentWrites
  <2> QED
    BY <1>6, <2>1 DEF abandon
<1> QED
  BY <1>1, <1>2, <1>3, <1>4, <1>5, <1>6 DEF WriteStep

-----------------------------------------------------------------------------
(* The cached children tell the truth about what cannot be undone.         *)

\* What the cache shows of a child has happened: it exists, it has ended, it
\* has come to a good end; and where failures are not to be skipped, a child
\* that has failed remains so, as it is never asked for anything else.
CacheInv ==
    /\ \A k \in Targets :
          /\ seen[k].life # "none" => life[k] # "none"
          /\ seen[k].life \in Child!Ended => life[k] \in Child!Ended
          /\ seen[k].life \in {"Converged", "Skipped"} => k \in succeeded
          /\ life[k] \in {"Converged", "Skipped"} => k \in succeeded
          /\ OnFailure[k.stage] # "skip" => asked[k] \subseteq {"Failed"}
          /\ OnFailure[k.stage] # "skip" /\ seen[k].life = "Failed" => life[k] = "Failed"
    /\ \A s \in job.skip : OnFailure[s] = "skip"

\* What no step undoes.
Lasting ==
    /\ absent \subseteq absent' /\ succeeded \subseteq succeeded'
    /\ troubled => troubled'
    /\ \A k \in Targets :
          /\ life[k] # "none" => life'[k] # "none"
          /\ life[k] \in Child!Ended => life'[k] \in Child!Ended
          /\ OnFailure[k.stage] # "skip" /\ life[k] = "Failed" => life'[k] = "Failed"

LEMMA CacheStep ==
    ASSUME TypeOK, CacheInv, [Next]_vars
    PROVE  CacheInv' /\ Lasting
<1> USE DEF Child!Ended
<1>0. life \in [Targets -> Child!Life] /\ asked \in [Targets -> SUBSET {"Failed", "Skipped"}]
      /\ seen \in [Targets -> Copy]
  BY DEF TypeOK, Child!LifeTypeOK
<1>1. CASE BeginStep
  <2>1. job' = job \/ job'.skip = {} \/ job'.skip = FailedStages("skip")
    BY <1>1, BeginEffect
  <2>2. \A s \in job'.skip : OnFailure[s] = "skip"
    BY <2>1 DEF CacheInv, FailedStages
  <2>3. UNCHANGED <<life, asked, seen, absent, succeeded>> /\ (troubled => troubled')
    BY <1>1, BeginEffect
  <2> QED
    BY <2>2, <2>3 DEF CacheInv, Lasting
<1>2. CASE WriteStep
  <2>1. /\ UNCHANGED <<seen, absent, succeeded, troubled>> /\ ParentWrites
        /\ job' = Idle \/ job'.skip = job.skip
    BY <1>2, WriteEffect
  <2>2. \A s \in job'.skip : OnFailure[s] = "skip"
    BY <2>1 DEF CacheInv, Idle
  <2>3. ASSUME NEW k \in Targets
        PROVE  /\ life'[k] = life[k] \/ (life[k] = "none" /\ life'[k] = "waiting")
               /\ OnFailure[k.stage] # "skip" => asked'[k] \subseteq {"Failed"}
    <3>1. OnFailure[k.stage] # "skip" => asked[k] \subseteq {"Failed"} /\ k.stage \notin job.skip
      BY DEF CacheInv
    <3>2. CASE UNCHANGED children
      BY <3>1, <3>2 DEF children
    <3>3. CASE \E S \in SUBSET Targets : Child!Ask(S, "Failed")
      BY <1>0, <3>1, <3>3 DEF Child!Ask
    <3>4. CASE \E S \in SUBSET {j \in Targets : j.stage \in job.skip} : Child!Ask(S, "Skipped")
      BY <1>0, <3>1, <3>4 DEF Child!Ask
    <3>5. CASE \E new \in SUBSET (job.want \ Listed) : \E withdrawn : Child!Keep(new, withdrawn)
      BY <1>0, <3>1, <3>5 DEF Child!Keep
    <3> QED
      BY <2>1, <3>2, <3>3, <3>4, <3>5 DEF ParentWrites
  <2> QED
    BY <1>0, <2>1, <2>2, <2>3 DEF CacheInv, Lasting
<1>3. ASSUME NEW j \in Targets, childStep(j)
      PROVE  CacheInv' /\ Lasting
  <2>1. /\ UNCHANGED <<seen, job, absent, troubled, asked>>
        /\ succeeded' = IF life'[j] \in {"Converged", "Skipped"} THEN succeeded \cup {j} ELSE succeeded
    BY <1>3 DEF childStep, Child!ChildStep, Child!Start, Child!Finish, Child!GiveUp, Child!Flip
  <2>2. \A k \in Targets \ {j} : life'[k] = life[k]
    BY <1>0, <1>3 DEF childStep, Child!ChildStep, Child!Start, Child!Finish, Child!GiveUp, Child!Flip
  <2>3. /\ life[j] # "none" /\ life'[j] # "none"
        /\ life[j] \in Child!Ended => life'[j] \in asked[j]
        /\ life'[j] \in {"applying", "Converged", "Failed", "Skipped"}
    BY <1>0, <1>3 DEF childStep, Child!ChildStep, Child!Start, Child!Finish, Child!GiveUp, Child!Flip
  <2>4. ASSUME OnFailure[j.stage] # "skip", life[j] = "Failed"
        PROVE  life'[j] = "Failed"
    BY <1>0, <2>3, <2>4 DEF CacheInv
  <2>5. life[j] \in Child!Ended => life'[j] \in Child!Ended
    BY <1>0, <2>3
  <2>6. Lasting
    BY <2>1, <2>2, <2>3, <2>4, <2>5 DEF Lasting
  <2> QED
    BY <2>1, <2>2, <2>3, <2>4, <2>5, <2>6 DEF CacheInv
<1>4. ASSUME NEW j \in Targets, syncTarget(j)
      PROVE  CacheInv' /\ Lasting
  <2>1. UNCHANGED <<life, asked, job, absent, succeeded, troubled>>
    BY <1>4 DEF syncTarget, children, outside, history
  <2>2. \A k \in Targets : seen'[k].life = IF k = j THEN life[j] ELSE seen[k].life
    BY <1>0, <1>4 DEF syncTarget
  <2> QED
    BY <2>1, <2>2 DEF CacheInv, Lasting
<1>5. CASE syncRun \/ (\E k \in Targets : soakElapses(k)) \/ (\E c \in Clusters : suspendCluster(c))
      \/ UNCHANGED vars
  <2>1. UNCHANGED <<life, asked, seen, job, succeeded, troubled>> /\ absent \subseteq absent'
    BY <1>5 DEF syncRun, soakElapses, suspendCluster, vars, children, outside, history
  <2> QED
    BY <2>1 DEF CacheInv, Lasting
<1> QED
  BY NextCases, <1>1, <1>2, <1>3, <1>4, <1>5

-----------------------------------------------------------------------------
(* A run fails, and rolls back, for a reason.                              *)

\* The copies of the run's status.
Statuses == {run, runSeen, job.was, job.next}

Reason == troubled \/ \E k \in Targets : life[k] = "Failed" /\ OnFailure[k.stage] # "skip"

RolledBack(k) ==
    /\ [k EXCEPT !.rollback = FALSE] \in succeeded
    /\ seen[[k EXCEPT !.rollback = FALSE]].life # "none"
    /\ \E j \in Targets : /\ life[j] = "Failed" /\ OnFailure[j.stage] = "rollback"
                         /\ k.stage \in EarlierStages(j.stage)

\* Whichever copy of the status says Failed, there is a reason that lasts; and
\* a rollback target in the cluster or in hand belongs to a target that has
\* come to a good end, as the cache shows, and that a failed stage, or one
\* before it in its plan, has.
EndInv ==
    /\ \A r \in Statuses : r.phase = "Failed" => Reason
    /\ \A k \in Targets : k.rollback /\ (life[k] # "none" \/ k \in job.want) => RolledBack(k)

\* A stage that is Failed, or skips failures, has a failed target.
LEMMA FailedStage ==
    ASSUME CacheInv, NEW s \in Stages
    PROVE  /\ StagePhase(s) = "Failed" =>
                 \E k \in Targets : life[k] = "Failed" /\ OnFailure[k.stage] # "skip"
           /\ s \in FailedStages("rollback") =>
                 \E k \in Targets : /\ life[k] = "Failed" /\ OnFailure[k.stage] = "rollback"
                                  /\ k.stage = s
<1> DEFINE failed == {k \in Rows(s) : seen[k].life = "Failed"}
<1>1. ASSUME StagePhase(s) \in {"Failed", "Skipping"}
      PROVE  failed # {} /\ (StagePhase(s) = "Failed" => OnFailure[s] # "skip")
  <2> HIDE DEF Rows, Eligible, Planned
  <2>1. ~(~Eligible(s) \/ Planned(s) = {})
    BY <1>1 DEF StagePhase
  <2>2. failed # {}
    BY <1>1, <2>1 DEF StagePhase
  <2>3. StagePhase(s) = "Failed" => OnFailure[s] # "skip"
    BY <2>1, <2>2 DEF StagePhase
  <2> QED
    BY <2>2, <2>3
<1>2. \A k \in failed : k \in Targets /\ k.stage = s /\ seen[k].life = "Failed"
  BY DEF Rows, Listed
<1>3. \A k \in failed : OnFailure[s] # "skip" => life[k] = "Failed"
  BY <1>2 DEF CacheInv
<1> QED
  BY <1>1, <1>2, <1>3 DEF FailedStages

\* A pass that reaches a failed plan has seen a failed target.
LEMMA FailsForReason ==
    ASSUME TypeOK, CacheInv, Fails
    PROVE  \E k \in Targets : life[k] = "Failed" /\ OnFailure[k.stage] # "skip"
<1>1. DOMAIN Plans = 1..Len(Plans)
  BY ConstantsAssumption
<1>2. PICK p \in PlanNames : Open(p) /\ NextPlanPhase(p) = "Failed"
  BY <1>1 DEF Fails, Visited, UpTo, PlanNames, ProgressOf
<1>3. "Failed" \in {StagePhase(s) : s \in Walked(p)}
  BY <1>2 DEF NextPlanPhase, StagesPhase
<1>4. PICK s \in Walked(p) : StagePhase(s) = "Failed"
  BY <1>3
<1>5. s \in Stages
  BY <1>4, WalkedStage DEF Stages
<1> QED
  BY <1>4, <1>5, FailedStage

\* Targets in hand are listed, bound now, or roll back what is delivered.
LEMMA BufferRollback ==
    ASSUME TypeOK, CacheInv, EndInv, NEW k \in Buffer, k.rollback
    PROVE  RolledBack(k)
<1>0. life \in [Targets -> Child!Life] /\ seen \in [Targets -> Copy]
  BY DEF TypeOK, Child!LifeTypeOK
<1>1. CASE k \in Listed
  BY <1>1 DEF Listed, CacheInv, EndInv
<1>2. CASE k \in UNION {triggerRollbackTargets(s) : s \in FailedStages("rollback")}
  <2>1. PICK s \in FailedStages("rollback") : k \in triggerRollbackTargets(s)
    BY <1>2
  <2>2. PICK j \in Listed : seen[j].life = "Converged" /\ k = [j EXCEPT !.rollback = TRUE]
    BY <2>1 DEF triggerRollbackTargets
  <2>3. j \in Targets /\ seen[j].life # "none"
    BY <2>2 DEF Listed
  <2>4. CASE j.rollback
    <3>1. k = j
      BY <2>2, <2>3, <2>4 DEF Targets
    <3> QED
      BY <1>1, <2>2, <3>1
  <2>5. CASE ~j.rollback
    <3>1. [k EXCEPT !.rollback = FALSE] = j
      BY <2>2, <2>3, <2>5 DEF Targets
    <3>2. j \in succeeded
      BY <2>2, <2>3 DEF CacheInv
    <3>3. s \in Stages
      BY WalkedIsStage DEF FailedStages
    <3>4. k.stage \in EarlierStages(s)
      <4>1. \E i \in Targets : /\ i.stage \in EarlierStages(s)
                              /\ k = [i EXCEPT !.rollback = TRUE]
        BY <2>1 DEF triggerRollbackTargets, Listed
      <4>2. PICK i \in Targets : i.stage \in EarlierStages(s) /\ k = [i EXCEPT !.rollback = TRUE]
        BY <4>1
      <4>3. k.stage = i.stage
        BY <4>2 DEF Targets
      <4> QED
        BY <4>2, <4>3
    <3>5. \E i \in Targets : /\ life[i] = "Failed" /\ OnFailure[i.stage] = "rollback"
                            /\ i.stage = s
      BY <2>1, <3>3, FailedStage
    <3> QED
      BY <2>3, <3>1, <3>2, <3>4, <3>5 DEF RolledBack
  <2> QED
    BY <2>3, <2>4, <2>5 DEF Targets
<1> QED
  BY <1>1, <1>2 DEF Buffer, Bound

LEMMA EndStep ==
    ASSUME TypeOK, CacheInv, EndInv, [Next]_vars
    PROVE  EndInv'
<1>0. /\ Lasting /\ CacheInv'
      /\ life \in [Targets -> Child!Life] /\ seen \in [Targets -> Copy] /\ job \in Job
      /\ run \in Run /\ runSeen \in Run
  BY CacheStep DEF TypeOK, Child!LifeTypeOK
<1>1. Reason => Reason'
  BY <1>0 DEF Lasting, Reason
<1>2. ASSUME NEW k \in Targets, RolledBack(k), seen[[k EXCEPT !.rollback = FALSE]].life # "none" =>
                                               seen'[[k EXCEPT !.rollback = FALSE]].life # "none"
      PROVE  RolledBack(k)'
  BY <1>0, <1>2 DEF Lasting, RolledBack
<1>3. ASSUME NEW k \in Targets
      PROVE  seen[k].life # "none" => seen'[k].life # "none"
  <2>1. CASE BeginStep
    BY <2>1, BeginEffect
  <2>2. CASE WriteStep
    BY <2>2, WriteEffect
  <2>3. ASSUME NEW j \in Targets, syncTarget(j)
        PROVE  seen[k].life # "none" => seen'[k].life # "none"
    BY <1>0, <2>3 DEF syncTarget, CacheInv
  <2>4. CASE UNCHANGED seen
    BY <2>4
  <2>5. \A j \in Targets : childStep(j) \/ soakElapses(j) => UNCHANGED seen
    BY DEF childStep, soakElapses
  <2>6. (syncRun \/ (\E c \in Clusters : suspendCluster(c)) \/ UNCHANGED vars) => UNCHANGED seen
    BY DEF syncRun, suspendCluster, vars
  <2> QED
    BY NextCases, <2>1, <2>2, <2>3, <2>4, <2>5, <2>6
<1>4. \A k \in Targets : RolledBack(k) => RolledBack(k)'
  <2> SUFFICES ASSUME NEW k \in Targets, RolledBack(k)
               PROVE  RolledBack(k)'
    OBVIOUS
  <2>1. [k EXCEPT !.rollback = FALSE] \in Targets
    BY DEF Targets
  <2> QED
    BY <1>2, <1>3, <2>1
<1>5. ASSUME \A r \in Statuses' : r.phase = "Failed" => r \in Statuses \/ Reason',
             \A k \in Targets : k.rollback /\ (life'[k] # "none" \/ k \in job'.want) =>
                 life[k] # "none" \/ k \in job.want \/ RolledBack(k)
      PROVE  EndInv'
  BY <1>1, <1>4, <1>5 DEF EndInv
<1>6. CASE BeginStep
  <2>1. ASSUME NEW r \in Statuses', r.phase = "Failed"
        PROVE  \/ r \in Statuses \/ Reason'
               \/ \E q \in Statuses : q.phase = "Failed"
    <3>1. CASE r \in {run', runSeen', job'.was}
      BY <1>6, <3>1, BeginEffect DEF Statuses
    <3>2. CASE r = job'.next
      <4>1. Fails => Reason
        BY <1>0, FailsForReason DEF Reason
      <4>2. troubled' => Reason'
        BY DEF Reason
      <4> QED
        BY <1>1, <1>6, <2>1, <3>2, <4>1, <4>2, BeginEffect DEF Statuses
    <3> QED
      BY <2>1, <3>1, <3>2 DEF Statuses
  <2>2. ASSUME NEW k \in Targets, k.rollback, life'[k] # "none" \/ k \in job'.want
        PROVE  life[k] # "none" \/ k \in job.want \/ RolledBack(k)
    <3>1. k \in Listed => life[k] # "none"
      BY DEF Listed, CacheInv
    <3>2. k \in Buffer => RolledBack(k)
      BY <2>2, BufferRollback
    <3> QED
      BY <1>6, <2>2, <3>1, <3>2, BeginEffect
  <2> QED
    BY <1>1, <1>4, <2>1, <2>2 DEF EndInv
<1>7. CASE WriteStep
  <2>1. ASSUME NEW r \in Statuses', r.phase = "Failed"
        PROVE  \E q \in Statuses : q.phase = "Failed"
    <3>1. CASE r = run'
      BY <1>7, <2>1, <3>1, WriteEffect DEF Statuses, Merged
    <3>2. CASE r = runSeen'
      BY <1>7, <2>1, <3>2, WriteEffect DEF Statuses
    <3>3. CASE r \in {job'.was, job'.next}
      <4>1. CASE job' = Idle
        <5>1. job'.was.phase = "" /\ job'.next.phase = ""
          BY <4>1 DEF Idle, NewRun
        <5> QED
          BY <2>1, <3>3, <5>1
      <4>2. CASE job'.was = job.was /\ job'.next = job.next
        BY <2>1, <3>3, <4>2 DEF Statuses
      <4> QED
        BY <1>7, <4>1, <4>2, WriteEffect
    <3> QED
      BY <2>1, <3>1, <3>2, <3>3 DEF Statuses
  <2>2. ASSUME NEW k \in Targets, life'[k] # "none" \/ k \in job'.want
        PROVE  life[k] # "none" \/ k \in job.want
    <3>1. job'.want \subseteq job.want
      BY <1>7, WriteEffect DEF Idle
    <3>2. life'[k] # "none" => life[k] # "none" \/ k \in job.want
      BY <1>0, <1>7, WriteEffect DEF ParentWrites, children, Child!Ask, Child!Keep
    <3> QED
      BY <2>2, <3>1, <3>2
  <2> QED
    BY <1>1, <1>4, <2>1, <2>2 DEF EndInv
<1>8. ASSUME UNCHANGED job, \A k \in Targets : life'[k] # "none" => life[k] # "none",
             run' = run, runSeen' = runSeen \/ runSeen' = run
      PROVE  EndInv'
  <2>1. Statuses' \subseteq Statuses
    BY <1>8 DEF Statuses
  <2> QED
    BY <1>5, <1>8, <2>1
<1>9. ASSUME NEW j \in Targets, childStep(j)
      PROVE  EndInv'
  <2>1. UNCHANGED <<job, run, runSeen>>
    BY <1>9 DEF childStep
  <2>2. \A k \in Targets : life'[k] # "none" => life[k] # "none"
    BY <1>0, <1>9 DEF childStep, Child!ChildStep, Child!Start, Child!Finish, Child!GiveUp, Child!Flip
  <2> QED
    BY <1>8, <2>1, <2>2
<1>10. CASE \/ \E k \in Targets : soakElapses(k) \/ syncTarget(k)
            \/ syncRun
            \/ \E c \in Clusters : suspendCluster(c)
            \/ UNCHANGED vars
  <2>1. /\ UNCHANGED <<job, run, life>>
        /\ runSeen' = runSeen \/ runSeen' = run
    BY <1>10 DEF soakElapses, syncTarget, syncRun, suspendCluster, vars, children, outside, history
  <2> QED
    BY <1>8, <2>1
<1> QED
  BY NextCases, <1>6, <1>7, <1>9, <1>10

LEMMA EndInvariant == Spec => [](TypeOK /\ CacheInv /\ EndInv)
<1>1. Init => CacheInv /\ EndInv
  <2> SUFFICES ASSUME Init
               PROVE  CacheInv /\ EndInv
    OBVIOUS
  <2>1. job.skip = {} /\ job.want = {} /\ \A r \in Statuses : r.phase = ""
    <3>1. run.phase = "" /\ runSeen.phase = "" /\ job = Idle
      BY DEF Init, NewRun
    <3>2. job.skip = {} /\ job.want = {} /\ job.was.phase = "" /\ job.next.phase = ""
      BY <3>1 DEF Idle, NewRun
    <3> QED
      BY <3>1, <3>2 DEF Statuses
  <2>2. \A k \in Targets : life[k] = "none" /\ seen[k].life = "none" /\ asked[k] = {}
    BY DEF Init
  <2> QED
    BY <2>1, <2>2 DEF CacheInv, EndInv, Child!Ended
<1>2. TypeOK /\ CacheInv /\ EndInv /\ [Next]_vars => CacheInv' /\ EndInv'
  BY CacheStep, EndStep
<1> QED
  BY <1>1, <1>2, PromotionRunTypeCorrect, PTL DEF Spec

\* A run fails only for a time-out, a plan that is gone or has changed, or a
\* failed target whose stage does not skip failures; and only what has been
\* delivered is rolled back, for a failed target of a stage with that policy:
\* whatever reconciles derive from stale lists and however often they are cut
\* off between their writes.
THEOREM FailureAlwaysForReason == Spec => [](FailedForReason /\ RollbackOfDelivered)
<1>1. TypeOK /\ EndInv => FailedForReason /\ RollbackOfDelivered
  BY DEF EndInv, Statuses, Reason, RolledBack, FailedForReason, RollbackOfDelivered
<1> QED
  BY <1>1, EndInvariant, PTL

-----------------------------------------------------------------------------
(* Stages run in order, and a run is Complete when all of them are done.   *)

\* A stage that has a rollback target has one cluster.  The row of a rollback
\* target is counted with those of its stage, so where a stage has several
\* clusters it may count as complete, or a dependency as met, with one of the
\* stage's own targets still to come.
RollbacksStandAlone ==
    \A k \in Targets : k.rollback /\ life[k] # "none" => \A c \in Selected[k.stage] : c = k.cluster

\* What a stage waits for.
Ready(s) ==
    /\ \A d \in StageDeps[s] :
          IF d.strategy = "all" THEN Done(d.stage)
          ELSE \/ Selected[d.stage] \subseteq absent
               \/ \E c \in Selected[d.stage] : Main(d.stage, c) \in succeeded
    /\ \A p \in PlanNames : s \in StageSeq(p) =>
          \A q \in PlanDeps[p] : \A r \in StageSeq(q) : Done(r)

PhaseEarned(phase) == phase = "Complete" => \A s \in Stages : Done(s)

PlansEarned(plan) ==
    \A p \in PlanNames : plan[p] = "Complete" => \A s \in StageSeq(p) : Done(s)

\* Whichever copy says of a plan or of the run that it is Complete, its stages
\* are done, and so is what a stage waits for that has a target or will get one
\* from the reconcile in progress.
OrderInv ==
    /\ away \subseteq absent
    /\ RollbacksStandAlone =>
         /\ \A r \in Statuses : PhaseEarned(r.phase) /\ PlansEarned(r.plan)
         /\ \A s \in Stages : \A c \in Selected[s] :
               life[Main(s, c)] # "none" \/ Main(s, c) \in job.want => Ready(s)

\* The rows of a stage are targets of its own, or the stage has one cluster;
\* and one that has come to a good end shows that its cluster has.
LEMMA MainRows ==
    ASSUME TypeOK, CacheInv, EndInv, RollbacksStandAlone, NEW s \in Stages, NEW k \in Rows(s)
    PROVE  /\ k \in Targets /\ k.cluster \in Planned(s)
           /\ k = Main(s, k.cluster) \/ \A c \in Selected[s] : c = k.cluster
           /\ dependencyTargetSucceeded(k) => Main(s, k.cluster) \in succeeded
<1>1. /\ k \in Targets /\ seen[k].life # "none" /\ k.stage = s /\ k.cluster \in Planned(s)
      /\ life[k] # "none"
  BY DEF Rows, Listed, CacheInv
<1>2. CASE ~k.rollback
  <2>1. k = Main(s, k.cluster)
    BY <1>1, <1>2 DEF Main, Targets
  <2> QED
    BY <1>1, <2>1 DEF CacheInv, dependencyTargetSucceeded
<1>3. CASE k.rollback
  <2>1. [k EXCEPT !.rollback = FALSE] = Main(s, k.cluster)
    <3>1. PICK j \in Targets : j = [k EXCEPT !.rollback = FALSE]
      BY <1>1 DEF Targets
    <3>2. j.stage = s /\ j.cluster = k.cluster /\ j.rollback = FALSE
      BY <1>1, <3>1 DEF Targets
    <3>3. j = Main(s, k.cluster)
      BY <3>2 DEF Targets, Main
    <3> QED
      BY <3>1, <3>3
  <2>2. Main(s, k.cluster) \in succeeded
    BY <1>1, <1>3, <2>1 DEF EndInv, RolledBack
  <2> QED
    BY <1>1, <1>3, <2>2 DEF RollbacksStandAlone
<1> QED
  BY <1>1, <1>2, <1>3 DEF Targets

\* As many good ends as planned clusters: every cluster has come to its own.
LEMMA CountedDone ==
    ASSUME TypeOK, CacheInv, EndInv, RollbacksStandAlone, away \subseteq absent, NEW s \in Stages,
           Cardinality({k \in Rows(s) : dependencyTargetSucceeded(k)}) >= Cardinality(Planned(s))
    PROVE  Done(s)
<1> DEFINE ok == {k \in Rows(s) : dependencyTargetSucceeded(k)}
<1> SUFFICES ASSUME NEW c \in Selected[s] \ absent, Main(s, c) \notin succeeded
             PROVE  FALSE
  BY DEF Done
<1>1. c \in Planned(s) /\ c \in Selected[s]
  BY DEF Planned
<1>2. \A k \in ok : k.cluster \in Planned(s) \ {c} /\ k = Main(s, k.cluster)
  <2> SUFFICES ASSUME NEW k \in ok
               PROVE  k.cluster \in Planned(s) \ {c} /\ k = Main(s, k.cluster)
    OBVIOUS
  <2>1. /\ k.cluster \in Planned(s) /\ Main(s, k.cluster) \in succeeded
        /\ k = Main(s, k.cluster) \/ \A d \in Selected[s] : d = k.cluster
    BY MainRows
  <2>2. k.cluster # c
    BY <2>1
  <2> QED
    BY <1>1, <2>1, <2>2
<1> DEFINE f == [k \in ok |-> k.cluster]
<1>3. f \in Injection(ok, Planned(s) \ {c})
  <2>1. f \in [ok -> Planned(s) \ {c}]
    BY <1>2
  <2>2. \A j, k \in ok : f[j] = f[k] => j = k
    BY <1>2
  <2> QED
    <3> HIDE DEF f, ok
    <3> QED
      BY <2>1, <2>2, Fun_IsInj
<1>4. /\ IsFiniteSet(Planned(s)) /\ Cardinality(Planned(s)) \in Nat
      /\ IsFiniteSet(Planned(s) \ {c})
      /\ Cardinality(Planned(s) \ {c}) = Cardinality(Planned(s)) - 1
  BY <1>1, RowsFinite, FS_CardinalityType, FS_RemoveElement
<1>5. IsFiniteSet(ok) /\ Cardinality(ok) <= Cardinality(Planned(s) \ {c})
  <2> HIDE DEF f, ok
  <2> QED
    BY <1>3, <1>4, FS_Injection
<1>6. Cardinality(ok) \in Nat
  BY <1>5, FS_CardinalityType
<1>7. Cardinality(ok) >= Cardinality(Planned(s))
  OBVIOUS
<1> QED
  <2> HIDE DEF ok
  <2> QED
    BY <1>4, <1>5, <1>6, <1>7

LEMMA CompleteStage ==
    ASSUME TypeOK, CacheInv, EndInv, RollbacksStandAlone, away \subseteq absent, NEW s \in Stages,
           StagePhase(s) = "Complete"
    PROVE  Done(s)
<1>1. CASE Planned(s) = {}
  BY <1>1 DEF Planned, Done
<1>2. CASE Planned(s) # {}
  <2>1. Cardinality({k \in Rows(s) : dependencyTargetSucceeded(k)}) = Cardinality(Planned(s))
    <3> HIDE DEF Rows, Eligible, Planned, dependencyTargetSucceeded
    <3> QED
      BY <1>2 DEF StagePhase
  <2>2. Cardinality(Planned(s)) \in Nat
    BY RowsFinite, FS_CardinalityType
  <2> QED
    BY <2>1, <2>2, CountedDone
<1> QED
  BY <1>1, <1>2

LEMMA MetDependency ==
    ASSUME TypeOK, CacheInv, EndInv, RollbacksStandAlone, away \subseteq absent,
           NEW s \in Stages, NEW d \in StageDeps[s], stageDependencySatisfied(d)
    PROVE  IF d.strategy = "all" THEN Done(d.stage)
           ELSE \/ Selected[d.stage] \subseteq absent
                \/ \E c \in Selected[d.stage] : Main(d.stage, c) \in succeeded
<1>1. d.stage \in Stages /\ d.strategy \in {"all", "any"}
  BY ConstantsAssumption
<1> DEFINE ok == {k \in Rows(d.stage) : dependencyTargetSucceeded(k)}
<1>2. CASE Planned(d.stage) = {}
  BY <1>2 DEF Planned, Done
<1>3. CASE d.strategy = "any" /\ {k \in ok : d.soak => k \in soaked} # {}
  <2>1. PICK k \in ok : TRUE
    BY <1>3
  <2>2. k.cluster \in Planned(d.stage) /\ Main(d.stage, k.cluster) \in succeeded
    BY <1>1, <2>1, MainRows
  <2> QED
    BY <1>3, <2>2 DEF Planned
<1>4. CASE d.strategy = "all" /\ Cardinality(ok) >= Cardinality(Planned(d.stage))
  BY <1>1, <1>4, CountedDone
<1> QED
  BY <1>2, <1>3, <1>4 DEF stageDependencySatisfied

\* The stages that a pass gets to are ready.
LEMMA WalkedReady ==
    ASSUME TypeOK, CacheInv, EndInv, RollbacksStandAlone, OrderInv, NEW s \in WalkedStages
    PROVE  Ready(s)
<1>0. DOMAIN Plans = 1..Len(Plans)
  BY ConstantsAssumption
<1>1. PICK p \in PlanNames : Open(p) /\ s \in Walked(p) /\ Eligible(s)
  BY <1>0 DEF WalkedStages, Visited, UpTo, PlanNames
<1>2. s \in StageSeq(p) /\ s \in Stages /\ away \subseteq absent
  BY <1>1, WalkedStage DEF Stages, OrderInv
<1>3. \A d \in StageDeps[s] :
          IF d.strategy = "all" THEN Done(d.stage)
          ELSE \/ Selected[d.stage] \subseteq absent
               \/ \E c \in Selected[d.stage] : Main(d.stage, c) \in succeeded
  <2> SUFFICES ASSUME NEW d \in StageDeps[s]
               PROVE  IF d.strategy = "all" THEN Done(d.stage)
                      ELSE \/ Selected[d.stage] \subseteq absent
                           \/ \E c \in Selected[d.stage] : Main(d.stage, c) \in succeeded
    OBVIOUS
  <2>1. stageDependencySatisfied(d)
    BY <1>1 DEF Eligible
  <2> QED
    BY <1>2, <2>1, MetDependency
<1>4. \A q \in PlanNames : s \in StageSeq(q) => q = p
  BY <1>2, ConstantsAssumption
<1>5. \A q \in PlanDeps[p] : q \in PlanNames /\ runSeen.plan[q] = "Complete"
  BY <1>1, ConstantsAssumption DEF Open
<1>6. \A q \in PlanDeps[p] : \A r \in StageSeq(q) : Done(r)
  BY <1>5 DEF OrderInv, PlansEarned, Statuses
<1> QED
  BY <1>3, <1>4, <1>6 DEF Ready

\* A pass calls a plan Complete when its stages are done.
LEMMA ProgressEarned ==
    ASSUME TypeOK, CacheInv, EndInv, RollbacksStandAlone, OrderInv
    PROVE  PlansEarned(ProgressOf) /\ (Completes => \A s \in Stages : Done(s))
<1>1. ASSUME NEW p \in PlanNames, ProgressOf[p] = "Complete", NEW s \in StageSeq(p)
      PROVE  Done(s)
  <2>1. NextPlanPhase(p) = "Complete"
    BY <1>1 DEF ProgressOf
  <2>2. CASE runSeen.plan[p] = "Complete"
    BY <1>1, <2>2 DEF OrderInv, PlansEarned, Statuses
  <2>3. CASE StagesPhase(p) = "Complete"
    <3>1. {StagePhase(r) : r \in Walked(p)} \subseteq {"Complete"}
      BY <2>3 DEF StagesPhase
    <3>2. Walked(p) = StageSeq(p)
      BY <3>1, WalkedStage
    <3>3. StagePhase(s) = "Complete" /\ s \in Stages
      BY <1>1, <3>1, <3>2 DEF Stages
    <3> QED
      BY <3>3, CompleteStage DEF OrderInv
  <2> QED
    BY <2>1, <2>2, <2>3 DEF NextPlanPhase
<1> QED
  BY <1>1 DEF PlansEarned, Completes, Stages

\* The targets in hand that are not listed are bound by a stage that is ready.
LEMMA BufferReady ==
    ASSUME TypeOK, CacheInv, EndInv, RollbacksStandAlone, OrderInv,
           NEW s \in Stages, NEW c \in Selected[s], Main(s, c) \in Buffer
    PROVE  life[Main(s, c)] # "none" \/ Ready(s)
<1>1. CASE Main(s, c) \in Listed
  BY <1>1 DEF Listed, CacheInv
<1>2. CASE Main(s, c) \in Bound
  <2>1. s \in WalkedStages
    BY <1>2 DEF Bound, Main
  <2> QED
    BY <2>1, WalkedReady
<1>3. CASE Main(s, c) \in UNION {triggerRollbackTargets(r) : r \in FailedStages("rollback")}
  <2>1. PICK j \in Listed : Main(s, c) = [j EXCEPT !.rollback = TRUE]
    BY <1>3 DEF triggerRollbackTargets
  <2> QED
    BY <2>1 DEF Main, Listed, Targets
<1> QED
  BY <1>1, <1>2, <1>3 DEF Buffer

LEMMA OrderStep ==
    ASSUME TypeOK, CacheInv, EndInv, OrderInv, [Next]_vars
    PROVE  OrderInv'
<1>0. /\ Lasting /\ CacheInv'
      /\ life \in [Targets -> Child!Life] /\ job \in Job
  BY CacheStep DEF TypeOK, Child!LifeTypeOK
<1>1. away' \subseteq absent'
  <2>1. CASE BeginStep
    BY <2>1, BeginEffect DEF OrderInv
  <2>2. CASE WriteStep
    BY <2>2, WriteEffect DEF OrderInv
  <2>3. ASSUME NEW c \in Clusters, suspendCluster(c)
        PROVE  away' \subseteq absent'
    BY <2>3 DEF suspendCluster, OrderInv
  <2>4. CASE UNCHANGED <<away, absent>>
    BY <2>4 DEF OrderInv
  <2>5. (\E k \in Targets : childStep(k) \/ soakElapses(k) \/ syncTarget(k)) \/ syncRun \/ UNCHANGED vars
          => UNCHANGED <<away, absent>>
    BY DEF childStep, soakElapses, syncTarget, syncRun, vars, outside, history
  <2> QED
    BY NextCases, <2>1, <2>2, <2>3, <2>4, <2>5
<1> SUFFICES ASSUME RollbacksStandAlone'
             PROVE  /\ \A r \in Statuses' : PhaseEarned(r.phase)' /\ PlansEarned(r.plan)'
                    /\ \A s \in Stages : \A c \in Selected[s] :
                          life'[Main(s, c)] # "none" \/ Main(s, c) \in job'.want => Ready(s)'
  BY <1>1 DEF OrderInv
<1>2. RollbacksStandAlone
  BY <1>0 DEF RollbacksStandAlone, Lasting
<1>3. /\ \A r \in Statuses : PhaseEarned(r.phase) /\ PlansEarned(r.plan)
      /\ \A s \in Stages : \A c \in Selected[s] :
            life[Main(s, c)] # "none" \/ Main(s, c) \in job.want => Ready(s)
  BY <1>2 DEF OrderInv
<1>4. /\ \A s : Done(s) => Done(s)'
      /\ \A phase : PhaseEarned(phase) => PhaseEarned(phase)'
      /\ \A plan : PlansEarned(plan) => PlansEarned(plan)'
      /\ \A s : Ready(s) => Ready(s)'
  <2>1. \A s : Done(s) => Done(s)'
    BY <1>0 DEF Done, Lasting
  <2>2. \A phase : PhaseEarned(phase) => PhaseEarned(phase)'
    BY <2>1 DEF PhaseEarned
  <2>3. \A plan : PlansEarned(plan) => PlansEarned(plan)'
    BY <2>1 DEF PlansEarned
  <2>4. ASSUME NEW s, Ready(s)
        PROVE  Ready(s)'
    <3>1. ASSUME NEW d \in StageDeps[s]
          PROVE  IF d.strategy = "all" THEN Done(d.stage)'
                 ELSE \/ Selected[d.stage] \subseteq absent'
                      \/ \E c \in Selected[d.stage] : Main(d.stage, c) \in succeeded'
      BY <1>0, <2>1, <2>4 DEF Ready, Lasting
    <3> QED
      BY <2>1, <2>4, <3>1 DEF Ready
  <2> QED
    BY <2>1, <2>2, <2>3, <2>4
<1>5. CASE BeginStep
  <2>1. ASSUME NEW r \in Statuses'
        PROVE  PhaseEarned(r.phase)' /\ PlansEarned(r.plan)'
    <3>1. CASE r \in Statuses
      BY <1>3, <1>4, <3>1
    <3>2. CASE r = job'.next /\ /\ r.plan = runSeen.plan \/ r.plan = [p \in PlanNames |-> "Pending"]
                                /\ r.phase \in {runSeen.phase, "Progressing", "Failed"}
      <4>1. PhaseEarned(runSeen.phase) /\ PlansEarned(runSeen.plan)
        BY <1>3 DEF Statuses
      <4>2. PhaseEarned(r.phase)
        BY <3>2, <4>1 DEF PhaseEarned
      <4>3. PlansEarned(r.plan)
        BY <3>2, <4>1, ConstantsAssumption DEF PlansEarned
      <4> QED
        BY <1>4, <4>2, <4>3
    <3>3. CASE /\ r = job'.next /\ r.plan = ProgressOf
               /\ \/ r.phase = "Complete" /\ Completes
                  \/ r.phase \in {"Failed", "Progressing"}
      <4>1. PhaseEarned(r.phase) /\ PlansEarned(r.plan)
        BY <1>2, <3>3, ProgressEarned DEF PhaseEarned
      <4> QED
        BY <1>4, <4>1
    <3>4. job' = job => r \in Statuses
      BY <1>5, BeginEffect DEF Statuses
    <3>5. job' # job => r \in Statuses \/ r = job'.next
      <4>1. job' # job => job'.was = runSeen
        BY <1>5, BeginEffect
      <4>2. run' = run /\ runSeen' = runSeen
        BY <1>5, BeginEffect
      <4>3. r = run' \/ r = runSeen' \/ r = job'.was \/ r = job'.next
        BY DEF Statuses
      <4> QED
        BY <4>1, <4>2, <4>3 DEF Statuses
    <3> QED
      BY <1>5, <3>1, <3>2, <3>3, <3>4, <3>5, BeginEffect
  <2>2. ASSUME NEW s \in Stages, NEW c \in Selected[s],
               life'[Main(s, c)] # "none" \/ Main(s, c) \in job'.want
        PROVE  Ready(s)'
    <3>1. life' = life /\ job'.want \in {job.want, Listed, Buffer}
      BY <1>5, BeginEffect
    <3>2. Main(s, c) \in Listed => life[Main(s, c)] # "none"
      BY DEF Listed, CacheInv
    <3>3. Main(s, c) \in Buffer => life[Main(s, c)] # "none" \/ Ready(s)
      BY <1>2, BufferReady
    <3> QED
      BY <1>3, <1>4, <2>2, <3>1, <3>2, <3>3
  <2> QED
    BY <2>1, <2>2
<1>6. CASE WriteStep
  <2>1. ASSUME NEW r \in Statuses'
        PROVE  PhaseEarned(r.phase)' /\ PlansEarned(r.plan)'
    <3>1. CASE r \in Statuses
      BY <1>3, <1>4, <3>1
    <3>2. CASE r = Merged
      <4>1. PhaseEarned(r.phase) /\ PlansEarned(r.plan)
        BY <1>3, <3>2 DEF Statuses, Merged
      <4> QED
        BY <1>4, <4>1
    <3>3. CASE r = NewRun
      <4>1. PhaseEarned(r.phase) /\ PlansEarned(r.plan)
        BY <3>3 DEF NewRun, PhaseEarned, PlansEarned
      <4> QED
        BY <1>4, <4>1
    <3>4. job' = Idle => job'.was = NewRun /\ job'.next = NewRun
      BY DEF Idle
    <3> QED
      BY <1>6, <3>1, <3>2, <3>3, <3>4, WriteEffect DEF Statuses
  <2>2. ASSUME NEW s \in Stages, NEW c \in Selected[s],
               life'[Main(s, c)] # "none" \/ Main(s, c) \in job'.want
        PROVE  Ready(s)'
    <3>1. job'.want \subseteq job.want
      BY <1>6, WriteEffect DEF Idle
    <3>2. Main(s, c) \in Targets
      BY ConstantsAssumption DEF Main, Targets
    <3>3. life'[Main(s, c)] # "none" => life[Main(s, c)] # "none" \/ Main(s, c) \in job.want
      BY <1>0, <1>6, <3>2, WriteEffect DEF ParentWrites, children, Child!Ask, Child!Keep
    <3> QED
      BY <1>3, <1>4, <2>2, <3>1, <3>3
  <2> QED
    BY <2>1, <2>2
<1>7. ASSUME UNCHANGED job, \A k \in Targets : life'[k] # "none" => life[k] # "none",
             run' = run, runSeen' = runSeen \/ runSeen' = run
      PROVE  /\ \A r \in Statuses' : PhaseEarned(r.phase)' /\ PlansEarned(r.plan)'
             /\ \A s \in Stages : \A c \in Selected[s] :
                   life'[Main(s, c)] # "none" \/ Main(s, c) \in job'.want => Ready(s)'
  <2>1. Statuses' \subseteq Statuses
    BY <1>7 DEF Statuses
  <2>2. \A s \in Stages : \A c \in Selected[s] : Main(s, c) \in Targets
    BY ConstantsAssumption DEF Main, Targets
  <2> QED
    BY <1>3, <1>4, <1>7, <2>1, <2>2
<1>8. ASSUME NEW j \in Targets, childStep(j)
      PROVE  UNCHANGED job /\ run' = run /\ runSeen' = runSeen
             /\ \A k \in Targets : life'[k] # "none" => life[k] # "none"
  <2>1. UNCHANGED <<job, run, runSeen>>
    BY <1>8 DEF childStep
  <2>2. \A k \in Targets : life'[k] # "none" => life[k] # "none"
    BY <1>0, <1>8 DEF childStep, Child!ChildStep, Child!Start, Child!Finish, Child!GiveUp, Child!Flip
  <2> QED
    BY <2>1, <2>2
<1>9. CASE \/ \E k \in Targets : soakElapses(k) \/ syncTarget(k)
           \/ syncRun
           \/ \E c \in Clusters : suspendCluster(c)
           \/ UNCHANGED vars
  <2>1. /\ UNCHANGED <<job, run, life>>
        /\ runSeen' = runSeen \/ runSeen' = run
    BY <1>9 DEF soakElapses, syncTarget, syncRun, suspendCluster, vars, children, outside, history
  <2> QED
    BY <1>7, <2>1
<1> QED
  BY NextCases, <1>5, <1>6, <1>7, <1>8, <1>9

LEMMA OrderInvariant == Spec => []OrderInv
<1>1. Init => OrderInv
  <2> SUFFICES ASSUME Init
               PROVE  OrderInv
    OBVIOUS
  <2>1. job = Idle /\ run = NewRun /\ runSeen = NewRun /\ away = {}
    BY DEF Init
  <2>2. Statuses = {NewRun} /\ job.want = {}
    BY <2>1 DEF Statuses, Idle
  <2>3. PhaseEarned(NewRun.phase) /\ PlansEarned(NewRun.plan)
    BY DEF NewRun, PhaseEarned, PlansEarned
  <2>4. \A s \in Stages : \A c \in Selected[s] : life[Main(s, c)] = "none"
    BY ConstantsAssumption DEF Init, Main, Targets
  <2> QED
    BY <2>1, <2>2, <2>3, <2>4 DEF OrderInv
<1>2. TypeOK /\ CacheInv /\ EndInv /\ OrderInv /\ [Next]_vars => OrderInv'
  BY OrderStep
<1> QED
  BY <1>1, <1>2, EndInvariant, PTL DEF Spec

\* As long as no stage of several clusters has a rollback target, no stage
\* overtakes the stages and plans it depends on, and a Complete run has every
\* stage done, over a cached list of children and a cached planProgress that lag
\* as far as they may (Eligible, StagePhase, handleProgressing).
THEOREM StagesInOrder ==
    Spec => [](RollbacksStandAlone => StageOrder /\ CompleteMeansDone)
<1>1. TypeOK /\ OrderInv => (RollbacksStandAlone => StageOrder /\ CompleteMeansDone)
  <2> SUFFICES ASSUME TypeOK, OrderInv, RollbacksStandAlone
               PROVE  StageOrder /\ CompleteMeansDone
    OBVIOUS
  <2>1. ASSUME NEW p \in PlanNames, NEW s \in StageSeq(p), NEW c \in Selected[s],
               life[Main(s, c)] # "none"
        PROVE  Ready(s)
    BY <2>1 DEF OrderInv, Stages
  <2>2. StageOrder
    BY <2>1 DEF StageOrder, Ready
  <2>3. CompleteMeansDone
    BY DEF OrderInv, Statuses, PhaseEarned, CompleteMeansDone
  <2> QED
    BY <2>2, <2>3
<1> QED
  BY <1>1, OrderInvariant, PromotionRunTypeCorrect, PTL

\* Where a stage that rolls back, and the stages before it in its plan, have one
\* cluster each, all of it holds, before and after a rollback: stages run in
\* order, and a run is Complete, or Failed, only for what its targets have really
\* done (triggerRollbackTargets, patchPromotionRunStatus).
THEOREM OutcomeAlwaysEarned ==
    ASSUME \A s \in Stages : OnFailure[s] = "rollback" =>
              \A r \in EarlierStages(s) : \A c, d \in Selected[r] : c = d
    PROVE  Spec => [](StageOrder /\ OutcomeIsEarned)
<1>1. EndInv => RollbacksStandAlone
  <2> SUFFICES ASSUME EndInv, NEW k \in Targets, k.rollback, life[k] # "none",
                      NEW c \in Selected[k.stage]
               PROVE  c = k.cluster
    BY DEF RollbacksStandAlone
  <2>1. PICK j \in Targets : OnFailure[j.stage] = "rollback" /\ k.stage \in EarlierStages(j.stage)
    BY DEF EndInv, RolledBack
  <2>2. j.stage \in Stages /\ k.cluster \in Selected[k.stage]
    BY DEF Targets
  <2> QED
    BY <2>1, <2>2
<1> QED
  BY <1>1, EndInvariant, StagesInOrder, FailureAlwaysForReason, PTL DEF OutcomeIsEarned

-----------------------------------------------------------------------------
(* MaxParallel.                                                            *)

\* The clusters of a stage the children of which the cache does not show yet:
\* they exist or are about to be created.
Unseen(s) ==
    {c \in Selected[s] \ absent :
        /\ seen[Main(s, c)].life = "none"
        /\ life[Main(s, c)] # "none" \/ Main(s, c) \in job.want}

\* The clusters that come no later, in the planner's order, than some cluster
\* of a set.
UpToRank(s, X) ==
    {c \in Selected[s] \ absent :
        /\ seen[Main(s, c)].life = "none"
        /\ \E e \in X : Rank[c] <= Rank[e]}

Shown(s) == {c \in Selected[s] \ absent : seen[Main(s, c)].life \in {"waiting", "applying"}}

Counted(s) == Shown(s) \cup UpToRank(s, Unseen(s))

\* The children the cache shows under way fit in together with all clusters up
\* to the last one that the cache does not show yet: admission from the same
\* cache begins again with the first of these, and takes them over or stops
\* among them.
CountInv ==
    /\ away \subseteq absent
    /\ \A s \in Stages : MaxParallel[s] > 0 => Cardinality(Counted(s)) <= MaxParallel[s]

LEMMA CountedFinite ==
    ASSUME NEW s \in Stages
    PROVE  /\ IsFiniteSet(Shown(s)) /\ Shown(s) \in SUBSET Clusters
           /\ IsFiniteSet(Counted(s)) /\ Counted(s) \in SUBSET Clusters
           /\ Cardinality(Counted(s)) \in Nat
<1>1. Shown(s) \in SUBSET Clusters /\ Counted(s) \in SUBSET Clusters
  BY ConstantsAssumption DEF Shown, Counted, UpToRank
<1> QED
  BY <1>1, FS_Subset, FS_CardinalityType, ConstantsAssumption

\* The sets of clusters up to some rank are nested.
LEMMA Nested ==
    ASSUME NEW s \in Stages, NEW X \in SUBSET Clusters, NEW Y \in SUBSET Clusters
    PROVE  UpToRank(s, X) \subseteq UpToRank(s, Y) \/ UpToRank(s, Y) \subseteq UpToRank(s, X)
<1> SUFFICES ASSUME NEW c \in UpToRank(s, X), c \notin UpToRank(s, Y), NEW d \in UpToRank(s, Y)
             PROVE  d \in UpToRank(s, X)
  OBVIOUS
<1>1. PICK x \in X : Rank[c] <= Rank[x]
  BY DEF UpToRank
<1>2. PICK y \in Y : Rank[d] <= Rank[y]
  BY DEF UpToRank
<1>3. ~(Rank[c] <= Rank[y])
  BY <1>2 DEF UpToRank
<1>4. c \in Clusters /\ d \in Clusters
  BY ConstantsAssumption DEF UpToRank
<1>5. Rank[d] \in Nat /\ Rank[c] \in Nat /\ Rank[x] \in Nat /\ Rank[y] \in Nat
  BY <1>4, ConstantsAssumption
<1>6. Rank[d] <= Rank[x]
  BY <1>1, <1>2, <1>3, <1>5
<1> QED
  BY <1>6 DEF UpToRank

\* Every child the cache shows under way is one of the active rows.
LEMMA ShownFits ==
    ASSUME TypeOK, CountInv, NEW s \in Stages
    PROVE  LET active == {k \in Rows(s) : ~planningTargetTerminal(k)}
           IN  /\ IsFiniteSet(active)
               /\ Cardinality(Shown(s)) <= Cardinality(active)
<1> DEFINE active == {k \in Rows(s) : ~planningTargetTerminal(k)}
           f == [c \in Shown(s) |-> Main(s, c)]
<1>1. IsFiniteSet(active)
  BY RowsFinite, FS_Subset
<1>2. \A c \in Shown(s) : Main(s, c) \in active
  <2> SUFFICES ASSUME NEW c \in Shown(s)
               PROVE  Main(s, c) \in active
    OBVIOUS
  <2>1. /\ c \in Selected[s] /\ c \notin absent
        /\ seen[Main(s, c)].life \in {"waiting", "applying"}
    BY DEF Shown
  <2>2. Main(s, c) \in Targets /\ Main(s, c).stage = s /\ Main(s, c).cluster = c
    BY <2>1, ConstantsAssumption DEF Main, Targets
  <2>3. c \in Planned(s)
    BY <2>1 DEF Planned, CountInv
  <2> QED
    BY <2>1, <2>2, <2>3 DEF Rows, Listed, planningTargetTerminal, Child!Ended
<1>3. f \in Injection(Shown(s), active)
  <2>1. f \in [Shown(s) -> active]
    BY <1>2
  <2>2. \A c, d \in Shown(s) : f[c] = f[d] => c = d
    BY DEF Main
  <2> QED
    BY <2>1, <2>2, Fun_IsInj
<1>4. Cardinality(Shown(s)) <= Cardinality(active)
  <2> HIDE DEF f, active
  <2> QED
    BY <1>1, <1>3, FS_Injection
<1> QED
  BY <1>1, <1>4

\* What is admitted, up to the last of it in the planner's order, has not been
\* counted and fits into what is left.
LEMMA AdmitsTheFirst ==
    ASSUME TypeOK, CacheInv, EndInv, CountInv, NEW s \in Stages, MaxParallel[s] > 0
    PROVE  UpToRank(s, applyStageStrategy(s)) \subseteq applyStageStrategy(s)
<1> DEFINE bound == {k.cluster : k \in Rows(s)}
           free == Planned(s) \ bound
<1>1. PICK n \in Nat : applyStageStrategy(s) = Admit(free, n)
  <2> DEFINE active == Cardinality({k \in Rows(s) : ~planningTargetTerminal(k)})
             capacity == IF MaxParallel[s] > active THEN MaxParallel[s] - active ELSE 0
  <2>1. active \in Nat
    BY RowsFinite, FS_Subset, FS_CardinalityType
  <2>2. capacity \in Nat
    <3> HIDE DEF active
    <3> QED
      BY <2>1, ConstantsAssumption
  <2>3. applyStageStrategy(s) = Admit(free, capacity)
    BY DEF applyStageStrategy
  <2> QED
    BY <2>2, <2>3
<1> SUFFICES ASSUME NEW c \in UpToRank(s, Admit(free, n))
             PROVE  c \in Admit(free, n)
  BY <1>1
<1>2. /\ c \in Selected[s] /\ c \notin absent /\ c \in Clusters
      /\ seen[Main(s, c)].life = "none"
  BY ConstantsAssumption DEF UpToRank
<1>3. PICK e \in Admit(free, n) : Rank[c] <= Rank[e]
  BY DEF UpToRank
<1>4. c \in free
  <2>1. c \in Planned(s)
    BY <1>2 DEF Planned, CountInv
  <2>2. ASSUME NEW k \in Rows(s), k.cluster = c
        PROVE  FALSE
    <3>1. k \in Targets /\ k.stage = s /\ seen[k].life # "none" /\ life[k] # "none"
      BY <2>2 DEF Rows, Listed, CacheInv
    <3>2. CASE k.rollback
      <4>1. seen[[k EXCEPT !.rollback = FALSE]].life # "none"
        <5>1. RolledBack(k)
          BY <3>1, <3>2 DEF EndInv
        <5> QED
          BY <5>1 DEF RolledBack
      <4>2. [k EXCEPT !.rollback = FALSE] = Main(s, c)
        <5> DEFINE m == [k EXCEPT !.rollback = FALSE]
                   keys == [stage : Stages, cluster : Clusters, rollback : BOOLEAN]
        <5>1. m \in keys /\ m.stage = s /\ m.cluster = c /\ m.rollback = FALSE
          BY <2>2, <3>1 DEF Targets
        <5>2. /\ Main(s, c) \in keys /\ Main(s, c).stage = s
              /\ Main(s, c).cluster = c /\ Main(s, c).rollback = FALSE
          BY <1>2 DEF Main
        <5> HIDE DEF m
        <5>3. m = Main(s, c)
          BY <5>1, <5>2
        <5> QED
          BY <5>3 DEF m
      <4> QED
        BY <1>2, <4>1, <4>2
    <3>3. CASE ~k.rollback
      <4>1. k = Main(s, c)
        BY <2>2, <3>1, <3>3 DEF Main, Targets
      <4> QED
        BY <1>2, <3>1, <4>1
    <3> QED
      BY <3>2, <3>3
  <2> QED
    BY <2>1, <2>2
<1> DEFINE Below(d) == {x \in free : Rank[x] < Rank[d]}
<1>5. free \subseteq Clusters /\ e \in free /\ Cardinality(Below(e)) < n
  BY RowsFinite, <1>3 DEF Admit
<1>6. Below(c) \subseteq Below(e)
  BY <1>2, <1>3, <1>5, ConstantsAssumption
<1>7. IsFiniteSet(Below(e)) /\ Below(c) \in SUBSET Clusters /\ Below(e) \in SUBSET Clusters
  BY <1>5, FS_Subset, ConstantsAssumption
<1>8. Cardinality(Below(c)) <= Cardinality(Below(e))
      /\ Cardinality(Below(c)) \in Nat /\ Cardinality(Below(e)) \in Nat
  <2> HIDE DEF Below
  <2> QED
    BY <1>6, <1>7, FS_Subset, FS_CardinalityType
<1>9. Cardinality(Below(c)) < n
  <2> HIDE DEF Below
  <2> QED
    BY <1>5, <1>8
<1> QED
  BY <1>4, <1>9 DEF Admit

\* Together with the children under way, what is admitted fits.
LEMMA AdmissionFits ==
    ASSUME TypeOK, CacheInv, EndInv, CountInv, NEW s \in Stages, MaxParallel[s] > 0,
           UpToRank(s, applyStageStrategy(s)) # {}
    PROVE  Cardinality(Shown(s) \cup UpToRank(s, applyStageStrategy(s))) <= MaxParallel[s]
<1> DEFINE active == {k \in Rows(s) : ~planningTargetTerminal(k)}
           a == Cardinality(active)
           free == Planned(s) \ {k.cluster : k \in Rows(s)}
           new == UpToRank(s, applyStageStrategy(s))
           capacity == IF MaxParallel[s] > a THEN MaxParallel[s] - a ELSE 0
<1>1. IsFiniteSet(active) /\ Cardinality(Shown(s)) <= a
  BY ShownFits
<1>2. a \in Nat /\ MaxParallel[s] \in Nat /\ capacity \in Nat
  BY <1>1, FS_CardinalityType, ConstantsAssumption
<1>3. applyStageStrategy(s) = Admit(free, capacity)
  BY DEF applyStageStrategy
<1>4. free \in SUBSET Clusters
  BY RowsFinite
<1>5. IsFiniteSet(Admit(free, capacity)) /\ Cardinality(Admit(free, capacity)) <= capacity
  <2> HIDE DEF free, capacity
  <2> QED
    BY <1>2, <1>4, AdmitFits
<1>6. new \subseteq Admit(free, capacity)
  BY <1>3, AdmitsTheFirst
<1>7. IsFiniteSet(new) /\ Cardinality(new) <= capacity /\ Cardinality(new) \in Nat
  <2> HIDE DEF free, capacity, new
  <2>1. Cardinality(Admit(free, capacity)) \in Nat
    BY <1>5, FS_CardinalityType
  <2>2. IsFiniteSet(new) /\ Cardinality(new) <= Cardinality(Admit(free, capacity))
    BY <1>5, <1>6, FS_Subset
  <2> QED
    BY <1>2, <1>5, <2>1, <2>2, FS_CardinalityType
<1>8. Cardinality(new) # 0
  <2> HIDE DEF new
  <2>1. new # {}
    BY DEF new
  <2> QED
    BY <1>7, <2>1, FS_EmptySet
<1>9. capacity = MaxParallel[s] - a /\ a <= MaxParallel[s]
  <2> HIDE DEF new, a
  <2> QED
    BY <1>2, <1>7, <1>8
<1>10. IsFiniteSet(Shown(s)) /\ Cardinality(Shown(s)) \in Nat
  BY CountedFinite, FS_CardinalityType
<1>11. /\ Cardinality(Shown(s) \cup new)
             = Cardinality(Shown(s)) + Cardinality(new) - Cardinality(Shown(s) \cap new)
       /\ Cardinality(Shown(s) \cap new) \in Nat
  <2> HIDE DEF new
  <2>1. IsFiniteSet(Shown(s) \cap new)
    BY <1>10, FS_Intersection
  <2> QED
    BY <1>7, <1>10, <2>1, FS_Union, FS_CardinalityType
<1>12. Cardinality(Shown(s) \cup new) <= MaxParallel[s]
  <2> HIDE DEF new, a, capacity
  <2> QED
    BY <1>1, <1>2, <1>7, <1>9, <1>10, <1>11
<1> QED
  BY <1>12

\* What a run has in hand at the end of a pass is listed or admitted by it.
LEMMA BufferAdmitted ==
    ASSUME NEW s \in Stages, NEW c \in Selected[s], Main(s, c) \in Buffer
    PROVE  seen[Main(s, c)].life # "none" \/ c \in applyStageStrategy(s)
<1>1. Main(s, c) \notin UNION {triggerRollbackTargets(r) : r \in FailedStages("rollback")}
  <2> SUFFICES ASSUME NEW r, NEW k \in Listed, Main(s, c) = [k EXCEPT !.rollback = TRUE]
               PROVE  FALSE
    BY DEF triggerRollbackTargets
  <2>1. [k EXCEPT !.rollback = TRUE].rollback = TRUE
    BY DEF Listed, Targets
  <2> QED
    BY <2>1 DEF Main
<1> QED
  BY <1>1 DEF Buffer, Listed, Bound, Main

\* A step that shows no more clusters than were counted keeps the bound.
LEMMA CountedShrinks ==
    ASSUME CountInv, away' \subseteq absent', \A s \in Stages : Counted(s)' \subseteq Counted(s)
    PROVE  CountInv'
<1> SUFFICES ASSUME NEW s \in Stages, MaxParallel[s] > 0
             PROVE  Cardinality(Counted(s)') <= MaxParallel[s]
  BY DEF CountInv
<1>1. IsFiniteSet(Counted(s)) /\ Cardinality(Counted(s)) \in Nat
  BY CountedFinite
<1>2. IsFiniteSet(Counted(s)') /\ Cardinality(Counted(s)') <= Cardinality(Counted(s))
  BY <1>1, FS_Subset
<1>3. Cardinality(Counted(s)') \in Nat
  BY <1>2, FS_CardinalityType
<1>4. Cardinality(Counted(s)) <= MaxParallel[s] /\ MaxParallel[s] \in Nat
  BY ConstantsAssumption DEF CountInv
<1> QED
  BY <1>1, <1>2, <1>3, <1>4

\* If nothing becomes unseen and nothing is shown that was not counted, no more
\* is counted than before.
LEMMA CountedFrom ==
    ASSUME NEW s \in Stages, absent \subseteq absent',
           \A c \in Selected[s] \ absent :
               /\ seen'[Main(s, c)].life \in {"waiting", "applying"} =>
                      \/ seen[Main(s, c)].life \in {"waiting", "applying"}
                      \/ c \in Unseen(s)
               /\ seen'[Main(s, c)].life = "none" => seen[Main(s, c)].life = "none",
           Unseen(s)' \subseteq Unseen(s)
    PROVE  Counted(s)' \subseteq Counted(s)
<1>1. ASSUME NEW c \in Shown(s)'
      PROVE  c \in Counted(s)
  <2>1. c \in Selected[s] \ absent /\ c \in Clusters
    BY <1>1, ConstantsAssumption DEF Shown
  <2>2. seen[Main(s, c)].life \in {"waiting", "applying"} \/ c \in Unseen(s)
    BY <1>1, <2>1 DEF Shown
  <2>3. Rank[c] <= Rank[c]
    BY <2>1, ConstantsAssumption
  <2> QED
    BY <2>1, <2>2, <2>3 DEF Counted, Shown, UpToRank, Unseen
<1>2. ASSUME NEW c \in UpToRank(s, Unseen(s))'
      PROVE  c \in Counted(s)
  BY <1>2 DEF UpToRank, Counted
<1> QED
  BY <1>1, <1>2 DEF Counted

\* A pass that admits clusters keeps the bound: of what was counted before the
\* pass and what is admitted by it, one takes in the other.
LEMMA AdmitKeepsBound ==
    ASSUME TypeOK, CacheInv, EndInv, CountInv, UNCHANGED <<life, seen, absent>>,
           job'.want = Buffer, NEW s \in Stages, MaxParallel[s] > 0
    PROVE  Cardinality(Counted(s)') <= MaxParallel[s]
<1> DEFINE New == applyStageStrategy(s)
           old == UpToRank(s, Unseen(s))
           new == UpToRank(s, New)
<1>1. Shown(s)' = Shown(s)
  BY DEF Shown
<1>2. UpToRank(s, Unseen(s))' \subseteq old \cup new
  <2> SUFFICES ASSUME NEW c \in UpToRank(s, Unseen(s))'
               PROVE  c \in old \cup new
    OBVIOUS
  <2>1. PICK e \in Unseen(s)' : Rank[c] <= Rank[e]
    BY DEF UpToRank
  <2>2. c \in Selected[s] \ absent /\ seen[Main(s, c)].life = "none"
    BY DEF UpToRank
  <2>3. /\ e \in Selected[s] \ absent /\ seen[Main(s, e)].life = "none"
        /\ life[Main(s, e)] # "none" \/ Main(s, e) \in Buffer
    BY DEF Unseen
  <2>4. e \in Unseen(s) \/ e \in New
    BY <2>3, BufferAdmitted DEF Unseen
  <2> QED
    BY <2>1, <2>2, <2>4 DEF UpToRank
<1>3. Unseen(s) \in SUBSET Clusters /\ New \in SUBSET Clusters
  BY ConstantsAssumption, RowsFinite DEF Unseen, applyStageStrategy, Admit
<1>4. CASE new = {} \/ new \subseteq old
  <2>1. Counted(s)' \subseteq Counted(s)
    BY <1>1, <1>2, <1>4 DEF Counted
  <2>2. IsFiniteSet(Counted(s)) /\ Cardinality(Counted(s)) \in Nat
    BY CountedFinite
  <2>3. IsFiniteSet(Counted(s)') /\ Cardinality(Counted(s)') <= Cardinality(Counted(s))
    BY <2>1, <2>2, FS_Subset
  <2>4. Cardinality(Counted(s)') \in Nat
    BY <2>3, FS_CardinalityType
  <2> QED
    BY <2>2, <2>3, <2>4, ConstantsAssumption DEF CountInv
<1>5. CASE new # {} /\ old \subseteq new
  <2>1. Counted(s)' \subseteq Shown(s) \cup new
    BY <1>1, <1>2, <1>5 DEF Counted
  <2>2. Cardinality(Shown(s) \cup new) <= MaxParallel[s]
    BY <1>5, AdmissionFits
  <2>3. new \in SUBSET Clusters /\ Shown(s) \in SUBSET Clusters
    BY ConstantsAssumption DEF UpToRank, Shown
  <2>4. IsFiniteSet(Shown(s) \cup new)
    <3> HIDE DEF new
    <3> QED
      BY <2>3, FS_Subset, ConstantsAssumption
  <2>5. /\ Cardinality(Counted(s)') <= Cardinality(Shown(s) \cup new)
        /\ Cardinality(Counted(s)') \in Nat /\ Cardinality(Shown(s) \cup new) \in Nat
    <3> HIDE DEF new
    <3> QED
      BY <2>1, <2>4, FS_Subset, FS_CardinalityType
  <2> QED
    <3> HIDE DEF new
    <3> QED
      BY <2>2, <2>5, ConstantsAssumption
<1>6. new \subseteq old \/ old \subseteq new
  BY <1>3, Nested
<1> QED
  BY <1>4, <1>5, <1>6

LEMMA CountStep ==
    ASSUME TypeOK, CacheInv, EndInv, CountInv, [Next]_vars
    PROVE  CountInv'
<1>0. /\ life \in [Targets -> Child!Life] /\ seen \in [Targets -> Copy]
      /\ \A s \in Stages : \A c \in Selected[s] : Main(s, c) \in Targets
  BY ConstantsAssumption DEF TypeOK, Child!LifeTypeOK, Main, Targets
<1>1. CASE BeginStep
  <2>1. UNCHANGED <<life, seen, away, absent>> /\ job'.want \in {job.want, Listed, Buffer}
    BY <1>1, BeginEffect
  <2>2. CASE job'.want \in {job.want, Listed}
    <3>1. ASSUME NEW s \in Stages
          PROVE  Unseen(s)' \subseteq Unseen(s)
      BY <2>1, <2>2 DEF Unseen, Listed
    <3>2. \A s \in Stages : Counted(s)' \subseteq Counted(s)
      BY <2>1, <3>1, CountedFrom
    <3> QED
      BY <2>1, <3>2, CountedShrinks DEF CountInv
  <2>3. CASE job'.want = Buffer
    BY <2>1, <2>3, AdmitKeepsBound DEF CountInv
  <2> QED
    BY <2>1, <2>2, <2>3
<1>2. CASE WriteStep
  <2>1. UNCHANGED <<seen, away, absent>> /\ ParentWrites /\ job'.want \subseteq job.want
    BY <1>2, WriteEffect DEF Idle
  <2>2. \A k \in Targets : life'[k] # "none" => life[k] # "none" \/ k \in job.want
    BY <1>0, <2>1 DEF ParentWrites, children, Child!Ask, Child!Keep
  <2>3. ASSUME NEW s \in Stages
        PROVE  Unseen(s)' \subseteq Unseen(s)
    BY <1>0, <2>1, <2>2 DEF Unseen
  <2>4. \A s \in Stages : Counted(s)' \subseteq Counted(s)
    BY <2>1, <2>3, CountedFrom
  <2> QED
    BY <2>1, <2>4, CountedShrinks DEF CountInv
<1>3. ASSUME NEW j \in Targets, childStep(j)
      PROVE  CountInv'
  <2>1. UNCHANGED <<seen, away, absent, job>>
    BY <1>3 DEF childStep
  <2>2. \A k \in Targets : life'[k] # "none" => life[k] # "none"
    BY <1>0, <1>3 DEF childStep, Child!ChildStep, Child!Start, Child!Finish, Child!GiveUp, Child!Flip
  <2>3. ASSUME NEW s \in Stages
        PROVE  Unseen(s)' \subseteq Unseen(s)
    BY <1>0, <2>1, <2>2 DEF Unseen
  <2>4. \A s \in Stages : Counted(s)' \subseteq Counted(s)
    BY <2>1, <2>3, CountedFrom
  <2> QED
    BY <2>1, <2>4, CountedShrinks DEF CountInv
<1>4. ASSUME NEW j \in Targets, syncTarget(j)
      PROVE  CountInv'
  <2>1. UNCHANGED <<life, away, absent, job>>
    BY <1>4 DEF syncTarget, children, outside
  <2>2. \A k \in Targets : seen'[k].life = IF k = j THEN life[j] ELSE seen[k].life
    BY <1>0, <1>4 DEF syncTarget
  <2>3. ASSUME NEW s \in Stages, NEW c \in Selected[s] \ absent
        PROVE  /\ seen'[Main(s, c)].life \in {"waiting", "applying"} =>
                      \/ seen[Main(s, c)].life \in {"waiting", "applying"}
                      \/ c \in Unseen(s)
               /\ seen'[Main(s, c)].life = "none" => seen[Main(s, c)].life = "none"
    <3>1. Main(s, c) \in Targets /\ seen[Main(s, c)].life \in Child!Life
      BY <1>0 DEF Copy
    <3>2. /\ seen[Main(s, c)].life # "none" => life[Main(s, c)] # "none"
          /\ seen[Main(s, c)].life \in Child!Ended => life[Main(s, c)] \in Child!Ended
      BY <3>1 DEF CacheInv
    <3> QED
      BY <2>2, <3>1, <3>2 DEF Unseen, Child!Life, Child!Ended
  <2>4. ASSUME NEW s \in Stages
        PROVE  Unseen(s)' \subseteq Unseen(s)
    BY <2>1, <2>3 DEF Unseen
  <2>5. \A s \in Stages : Counted(s)' \subseteq Counted(s)
    BY <2>1, <2>3, <2>4, CountedFrom
  <2> QED
    BY <2>1, <2>5, CountedShrinks DEF CountInv
<1>5. CASE \/ syncRun
           \/ \E k \in Targets : soakElapses(k)
           \/ \E c \in Clusters : suspendCluster(c)
           \/ UNCHANGED vars
  <2>1. UNCHANGED <<life, seen, job>> /\ absent \subseteq absent' /\ away' \subseteq absent'
    BY <1>5 DEF syncRun, soakElapses, suspendCluster, vars, children, outside, history, CountInv
  <2>2. ASSUME NEW s \in Stages
        PROVE  Unseen(s)' \subseteq Unseen(s)
    BY <2>1 DEF Unseen
  <2>3. \A s \in Stages : Counted(s)' \subseteq Counted(s)
    BY <2>1, <2>2, CountedFrom
  <2> QED
    BY <2>1, <2>3, CountedShrinks
<1> QED
  BY NextCases, <1>1, <1>2, <1>3, <1>4, <1>5

\* No more targets of a stage are under way than its maxParallel allows, although
\* each pass counts them in a cached list that may miss the newest ones and
\* show others as they were: whatever passes, restarts and partial writes there
\* are, for every number of clusters.
THEOREM ParallelAlwaysBounded == Spec => []ParallelBound
<1>1. Init => CountInv
  <2> SUFFICES ASSUME Init
               PROVE  CountInv
    OBVIOUS
  <2>1. away = {} /\ job.want = {}
    BY DEF Init, Idle
  <2>2. \A s \in Stages : \A c \in Selected[s] :
            life[Main(s, c)] = "none" /\ seen[Main(s, c)].life = "none"
    BY ConstantsAssumption DEF Init, Main, Targets
  <2>3. \A s \in Stages : Counted(s) = {}
    BY <2>1, <2>2 DEF Counted, Shown, UpToRank, Unseen
  <2>4. \A s \in Stages : Cardinality(Counted(s)) = 0 /\ MaxParallel[s] \in Nat
    BY <2>3, FS_EmptySet, ConstantsAssumption
  <2>5. \A s \in Stages : MaxParallel[s] > 0 => Cardinality(Counted(s)) <= MaxParallel[s]
    BY <2>4
  <2> QED
    BY <2>1, <2>5 DEF CountInv
<1>2. TypeOK /\ CacheInv /\ EndInv /\ CountInv /\ [Next]_vars => CountInv'
  BY CountStep
<1>3. TypeOK /\ CacheInv /\ CountInv => ParallelBound
  <2> SUFFICES ASSUME TypeOK, CacheInv, CountInv, NEW s \in Stages, MaxParallel[s] > 0
               PROVE  Cardinality({c \in Selected[s] \ absent :
                                      life[Main(s, c)] \in {"waiting", "applying"}})
                          <= MaxParallel[s]
    BY DEF ParallelBound
  <2> DEFINE under == {c \in Selected[s] \ absent : life[Main(s, c)] \in {"waiting", "applying"}}
  <2>1. ASSUME NEW c \in under
        PROVE  c \in Counted(s)
    <3>1. c \in Selected[s] \ absent /\ c \in Clusters /\ Main(s, c) \in Targets
      BY ConstantsAssumption DEF Main, Targets
    <3>2. seen[Main(s, c)].life \in Child!Life /\ seen[Main(s, c)].life \notin Child!Ended
      BY <3>1 DEF TypeOK, Copy, CacheInv, Child!Ended
    <3>3. seen[Main(s, c)].life = "none" => c \in Unseen(s) /\ Rank[c] <= Rank[c]
      BY <3>1, ConstantsAssumption DEF Unseen
    <3> QED
      BY <3>1, <3>2, <3>3 DEF Counted, Shown, UpToRank, Child!Life
  <2>2. IsFiniteSet(Counted(s)) /\ Cardinality(Counted(s)) \in Nat
    BY CountedFinite
  <2>3. IsFiniteSet(under) /\ Cardinality(under) <= Cardinality(Counted(s))
    <3> HIDE DEF under
    <3> QED
      BY <2>1, <2>2, FS_Subset
  <2>4. Cardinality(under) \in Nat
    <3> HIDE DEF under
    <3> QED
      BY <2>3, FS_CardinalityType
  <2> QED
    <3> HIDE DEF under
    <3>1. Cardinality(Counted(s)) <= MaxParallel[s] /\ MaxParallel[s] \in Nat
      BY ConstantsAssumption DEF CountInv
    <3>2. Cardinality(under) <= MaxParallel[s]
      BY <2>2, <2>3, <2>4, <3>1
    <3> QED
      BY <3>2 DEF under
<1> QED
  BY <1>1, <1>2, <1>3, EndInvariant, PTL DEF Spec

=============================================================================

-------------------------- MODULE PromotionProofs ---------------------------
(***************************************************************************)
(* Proofs about Promotion, for every set of spec hashes and every number   *)
(* of edits, suspensions and failures.                                     *)
(***************************************************************************)
EXTENDS Promotion, TLAPS

-----------------------------------------------------------------------------
(* Type correctness.                                                       *)

\* A spent event leaves a budget.
LEMMA SpendType ==
    ASSUME left \in Budget, NEW kind \in {"edit", "toggle", "failure"}, Spend(kind)
    PROVE  left' \in Budget
<1>1. CASE kind = "edit"
  BY <1>1 DEF Budget, Spend
<1>2. CASE kind = "toggle"
  BY <1>2 DEF Budget, Spend
<1>3. CASE kind = "failure"
  BY <1>3 DEF Budget, Spend
<1> QED
  BY <1>1, <1>2, <1>3

\* What a Promotion reconcile starts with.
LEMMA ReadType ==
    ASSUME TypeOK
    PROVE  /\ IdleJob \in Job /\ Read \in Job
           /\ NewRun \in Run /\ Absent \in Run
           /\ \A h \in Hashes : run[h].phase \in RunPhase /\ runSeen[h].phase \in RunPhase
<1>1. IdleJob \in Job
  BY ConstantsAssumption DEF IdleJob, Job, PromotionPhase, RunPhase
<1>2. promoSeen.phase \in PromotionPhase
  BY DEF TypeOK, Promotion
<1>3. Read \in Job
  BY <1>1, <1>2 DEF Read, Job
<1> QED
  BY <1>1, <1>3 DEF TypeOK, NewRun, Absent, Run, RunPhase

\* A patch of the status sets a phase of the Promotion.
LEMMA PatchType ==
    ASSUME promo \in Promotion, NEW phase \in PromotionPhase, PatchStatus(phase)
    PROVE  promo' \in Promotion
  BY DEF PatchStatus, Promotion

\* The steps of the Promotion's reconcile keep the types.
LEMMA PromotionType ==
    ASSUME TypeOK, ReconcilePromotion \/ BeginUnresolved \/ abandon
    PROVE  TypeOK'
<1>0. /\ IdleJob \in Job /\ Read \in Job /\ NewRun \in Run /\ First \in Hashes
      /\ \A h \in Hashes : run[h].phase \in RunPhase /\ runSeen[h].phase \in RunPhase
      /\ job \in Job /\ promo \in Promotion /\ promoSeen \in Promotion
      /\ promoSeen.hash \in Hashes /\ queued \in BOOLEAN
  BY ReadType, ConstantsAssumption DEF TypeOK, Promotion
<1> USE <1>0
<1>1. CASE Begin
  <2> DEFINE h == promoSeen.hash
  <2> DEFINE prior == \E g \in Hashes : IsTerminal(runSeen[g].phase)
  <2> DEFINE listed == [Read EXCEPT !.prior = prior]
  <2>1. prior \in BOOLEAN
    OBVIOUS
  <2>2. listed \in Job
    BY <2>1 DEF Job
  <2>3. ToSuspend \subseteq Hashes
    BY DEF ToSuspend
  <2>4. job' \in Job
    <3>1. CASE job' = [Read EXCEPT !.pc = "suspend", !.todo = ToSuspend]
      BY <2>3, <3>1 DEF Job
    <3>2. CASE job' = [listed EXCEPT !.pc = "mirror", !.seen = runSeen[h].phase]
      <4> HIDE DEF listed
      <4> QED
        BY <2>2, <3>2 DEF Job
    <3>3. CASE job' = [listed EXCEPT !.pc = "supersede", !.hash = h,
                                     !.todo = {g \in Hashes : Live(runSeen[g])}]
      <4> HIDE DEF listed
      <4> QED
        BY <2>2, <3>3 DEF Job
    <3> QED
      BY <1>1, <3>1, <3>2, <3>3 DEF Begin
  <2> QED
    BY <1>1, <2>4 DEF Begin, TypeOK, runVars
<1>2. ASSUME NEW h \in Hashes, suspendOwnedRuns(h)
      PROVE  TypeOK'
  <2>1. job' \in Job
    BY <1>2 DEF suspendOwnedRuns, Job
  <2>2. run' \in [Hashes -> Run]
    BY <1>2 DEF suspendOwnedRuns, TypeOK, Run
  <2> QED
    BY <1>2, <2>1, <2>2 DEF suspendOwnedRuns, TypeOK
<1>3. ASSUME NEW h \in Hashes, supersedePrevious(h)
      PROVE  TypeOK'
  <2>1. job' \in Job
    BY <1>3 DEF supersedePrevious, Job
  <2>2. run' \in [Hashes -> Run]
    BY <1>3 DEF supersedePrevious, TypeOK, Run, RunPhase
  <2> QED
    BY <1>3, <2>1, <2>2 DEF supersedePrevious, TypeOK
<1>4. ASSUME NEW phase \in {"Paused", "Pending"}, patchStatus(phase)
      PROVE  TypeOK'
  <2>1. promo' \in Promotion
    BY <1>4, PatchType DEF patchStatus, PromotionPhase
  <2> QED
    BY <1>4, <2>1 DEF patchStatus, TypeOK, runVars
<1>5. CASE cancelSupersededRunTargets
  <2>1. job' \in Job
    BY <1>5 DEF cancelSupersededRunTargets, Job
  <2>2. target' \in [Hashes -> TargetState]
    BY <1>5 DEF cancelSupersededRunTargets, TypeOK, TargetState
  <2> QED
    BY <1>5, <2>1, <2>2 DEF cancelSupersededRunTargets, TypeOK, runVars
<1>6. CASE stampAttempt
  <2>1. job.hash \in Hashes
    BY DEF Job
  <2>2. "" \in RunPhase /\ runSeen[job.hash].phase \in RunPhase
    BY <2>1 DEF RunPhase
  <2>3. job' \in Job
    BY <1>6, <2>2 DEF stampAttempt, Job
  <2>4. run' \in [Hashes -> Run]
    BY <1>6 DEF stampAttempt, TypeOK
  <2> QED
    BY <1>6, <2>3, <2>4 DEF stampAttempt, TypeOK
<1>7. CASE patchStatusFromRun
  <2>1. computePromotionPhase(job.seen, job.prior) \in PromotionPhase
    BY DEF computePromotionPhase, PromotionPhase
  <2>2. promo' \in Promotion
    BY <1>7, <2>1, PatchType DEF patchStatusFromRun
  <2> QED
    BY <1>7, <2>2 DEF patchStatusFromRun, TypeOK, runVars
<1>8. CASE BeginUnresolved
  <2>1. job' \in Job
    BY <1>8 DEF BeginUnresolved, Job
  <2>2. left' \in Budget
    BY <1>8, SpendType DEF BeginUnresolved, TypeOK
  <2> QED
    BY <1>8, <2>1, <2>2 DEF BeginUnresolved, TypeOK, runVars
<1>9. CASE abandon
  <2>1. left' \in Budget
    BY <1>9, SpendType DEF abandon, TypeOK
  <2> QED
    BY <1>9, <2>1 DEF abandon, TypeOK, runVars
<1> QED
  BY <1>1, <1>2, <1>3, <1>4, <1>5, <1>6, <1>7, <1>8, <1>9 DEF ReconcilePromotion

\* So do the steps of the runs' reconciles, of the user and of the watches.
LEMMA OthersType ==
    ASSUME TypeOK,
           \/ \E h \in Hashes : ReconcileRun(h) \/ syncRun(h) \/ editSpec(h)
           \/ toggleSuspended \/ syncPromotion
    PROVE  TypeOK'
<1>1. ASSUME NEW h \in Hashes, ReconcileRun(h)
      PROVE  TypeOK'
  <2>1. CASE BeginRun(h)
    BY <2>1 DEF BeginRun, TypeOK, RunStep, promoVars
  <2>2. CASE handlePending(h)
    <3>1. run' \in [Hashes -> Run]
      BY <2>2 DEF handlePending, TypeOK, Run, RunPhase
    <3> QED
      BY <2>2, <3>1 DEF handlePending, TypeOK, RunStep, promoVars
  <2>3. ASSUME NEW o \in {"Progressing", "Complete", "Failed"}, handleProgressing(h, o)
        PROVE  TypeOK'
    <3>1. run' \in [Hashes -> Run]
      BY <2>3 DEF handleProgressing, TypeOK, Run, RunPhase
    <3>2. target' \in [Hashes -> TargetState]
      BY <2>3 DEF handleProgressing, TypeOK, TargetState
    <3>3. completed' \in SUBSET Hashes
      BY <2>3 DEF handleProgressing, TypeOK
    <3> QED
      BY <2>3, <3>1, <3>2, <3>3 DEF handleProgressing, TypeOK, RunStep, promoVars
  <2> QED
    BY <1>1, <2>1, <2>2, <2>3 DEF ReconcileRun
<1>2. ASSUME NEW h \in Hashes, syncRun(h)
      PROVE  TypeOK'
  BY <1>2 DEF syncRun, TypeOK
<1>3. ASSUME NEW h \in Hashes, editSpec(h)
      PROVE  TypeOK'
  <2>1. promo' \in Promotion /\ left' \in Budget
    BY <1>3, SpendType DEF editSpec, TypeOK, Promotion
  <2> QED
    BY <1>3, <2>1 DEF editSpec, TypeOK, runVars
<1>4. CASE toggleSuspended
  <2>1. promo' \in Promotion /\ left' \in Budget
    BY <1>4, SpendType DEF toggleSuspended, TypeOK, Promotion
  <2> QED
    BY <1>4, <2>1 DEF toggleSuspended, TypeOK, runVars
<1>5. CASE syncPromotion
  BY <1>5 DEF syncPromotion, TypeOK, runVars
<1> QED
  BY <1>1, <1>2, <1>3, <1>4, <1>5

LEMMA TypeStep == (Init => TypeOK) /\ (TypeOK /\ [Next]_vars => TypeOK')
<1>1. ASSUME Init
      PROVE  TypeOK
  <2>1. NewPromotion \in Promotion /\ IdleJob \in Job /\ Absent \in Run
    BY ConstantsAssumption
       DEF NewPromotion, Promotion, PromotionPhase, IdleJob, Job, Absent, Run, RunPhase
  <2>2. left \in Budget
    BY <1>1, ConstantsAssumption DEF Init
  <2>3. run \in [Hashes -> Run] /\ runSeen \in [Hashes -> Run]
    BY <1>1, <2>1 DEF Init
  <2>4. runJob \in [Hashes -> RunStep] /\ target \in [Hashes -> TargetState]
    BY <1>1 DEF Init, RunStep, TargetState
  <2>5. /\ promo \in Promotion /\ promoSeen \in Promotion /\ job \in Job
        /\ queued \in BOOLEAN /\ completed \in SUBSET Hashes
    BY <1>1, <2>1 DEF Init
  <2> QED
    BY <2>2, <2>3, <2>4, <2>5 DEF TypeOK
<1>2. ASSUME TypeOK, UNCHANGED vars
      PROVE  TypeOK'
  BY <1>2 DEF vars, TypeOK
<1> QED
  BY <1>1, <1>2, PromotionType, OthersType DEF Next

\* The Promotion, its runs and the two controllers' work stay in their types.
THEOREM PromotionTypeCorrect == Spec => []TypeOK
  BY TypeStep, PTL DEF Spec

-----------------------------------------------------------------------------
(* SucceededWasCompleted is not inductive: the phase that is mirrored was  *)
(* read from the cached copy of a run.                                     *)

\* Whoever has seen a run Complete, the cache or a reconcile under way, has seen
\* what happened; and so has the status.
CompleteIsEarned ==
    /\ \A h \in Hashes : /\ run[h].phase = "Complete" => h \in completed
                         /\ runSeen[h].phase = "Complete" => h \in completed
    /\ job.seen = "Complete" => completed # {}
    /\ SucceededWasCompleted

\* No step of the Promotion's reconcile makes a run Complete, and the status
\* follows the copy that was read.
LEMMA PromotionEarned ==
    ASSUME TypeOK, CompleteIsEarned, ReconcilePromotion \/ BeginUnresolved \/ abandon
    PROVE  CompleteIsEarned'
<1>0. /\ job \in Job /\ promo \in Promotion /\ promoSeen.hash \in Hashes
      /\ run \in [Hashes -> Run] /\ IdleJob.seen # "Complete" /\ Read.seen # "Complete"
      /\ Read \in Job /\ job.hash \in Hashes
  BY ReadType DEF TypeOK, Promotion, Job, IdleJob, Read
<1>1. UNCHANGED <<completed, runSeen>>
  BY DEF ReconcilePromotion, Begin, suspendOwnedRuns, patchStatus, supersedePrevious,
         cancelSupersededRunTargets, stampAttempt, patchStatusFromRun, BeginUnresolved,
         abandon, runVars
<1>2. ASSUME NEW h \in Hashes, run'[h].phase = "Complete"
      PROVE  h \in completed
  <2>1. \/ run' = run
        \/ \E g \in Hashes : suspendOwnedRuns(g) \/ supersedePrevious(g)
        \/ stampAttempt /\ run' = [run EXCEPT ![job.hash] = NewRun]
    BY DEF ReconcilePromotion, Begin, patchStatus, cancelSupersededRunTargets, stampAttempt,
           patchStatusFromRun, BeginUnresolved, abandon, runVars
  <2>2. run[h].phase = "Complete"
    <3>1. CASE \E g \in Hashes : suspendOwnedRuns(g)
      BY <1>0, <1>2, <3>1 DEF suspendOwnedRuns, Run
    <3>2. CASE \E g \in Hashes : supersedePrevious(g)
      BY <1>0, <1>2, <3>2 DEF supersedePrevious, Run
    <3>3. CASE run' = [run EXCEPT ![job.hash] = NewRun]
      BY <1>0, <1>2, <3>3 DEF NewRun
    <3> QED
      BY <1>2, <2>1, <3>1, <3>2, <3>3
  <2> QED
    BY <2>2 DEF CompleteIsEarned
<1>3. ASSUME job'.seen = "Complete"
      PROVE  completed # {}
  <2>1. CASE Begin
    <3>1. promoSeen.suspended \/ ~HasAttempt(promoSeen.hash) => job'.seen = Read.seen
      BY <1>0, <2>1 DEF Begin, Job
    <3>2. runSeen[promoSeen.hash].phase = "Complete"
      BY <1>0, <1>3, <2>1, <3>1 DEF Begin, Job
    <3> QED
      BY <1>0, <3>2 DEF CompleteIsEarned
  <2>2. CASE stampAttempt
    <3>1. runSeen[job.hash].phase = "Complete"
      BY <1>0, <1>3, <2>2 DEF stampAttempt, Job
    <3> QED
      BY <1>0, <3>1 DEF CompleteIsEarned
  <2>3. CASE ~Begin /\ ~stampAttempt
    <3>1. job.seen = "Complete"
      BY <1>0, <1>3, <2>3 DEF ReconcilePromotion, suspendOwnedRuns, patchStatus,
         supersedePrevious, cancelSupersededRunTargets, patchStatusFromRun,
         BeginUnresolved, abandon, Job
    <3> QED
      BY <3>1 DEF CompleteIsEarned
  <2> QED
    BY <2>1, <2>2, <2>3
<1>4. ASSUME promo'.phase = "Succeeded"
      PROVE  completed # {}
  <2>1. CASE promo.phase = "Succeeded"
    BY <2>1 DEF CompleteIsEarned, SucceededWasCompleted
  <2>2. CASE promo.phase # "Succeeded"
    <3>1. \E phase : /\ PatchStatus(phase)
                     /\ \/ phase \in {"Paused", "Pending"}
                        \/ phase = computePromotionPhase(job.seen, job.prior)
      BY <1>4, <2>2 DEF ReconcilePromotion, Begin, suspendOwnedRuns, patchStatus,
         supersedePrevious, cancelSupersededRunTargets, stampAttempt, patchStatusFromRun,
         BeginUnresolved, abandon
    <3>2. computePromotionPhase(job.seen, job.prior) = "Succeeded"
      BY <1>0, <1>4, <2>2, <3>1 DEF PatchStatus, Promotion
    <3>3. job.seen = "Complete"
      BY <3>2 DEF computePromotionPhase
    <3> QED
      BY <3>3 DEF CompleteIsEarned
  <2> QED
    BY <2>1, <2>2
<1> QED
  BY <1>1, <1>2, <1>3, <1>4 DEF CompleteIsEarned, SucceededWasCompleted

\* A run becomes Complete in handleProgressing alone.
LEMMA OthersEarned ==
    ASSUME TypeOK, CompleteIsEarned,
           \/ \E h \in Hashes : ReconcileRun(h) \/ syncRun(h) \/ editSpec(h)
           \/ toggleSuspended \/ syncPromotion
    PROVE  CompleteIsEarned'
<1>0. promo \in Promotion /\ run \in [Hashes -> Run] /\ runSeen \in [Hashes -> Run]
  BY DEF TypeOK
<1>1. job' = job /\ promo'.phase = promo.phase /\ completed \subseteq completed'
  BY <1>0 DEF ReconcileRun, BeginRun, handlePending, handleProgressing, syncRun, editSpec,
              toggleSuspended, syncPromotion, promoVars, runVars, Promotion
<1>2. ASSUME NEW h \in Hashes, run'[h].phase = "Complete"
      PROVE  h \in completed'
  <2>1. CASE run[h].phase = "Complete"
    BY <1>1, <2>1 DEF CompleteIsEarned
  <2>2. CASE run[h].phase # "Complete"
    <3>1. \E g \in Hashes : \/ handlePending(g)
                            \/ \E o \in {"Progressing", "Complete", "Failed"} :
                                  handleProgressing(g, o)
      BY <1>2, <2>2 DEF ReconcileRun, BeginRun, syncRun, editSpec, toggleSuspended,
                        syncPromotion, runVars
    <3>2. ASSUME NEW g \in Hashes, handlePending(g)
          PROVE  FALSE
      BY <1>0, <1>2, <2>2, <3>2 DEF handlePending, Run
    <3>3. ASSUME NEW g \in Hashes, NEW o \in {"Progressing", "Complete", "Failed"},
                 handleProgressing(g, o)
          PROVE  h \in completed'
      <4>1. g = h /\ o = "Complete"
        BY <1>0, <1>2, <2>2, <3>3 DEF handleProgressing, Run
      <4> QED
        BY <3>3, <4>1 DEF handleProgressing
    <3> QED
      BY <3>1, <3>2, <3>3
  <2> QED
    BY <2>1, <2>2
<1>3. ASSUME NEW h \in Hashes, runSeen'[h].phase = "Complete"
      PROVE  h \in completed'
  <2>1. runSeen'[h] \in {runSeen[h], run[h]}
    BY <1>0 DEF ReconcileRun, BeginRun, handlePending, handleProgressing, syncRun, editSpec,
                toggleSuspended, syncPromotion, runVars
  <2> QED
    BY <1>1, <1>3, <2>1 DEF CompleteIsEarned
<1> QED
  BY <1>1, <1>2, <1>3 DEF CompleteIsEarned, SucceededWasCompleted

LEMMA EarnedStep ==
    /\ Init => CompleteIsEarned
    /\ TypeOK /\ CompleteIsEarned /\ [Next]_vars => CompleteIsEarned'
<1>1. ASSUME Init
      PROVE  CompleteIsEarned
  <2>1. promo.phase = "" /\ job.seen = "none"
    BY <1>1 DEF Init, NewPromotion, IdleJob
  <2>2. \A h \in Hashes : run[h].phase = "none" /\ runSeen[h].phase = "none"
    BY <1>1 DEF Init, Absent
  <2> QED
    BY <2>1, <2>2 DEF CompleteIsEarned, SucceededWasCompleted
<1>2. ASSUME CompleteIsEarned, UNCHANGED vars
      PROVE  CompleteIsEarned'
  BY <1>2 DEF vars, CompleteIsEarned, SucceededWasCompleted
<1> QED
  BY <1>1, <1>2, PromotionEarned, OthersEarned DEF Next

\* A Promotion never reports Succeeded before an attempt has reached Complete,
\* whatever its cached copies show and whatever runs are superseded meanwhile.
THEOREM SucceededAlwaysCompleted == Spec => []SucceededWasCompleted
<1>1. CompleteIsEarned => SucceededWasCompleted
  BY DEF CompleteIsEarned
<1> QED
  BY <1>1, TypeStep, EarnedStep, PTL DEF Spec
=============================================================================

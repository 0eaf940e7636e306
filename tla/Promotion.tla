------------------------------ MODULE Promotion ------------------------------
(***************************************************************************)
(* The PromotionReconciler of internal/controller/promotion_controller.go: *)
(* it turns the intent of one Promotion into PromotionRun attempts, marks  *)
(* earlier attempts Superseded, propagates suspension and mirrors the      *)
(* attempt's phase; with the part of the PromotionRunReconciler that moves *)
(* the phase of a run and creates its targets, since the two controllers   *)
(* write the same PromotionRun objects without a lock.                     *)
(*                                                                         *)
(* A run is identified by the hash of the spec it was stamped for: its     *)
(* name is the Promotion's name and that hash (attemptName), so there is   *)
(* at most one per hash and the list's order by age does not matter.       *)
(* Reads come from informer caches (promoSeen, runSeen) that lag behind    *)
(* the objects.  Status writes are merge patches computed from the cached  *)
(* copy: a field is sent only if it differs from that copy, and what is    *)
(* sent overwrites whatever the object holds.  The targets of a run are    *)
(* one object here, read without a lag; Target has their life in full.     *)
(* status.activeAttemptRef and status.attempts follow the phase and are    *)
(* left out.                                                               *)
(***************************************************************************)
EXTENDS Naturals

CONSTANTS
    Hashes,      \* values of promotionSpecHash
    First,       \* the hash of the spec the Promotion is created with
    Budgets      \* bounds: how many edits of the spec, changes of spec.suspended,
                 \* and failed API calls or restarts a behaviour may have

Budget == [edit : Nat, toggle : Nat, failure : Nat]

ASSUME ConstantsAssumption ==
    /\ First \in Hashes
    /\ Budgets \subseteq Budget

VARIABLES
    promo,       \* the Promotion object
    promoSeen,   \* the cache's copy of it
    queued,      \* the Promotion's key is queued, or a timer will queue it
    job,         \* the Promotion reconcile in progress
    run,         \* the PromotionRun objects, by hash
    runSeen,     \* the cache's copy of them
    runJob,      \* the PromotionRun reconcile in progress
    target,      \* the targets of each run
    left,        \* how many of each kind of bounded event are still to come
    completed    \* history: hashes whose run has reached Complete

vars == <<promo, promoSeen, queued, job, run, runSeen, runJob, target,
          left, completed>>

promoVars == <<promo, promoSeen, queued, job>>
runVars   == <<run, runSeen, runJob, completed>>

-----------------------------------------------------------------------------
(* PromotionRunPhase, "none" when there is no such object.                 *)
RunPhase == {"none", "", "Progressing", "Complete", "Failed", "Superseded"}

IsTerminal(phase) == phase \in {"Complete", "Failed", "Superseded"}

\* An attempt that exists and is not over.
Live(r) == r.phase # "none" /\ ~IsTerminal(r.phase)

Run == [phase : RunPhase, suspended : BOOLEAN]

PromotionPhase == {"", "Pending", "Restarting", "Progressing", "Succeeded", "Failed", "Paused"}

Promotion == [hash : Hashes, suspended : BOOLEAN, phase : PromotionPhase]

\* "live": created and not cancelled.  "over": the run has come to its own end,
\* from where on its targets are not followed.
TargetState == {"none", "live", "cancelled", "over"}

Job == [pc : {"idle", "unresolved", "suspend", "supersede", "cancel", "mirror"},
        was   : PromotionPhase,          \* status.phase in the copy that was read
        todo  : SUBSET Hashes,           \* runs still to suspend or supersede
        hash  : Hashes,                  \* specHash, for the attempt to stamp
        at    : Hashes,                  \* the run whose targets are cancelled
        seen  : RunPhase,                \* phase of the attempt to mirror
        prior : BOOLEAN]                 \* priorTerminalExists

\* The handler a PromotionRun reconcile is in.
RunStep == {"idle", "start", "drive"}

Absent == [phase |-> "none", suspended |-> FALSE]

NewRun == [phase |-> "", suspended |-> FALSE]

NewPromotion == [hash |-> First, suspended |-> FALSE, phase |-> ""]

IdleJob == [pc |-> "idle", was |-> "", todo |-> {}, hash |-> First, at |-> First,
            seen |-> "none", prior |-> FALSE]

\* Every variable stays in its type.
TypeOK ==
    /\ promo \in Promotion /\ promoSeen \in Promotion
    /\ queued \in BOOLEAN
    /\ job \in Job
    /\ run \in [Hashes -> Run] /\ runSeen \in [Hashes -> Run]
    /\ runJob \in [Hashes -> RunStep]
    /\ target \in [Hashes -> TargetState]
    /\ left \in Budget
    /\ completed \in SUBSET Hashes

Init ==
    /\ promo = NewPromotion /\ promoSeen = NewPromotion
    /\ queued = TRUE
    /\ job = IdleJob
    /\ run = [h \in Hashes |-> Absent] /\ runSeen = [h \in Hashes |-> Absent]
    /\ runJob = [h \in Hashes |-> "idle"]
    /\ target = [h \in Hashes |-> "none"]
    /\ left \in Budgets
    /\ completed = {}

\* One of the bounded events happens.
Spend(kind) ==
    /\ left[kind] > 0
    /\ left' = [left EXCEPT ![kind] = @ - 1]

-----------------------------------------------------------------------------
(* The Promotion reconcile, one API write per step.                        *)

\* activeRun: the list holds a run stamped for this hash, in any phase.
HasAttempt(h) == runSeen[h].phase # "none"

\* Fault: only the attempt of the current spec is suspended.
SuspendCurrent ==
    {h \in {promoSeen.hash} : Live(runSeen[h]) /\ ~runSeen[h].suspended}

\* The owned runs suspendOwnedRuns does not skip.
ToSuspend == {h \in Hashes : Live(runSeen[h]) /\ ~runSeen[h].suspended}

\* The Promotion is read.
Read == [IdleJob EXCEPT !.was = promoSeen.phase]

\* The Fleet or the DeliveryUnit is missing, or they yield no run spec.
BeginUnresolved ==
    /\ job.pc = "idle" /\ queued /\ Spend("failure")
    /\ job' = [Read EXCEPT !.pc = "unresolved"]
    /\ queued' = FALSE
    /\ UNCHANGED <<promo, promoSeen, runVars, target>>

\* The references resolve, the owned runs are listed, and the way is chosen.
Begin ==
    /\ job.pc = "idle" /\ queued
    /\ LET h == promoSeen.hash
           listed == [Read EXCEPT !.prior = \E g \in Hashes : IsTerminal(runSeen[g].phase)]
       IN  \/ /\ promoSeen.suspended
              /\ job' = [Read EXCEPT !.pc = "suspend", !.todo = ToSuspend]
           \/ /\ ~promoSeen.suspended /\ HasAttempt(h)
              /\ job' = [listed EXCEPT !.pc = "mirror", !.seen = runSeen[h].phase]
           \/ /\ ~promoSeen.suspended /\ ~HasAttempt(h)
              /\ job' = [listed EXCEPT !.pc = "supersede", !.hash = h,
                                      !.todo = {g \in Hashes : Live(runSeen[g])}]
    /\ queued' = FALSE
    /\ UNCHANGED <<promo, promoSeen, runVars, target, left>>

\* suspendOwnedRuns, one run at a time.
suspendOwnedRuns(h) ==
    /\ job.pc = "suspend" /\ h \in job.todo
    /\ run' = [run EXCEPT ![h].suspended = TRUE]
    /\ job' = [job EXCEPT !.todo = @ \ {h}]
    /\ UNCHANGED <<promo, promoSeen, queued, runSeen, runJob, completed, target,
                   left>>

\* A merge patch of the status: only what differs from the copy is sent.
PatchStatus(phase) ==
    promo' = [promo EXCEPT !.phase = IF phase = job.was THEN @ ELSE phase]

\* requeueForPhase: steady phases are not polled again.
requeueForPhase(phase) == phase \notin {"Succeeded", "Failed", "Paused"}

\* patchStatus: Paused once the runs are suspended, Pending by patchUnresolved.
patchStatus(phase) ==
    /\ \/ job.pc = "suspend" /\ job.todo = {} /\ phase = "Paused"
       \/ job.pc = "unresolved" /\ phase = "Pending"
    /\ PatchStatus(phase)
    /\ queued' = (queued \/ requeueForPhase(phase))
    /\ job' = IdleJob
    /\ UNCHANGED <<promoSeen, runVars, target, left>>

\* supersedePrevious: the phase is overwritten with Superseded, then the
\* targets of that run are cancelled.
supersedePrevious(h) ==
    /\ job.pc = "supersede" /\ h \in job.todo
    /\ run' = [run EXCEPT ![h].phase = "Superseded"]
    /\ job' = [job EXCEPT !.pc = "cancel", !.at = h, !.todo = @ \ {h}]
    /\ UNCHANGED <<promo, promoSeen, queued, runSeen, runJob, completed, target,
                   left>>

\* cancelSupersededRunTargets: the targets that are there by now are patched.
cancelSupersededRunTargets ==
    /\ job.pc = "cancel"
    /\ target' = [target EXCEPT ![job.at] =
                    IF @ = "live" THEN "cancelled" ELSE @]
    /\ job' = [job EXCEPT !.pc = "supersede", !.at = First]
    /\ UNCHANGED <<promo, promoSeen, queued, runVars, left>>

\* stampAttempt: create the run; if its name is taken, fetch it from the
\* cache, and fail if the cache does not have it yet.
stampAttempt ==
    /\ job.pc = "supersede" /\ job.todo = {}
    /\ LET h == job.hash IN
       \/ /\ run[h].phase = "none"
          /\ run' = [run EXCEPT ![h] = NewRun]
          /\ job' = [job EXCEPT !.pc = "mirror", !.seen = "", !.hash = First]
          /\ UNCHANGED queued
       \/ /\ run[h].phase # "none" /\ runSeen[h].phase # "none"
          /\ job' = [job EXCEPT !.pc = "mirror", !.seen = runSeen[h].phase,
                                !.hash = First]
          /\ UNCHANGED <<run, queued>>
       \/ /\ run[h].phase # "none" /\ runSeen[h].phase = "none"
          /\ job' = IdleJob
          /\ queued' = TRUE
          /\ UNCHANGED run
    /\ UNCHANGED <<promo, promoSeen, runSeen, runJob, completed, target, left>>

\* Fault: no branch for a completed run, whose phase is passed on as it is.
PassOnComplete(phase, prior) ==
    CASE phase \in {"Complete", "Failed", "Progressing"} -> phase
      [] phase = "Superseded" -> "Pending"
      [] OTHER -> IF prior THEN "Restarting" ELSE "Pending"

\* Fault: every attempt that is over counts as a success.
OverIsSucceeded(phase, prior) ==
    CASE IsTerminal(phase) -> "Succeeded"
      [] phase = "Progressing" -> "Progressing"
      [] OTHER -> IF prior THEN "Restarting" ELSE "Pending"

\* computePromotionPhase
computePromotionPhase(phase, prior) ==
    CASE phase = "Complete" -> "Succeeded"
      [] phase = "Failed" -> "Failed"
      [] phase = "Progressing" -> "Progressing"
      [] phase = "Superseded" -> "Pending"
      [] OTHER -> IF prior THEN "Restarting" ELSE "Pending"

\* patchStatusFromRun
patchStatusFromRun ==
    /\ job.pc = "mirror"
    /\ LET phase == computePromotionPhase(job.seen, job.prior) IN
       /\ PatchStatus(phase)
       /\ queued' = (queued \/ requeueForPhase(phase))
    /\ job' = IdleJob
    /\ UNCHANGED <<promoSeen, runVars, target, left>>

\* Fault: the error is swallowed and the key is not queued again.
ForgetOnError ==
    /\ job.pc # "idle" /\ Spend("failure")
    /\ job' = IdleJob
    /\ UNCHANGED <<promo, promoSeen, queued, runVars, target>>

\* An API error at any write, or a restart: the key is queued again.
abandon ==
    /\ job.pc # "idle" /\ Spend("failure")
    /\ job' = IdleJob
    /\ queued' = TRUE
    /\ UNCHANGED <<promo, promoSeen, runVars, target>>

-----------------------------------------------------------------------------
(* The PromotionRun reconcile, as far as it moves the phase.  Its key is   *)
(* queued whenever the cached run has work: on creation and on a change of *)
(* suspended by its watch, after handlePending and while Progressing by a  *)
(* requeue.                                                                *)

\* A suspended run, and one in a phase without a handler, is left alone.
BeginRun(h) ==
    /\ runJob[h] = "idle"
    /\ ~runSeen[h].suspended
    /\ \/ runSeen[h].phase = "" /\ runJob' = [runJob EXCEPT ![h] = "start"]
       \/ runSeen[h].phase = "Progressing" /\ runJob' = [runJob EXCEPT ![h] = "drive"]
    /\ UNCHANGED <<promoVars, run, runSeen, completed, target, left>>

\* handlePending: the patch sets Progressing whatever the phase is by now.
handlePending(h) ==
    /\ runJob[h] = "start"
    /\ run' = [run EXCEPT ![h].phase = "Progressing"]
    /\ runJob' = [runJob EXCEPT ![h] = "idle"]
    /\ UNCHANGED <<promoVars, runSeen, completed, target, left>>

\* persistPromotionTargets creates targets that do not exist and patches away
\* a cancellation; then the phase is patched if it changes.
handleProgressing(h, outcome) ==
    /\ runJob[h] = "drive"
    /\ target' = [target EXCEPT ![h] =
                    IF outcome = "Progressing" /\ @ # "over" THEN "live" ELSE "over"]
    /\ run' = [run EXCEPT ![h].phase = IF outcome = "Progressing" THEN @ ELSE outcome]
    /\ completed' = IF outcome = "Complete" THEN completed \cup {h} ELSE completed
    /\ runJob' = [runJob EXCEPT ![h] = "idle"]
    /\ UNCHANGED <<promoVars, runSeen, left>>

-----------------------------------------------------------------------------
(* The user, and the watches.                                              *)

\* external: the user edits the spec.
editSpec(h) ==
    /\ h # promo.hash /\ Spend("edit")
    /\ promo' = [promo EXCEPT !.hash = h]
    /\ UNCHANGED <<promoSeen, queued, job, runVars, target>>

\* suspendResumeWithClient, and the same field of the parent Fleet.
toggleSuspended ==
    /\ Spend("toggle")
    /\ promo' = [promo EXCEPT !.suspended = ~@]
    /\ UNCHANGED <<promoSeen, queued, job, runVars, target>>

\* Fault: a GenerationChangedPredicate, so that status changes wake nobody.
WakeOnSpecChange ==
    /\ promoSeen # promo
    /\ promoSeen' = promo
    /\ queued' = (queued \/ promo.hash # promoSeen.hash \/ promo.suspended # promoSeen.suspended)
    /\ UNCHANGED <<promo, job, runVars, target, left>>

\* Every change of the Promotion wakes its reconciler.
syncPromotion ==
    /\ promoSeen # promo
    /\ promoSeen' = promo
    /\ queued' = TRUE
    /\ UNCHANGED <<promo, job, runVars, target, left>>

\* Every change of a run wakes the reconciler of its owner.
syncRun(h) ==
    /\ runSeen[h] # run[h]
    /\ runSeen' = [runSeen EXCEPT ![h] = run[h]]
    /\ queued' = TRUE
    /\ UNCHANGED <<promo, promoSeen, job, run, runJob, completed, target, left>>

-----------------------------------------------------------------------------
ReconcilePromotion ==
    \/ Begin
    \/ \E h \in Hashes : suspendOwnedRuns(h) \/ supersedePrevious(h)
    \/ \E phase \in {"Paused", "Pending"} : patchStatus(phase)
    \/ cancelSupersededRunTargets
    \/ stampAttempt
    \/ patchStatusFromRun

ReconcileRun(h) ==
    \/ BeginRun(h)
    \/ handlePending(h)
    \/ \E o \in {"Progressing", "Complete", "Failed"} : handleProgressing(h, o)

Next ==
    \/ ReconcilePromotion
    \/ BeginUnresolved
    \/ abandon
    \/ \E h \in Hashes : ReconcileRun(h) \/ syncRun(h) \/ editSpec(h)
    \/ toggleSuspended
    \/ syncPromotion

Spec == Init /\ [][Next]_vars

\* The workqueues and the informers are fair; edits, suspensions and failures
\* are bounded, so they stop.  Nothing is promised of what a run or a target
\* comes to.
Fairness ==
    /\ WF_vars(ReconcilePromotion)
    /\ WF_vars(syncPromotion)
    /\ \A h \in Hashes :
         /\ WF_vars(ReconcileRun(h))
         /\ WF_vars(syncRun(h))

FairSpec == Spec /\ Fairness

-----------------------------------------------------------------------------
(* Properties.                                                             *)

\* A Promotion that reports Succeeded has an attempt that reached Complete:
\* stale copies, merge patches and superseding never make it up.
SucceededWasCompleted == promo.phase = "Succeeded" => completed # {}

\* Edits, suspensions and failures are bounded, so each of the next three says
\* where a Promotion ends up once they are over.

\* Whatever the stale caches, errors and restarts were on the way, the spec the
\* Promotion ends up with has been stamped as an attempt, unless suspended.
LatestSpecStamped == <>[](~promo.suspended => run[promo.hash].phase # "none")

\* A Promotion that stays suspended suspends every attempt that is not over,
\* also one stamped by a reconcile that had read it before the suspension.
SuspendReachesRuns ==
    <>[](promo.suspended => \A h \in Hashes : Live(run[h]) => run[h].suspended)

\* The phase of the Promotion ends up being that of the current attempt, or
\* Paused: no merge patch against an old copy leaves a wrong phase for good.
StatusMirrors ==
    <>[](IF promo.suspended
         THEN promo.phase = "Paused"
         ELSE \E prior \in BOOLEAN :
                promo.phase = computePromotionPhase(run[promo.hash].phase, prior))

\* "the active PromotionRun's FSM picks back up where it paused" (suspend.go):
\* an attempt of a resumed Promotion does not stay suspended.
ResumeReachesRuns ==
    \A h \in Hashes :
        <>[](promo.hash = h /\ ~promo.suspended) => <>[](Live(run[h]) => ~run[h].suspended)
=============================================================================

------------------------------ MODULE Trigger -------------------------------
(***************************************************************************)
(* A Trigger watches an OCI repository and creates or updates one managed  *)
(* Promotion (trigger_controller.go).  Its reconciler works on cached      *)
(* copies of the Trigger, the Promotion and the runs; it is woken by their *)
(* changes and by the poll timer.  A cached copy is read in the step that  *)
(* uses it: an earlier read is a cache that lags.                          *)
(*                                                                         *)
(* The registry moves tags between digests at any time.  Points in time    *)
(* are ages: how long ago a stamp was written, counted up to Cooldown.     *)
(* The Promotion controller, which stamps the runs, is module Promotion;   *)
(* here it is two actions.                                                 *)
(***************************************************************************)
EXTENDS Naturals, FiniteSets

CONSTANTS
    Tags,       \* tags that match spec.source.oci.tagPattern
    Parsed,     \* of each tag its rank as a semantic version (0: none) and as text
    Digests,    \* contents of the repository
    Signed,     \* the digests that the Verifier accepts; none if none is configured
    None,       \* an empty field, an object that does not exist
    Cooldown,   \* spec.cooldown
    MaxEdits,   \* bound: changes by users and pushes to the repository
    MaxFaults   \* bound: failed calls

VARIABLES
    registry,   \* the digest of each tag, or None
    spec,       \* Trigger.spec: suspended, requireSignature, and the template by its hash
    status,     \* Trigger.status: age of lastTriggeredAt, blocked by a failed write
    tseen,      \* the cached Trigger
    promo,      \* the managed Promotion: version, template hash, age of its stamp; and
                \* (history) whether a signature was required when the version was found
    pseen,      \* the cached Promotion
    run,        \* the Promotion's runs: one is due, one is not over
    active,     \* cached number of runs that are not over
    job,        \* the reconcile in progress
    queued, timer, edits, faults

world == <<registry, spec, edits>>
trigger == <<status, tseen>>
promotion == <<promo, pseen>>
runs == <<run, active>>
wakeups == <<queued, timer>>
vars == <<world, trigger, promotion, runs, job, wakeups, faults>>

-----------------------------------------------------------------------------
Optional(S) == S \cup {None}
Ages == 0..Cooldown
Templates == {1, 2}
Version == Digests \cup Tags
TriggerSpec == [suspended : BOOLEAN, required : BOOLEAN, template : Templates]
TriggerStatus == [last : Optional(Ages), failed : BOOLEAN]
Promotion == [version : Version, template : Templates, at : Ages, required : BOOLEAN]
Run == [due : BOOLEAN, live : BOOLEAN]
Job == [pc      : {"idle", "upsert", "refetch", "patch"},
        version : Optional(Version),  \* the artifact found
        required : BOOLEAN,           \* a signature was required of it
        stamped : Optional(Ages),     \* age of a write of the Promotion
        blocked : BOOLEAN,            \* that write failed
        requeue : BOOLEAN]            \* RequeueAfter is set
Idle == [pc |-> "idle", version |-> None, required |-> FALSE, stamped |-> None, blocked |-> FALSE,
         requeue |-> FALSE]
ToPatch == [Idle EXCEPT !.pc = "patch"]

TypeOK ==
    /\ registry \in [Tags -> Optional(Digests)]
    /\ spec \in TriggerSpec /\ status \in TriggerStatus
    /\ tseen \in [spec : TriggerSpec, status : TriggerStatus]
    /\ promo \in Optional(Promotion) /\ pseen \in Optional(Promotion)
    /\ run \in Run /\ active \in 0..1
    /\ job \in Job /\ queued \in BOOLEAN /\ timer \in BOOLEAN
    /\ edits \in 0..MaxEdits /\ faults \in 0..MaxFaults

Init ==
    /\ registry \in {[t \in Tags |-> d] : d \in Optional(Digests)}
    /\ spec \in [suspended : {FALSE}, required : BOOLEAN, template : {1}]
    /\ status = [last |-> None, failed |-> FALSE]
    /\ tseen = [spec |-> spec, status |-> status]
    /\ promo = None /\ pseen = None /\ active = 0
    /\ run = [due |-> FALSE, live |-> FALSE]
    /\ job = Idle /\ queued = TRUE /\ timer = FALSE
    /\ edits = 0 /\ faults = 0

Fault ==
    /\ faults < MaxFaults
    /\ faults' = faults + 1

Edit ==
    /\ edits < MaxEdits
    /\ edits' = edits + 1

-----------------------------------------------------------------------------
(* The reconciler.                                                         *)

\* Semantic versions sort after everything else, and among themselves by
\* precedence; other tags sort as text.
promotionTriggerTagLess(left, right) ==
    LET l == Parsed[left]  r == Parsed[right]
    IN  IF l.sem # 0 /\ r.sem # 0 THEN l.sem < r.sem
        ELSE IF l.sem = 0 /\ r.sem = 0 THEN l.name < r.name
        ELSE r.sem # 0

Pushed == {t \in Tags : registry[t] # None}
Greatest == {t \in Pushed : \A u \in Pushed : ~promotionTriggerTagLess(t, u)}

\* Fault: the version names the tag, which may be moved.
TagVersion(tag, digest) == tag

\* The version that is promoted names the content, not the tag.
artifactVersion(tag, digest) == digest

\* A suspended Trigger is not polled.
suspended ==
    /\ job.pc = "idle" /\ queued
    /\ tseen.spec.suspended
    /\ job' = ToPatch /\ queued' = FALSE
    /\ UNCHANGED <<world, trigger, promotion, runs, timer, faults>>

\* The greatest matching tag is resolved to its digest, and the digest is
\* verified if the Trigger requires a signature.  Whatever keeps the artifact
\* from being used is recorded in the status and polled again.
Resolve ==
    /\ job.pc = "idle" /\ queued
    /\ ~tseen.spec.suspended
    /\ \/ \E t \in Greatest :
            /\ job' = IF tseen.spec.required => registry[t] \in Signed
                      THEN [Idle EXCEPT !.pc = "upsert", !.version = artifactVersion(t, registry[t]),
                                        !.required = tseen.spec.required]
                      ELSE [ToPatch EXCEPT !.requeue = TRUE]
            /\ UNCHANGED faults
       \/ Pushed = {} /\ job' = [ToPatch EXCEPT !.requeue = TRUE] /\ UNCHANGED faults
       \/ Fault /\ job' = [ToPatch EXCEPT !.requeue = TRUE]
    /\ queued' = FALSE
    /\ UNCHANGED <<world, trigger, promotion, runs, timer>>

\* The cooldown counts from the later of status.lastTriggeredAt and the stamp
\* on the cached Promotion.
cooldownRemaining ==
    \/ tseen.status.last # None /\ tseen.status.last < Cooldown
    \/ pseen # None /\ pseen.at < Cooldown

AlreadyReleased ==
    /\ pseen # None
    /\ pseen.version = job.version
    /\ pseen.template = tseen.spec.template

Held ==
    \/ AlreadyReleased
    \/ cooldownRemaining
    \/ active >= 1          \* spec.maxActive

\* Nothing to write, or not now.
skipUpsert ==
    /\ job.pc = "upsert" /\ Held
    /\ job' = [ToPatch EXCEPT !.requeue = TRUE]
    /\ UNCHANGED <<world, trigger, promotion, runs, wakeups, faults>>

\* A merge patch of what differs from the cached Promotion; the stamp does.
applyTriggerToPromotion(stamp) ==
    /\ pseen # None /\ promo # None
    /\ LET written == job.version # pseen.version
       IN  promo' = [version  |-> IF written THEN job.version ELSE promo.version,
                     required |-> IF written THEN job.required ELSE promo.required,
                     template |-> IF tseen.spec.template # pseen.template
                                  THEN tseen.spec.template ELSE promo.template,
                     at       |-> stamp]

\* The Promotion is written.
Upserted(stamp) ==
    /\ run' = [run EXCEPT !.due = @ \/ promo = None \/ promo'.version # promo.version]
    /\ job' = [ToPatch EXCEPT !.stamped = stamp, !.requeue = TRUE]
    /\ UNCHANGED <<queued, faults>>

\* The write fails, also because the Promotion has been deleted.  That is
\* recorded in the status and not polled again.
failUpsert ==
    /\ \/ pseen # None /\ promo = None /\ UNCHANGED faults
       \/ Fault
    /\ job' = [ToPatch EXCEPT !.blocked = TRUE]
    /\ UNCHANGED <<promo, run, queued>>

\* The Promotion is patched if the cache shows one, or created.  If it turns
\* out to exist, it is read again.
upsert ==
    /\ job.pc = "upsert" /\ ~Held
    /\ \/ /\ pseen = None /\ promo = None
          /\ promo' = [version |-> job.version, required |-> job.required,
                       template |-> tseen.spec.template, at |-> 0]
          /\ Upserted(0)
       \/ applyTriggerToPromotion(0) /\ Upserted(0)
       \/ /\ pseen = None /\ promo # None
          /\ job' = [job EXCEPT !.pc = "refetch", !.stamped = 0]
          /\ UNCHANGED <<promo, run, queued, faults>>
       \/ failUpsert
    /\ UNCHANGED <<world, trigger, pseen, active, timer>>

\* What exists is patched, without another look at what is held back; if the
\* cache does not show it yet, the reconcile is repeated.
refetch ==
    /\ job.pc = "refetch"
    /\ \/ applyTriggerToPromotion(job.stamped) /\ Upserted(job.stamped)
       \/ /\ pseen = None
          /\ job' = Idle /\ queued' = TRUE
          /\ UNCHANGED <<promo, run, faults>>
       \/ failUpsert
    /\ UNCHANGED <<world, trigger, pseen, active, timer>>

\* The status is patched with what differs from the copy read.  lastCheckedAt
\* counts whole seconds: it changes, which wakes the reconciler, or it does
\* not.  The timer of an earlier reconcile stays armed.
patchStatus ==
    /\ job.pc = "patch"
    /\ \E again \in BOOLEAN :
        /\ status' = [last   |-> IF job.stamped # None THEN job.stamped ELSE status.last,
                      failed |-> IF job.blocked # tseen.status.failed THEN job.blocked ELSE status.failed]
        /\ queued' = (queued \/ again)
    /\ timer' = (timer \/ job.requeue)
    /\ job' = Idle
    /\ UNCHANGED <<world, tseen, promotion, runs, faults>>

\* The patch fails, or the operator restarts: the reconcile is repeated.
failPatch ==
    /\ job.pc = "patch" /\ Fault
    /\ job' = Idle /\ queued' = TRUE
    /\ UNCHANGED <<world, trigger, promotion, runs, timer>>

-----------------------------------------------------------------------------
(* What wakes it.                                                          *)

poll ==
    /\ timer /\ timer' = FALSE /\ queued' = TRUE
    /\ UNCHANGED <<world, trigger, promotion, runs, job, faults>>

syncTrigger ==
    /\ tseen # [spec |-> spec, status |-> status]
    /\ tseen' = [spec |-> spec, status |-> status] /\ queued' = TRUE
    /\ UNCHANGED <<world, status, promotion, runs, job, timer, faults>>

syncPromotion ==
    /\ pseen # promo
    /\ pseen' = promo /\ queued' = TRUE
    /\ UNCHANGED <<world, trigger, promo, runs, job, timer, faults>>

syncRuns ==
    LET n == IF run.live THEN 1 ELSE 0
    IN  /\ active # n /\ active' = n
        /\ UNCHANGED <<world, trigger, promotion, run, job, wakeups, faults>>

Older(age) == IF age = None \/ age = Cooldown THEN age ELSE age + 1
Aged(p) == IF p = None THEN None ELSE [p EXCEPT !.at = Older(@)]

tick ==
    /\ status' = [status EXCEPT !.last = Older(@)]
    /\ tseen' = [tseen EXCEPT !.status.last = Older(@)]
    /\ promo' = Aged(promo) /\ pseen' = Aged(pseen)
    /\ job' = [job EXCEPT !.stamped = Older(@)]
    /\ UNCHANGED <<world, runs, wakeups, faults>>

-----------------------------------------------------------------------------
(* The others.                                                             *)

push(t) ==
    /\ Edit
    /\ \E d \in Digests : registry[t] # d /\ registry' = [registry EXCEPT ![t] = d]
    /\ UNCHANGED <<spec, trigger, promotion, runs, job, wakeups, faults>>

editTrigger ==
    /\ Edit
    /\ spec' \in {[spec EXCEPT !.suspended = ~@], [spec EXCEPT !.required = ~@],
                  [spec EXCEPT !.template = 3 - @]}
    /\ UNCHANGED <<registry, trigger, promotion, runs, job, wakeups, faults>>

deletePromotion ==
    /\ Edit /\ promo # None
    /\ promo' = None /\ run' = [due |-> FALSE, live |-> FALSE]
    /\ UNCHANGED <<registry, spec, trigger, pseen, active, job, wakeups, faults>>

\* The Promotion controller stamps a run for a new version, over the old one.
stampRun ==
    /\ run.due
    /\ run' = [due |-> FALSE, live |-> TRUE]
    /\ UNCHANGED <<world, trigger, promotion, active, job, wakeups, faults>>

endRun ==
    /\ run.live
    /\ run' = [run EXCEPT !.live = FALSE]
    /\ UNCHANGED <<world, trigger, promotion, active, job, wakeups, faults>>

Reconcile == suspended \/ Resolve \/ skipUpsert \/ upsert \/ refetch \/ patchStatus
Wakeup == poll \/ syncTrigger \/ syncPromotion \/ syncRuns

Next ==
    \/ Reconcile \/ failPatch
    \/ Wakeup \/ tick
    \/ \E t \in Tags : push(t)
    \/ editTrigger \/ deletePromotion
    \/ stampRun \/ endRun

Spec == Init /\ [][Next]_vars

-----------------------------------------------------------------------------
(* Properties.                                                             *)

\* What the managed Promotion rolls out has been verified if the Trigger required
\* a signature when it found it, even if its tag is moved to another content
\* afterwards (Resolve, artifactVersion).
PromotedIsVerified ==
    promo # None /\ promo.required =>
        (IF promo.version \in Tags THEN registry[promo.version] ELSE promo.version) \in Signed

\* Once the cache shows the last update of the Promotion, the next one is at
\* least the cooldown later, even if the status patch that records the update
\* was lost (cooldownRemaining, lastTriggerPromotionCreatedAt).  Only a
\* reconcile that meant to create the Promotion and found that it exists does
\* not look at the cooldown again (refetch).
PromotionIsSpaced ==
    promo # None /\ promo' # None /\ promo'.version # promo.version =>
        promo.at >= Cooldown \/ pseen # promo \/ job.pc = "refetch"

\* If the repository settles with the greatest tag at an artifact that is signed,
\* or need not be, and the Trigger is left active, the managed Promotion ends up
\* with it, unless the Trigger reports that its last write of the Promotion
\* failed.
Releasable(d) ==
    /\ ~spec.suspended /\ (spec.required => d \in Signed)
    /\ \E t \in Greatest : registry[t] = d /\ Greatest = {t}

LatestIsPromoted ==
    \A d \in Digests :
        <>[]Releasable(d) => <>[](status.failed \/ (promo # None /\ promo.version = d))
=============================================================================

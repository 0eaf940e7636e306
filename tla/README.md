# Kapro: a TLA+ model of its promotion controllers

Kapro is a Kubernetes operator that rolls a version out over a fleet of
clusters. A user declares a *Promotion*; a controller stamps a *PromotionRun* for
each value of its spec; the run walks a plan of stages and creates one *Target*
per cluster; each target passes its gates (verification, health, soak, metrics,
approval), claims its cluster, calls an actuator and waits for convergence.

Everything is kept in API objects that several reconcilers, a webhook and a CLI
write at the same time. Reads come from informer caches that lag behind; some
writes are optimistic updates, most are merge patches that are not conditional
on anything; a reconcile may end anywhere by an error, a conflict or a restart.
That is what this project models: which orders of those reads and writes the
code admits, and what stays true in all of them.

## Inventory

| Component (source) | State | Operations | Interacts by |
|---|---|---|---|
| Promotion intent (`internal/controller/promotion_controller.go`) | `Promotion.status`, the attempts it owns | stamp an attempt per spec hash, supersede, suspend, mirror status | creates and patches PromotionRuns, cancels Targets, publishes phases; woken by Promotion, PromotionRun, Fleet, DeliveryUnit |
| PromotionRun orchestrator (`promotionrun_controller.go`, `promotionrun_targets.go`) | run phase, plan and stage progress | start, drive plans and stages, time out, fail, skip, roll back, delete | creates and patches Targets, clears cluster claims, calls the planner; woken by Targets, Clusters, Approvals |
| Planner (`pkg/planner`) | registered plugins | filter, score, sort, admit | called by the orchestrator |
| Target state machine (`target_controller.go`, `target_fsm.go`, `heartbeat.go`) | phase, `applyIssued`, missing count, gate status, rejection | one handler per phase, cancellation, write-back, notification | calls gates and actuators, claims the cluster |
| Gates (`internal/gate`) | results and attempts of templates, Jobs, samples | evaluate | called by the target state machine |
| Cluster claim (`Cluster.status.activePromotionRun`) | one run name per cluster | claim, clear | merge patches by targets, runs and the Promotion controller |
| Approval links and decision API (`internal/webhook`) | redeemed link, Approval, rejection, agent slots | approve, reject, decide, override, list | creates Approvals, patches Targets and Policies |
| Actuators and providers (`internal/actuator`, `internal/delivery`, `internal/spokeprovider`) | desired version, Deployments, Applications, ResourceSets, objects on the spoke | apply, ask for convergence, commit | called by targets or by the spoke's loop |
| Spoke (`cmd/kapro-cluster-controller`) | certificate, lease, tick in progress | bootstrap, renew, heartbeat, deliver, report | reads and patches its Cluster on the hub |
| Cluster bootstrap, heartbeat, Fleet, ClusterTemplate (`internal/controller`) | slot, token, role; count of misses; inventory | bind and approve requests; judge leases; create, bootstrap and delete clusters | three writers of one list of conditions |
| Trigger, DeliveryUnit, Plugin, Substrate controllers | cooldown, derived objects, adapters, discovery | poll and promote; derive and prune; load and unload; discover | create Promotions, Sources, Triggers; serve gates, planner and actuators |
| Lifecycle, notifications, traces, archive, retention, listings | results of handlers, records | publish, tell, sign, archive, prune, list | called after writes; nothing of a rollout reads them back |

What is hard in this code: a reconcile works on a copy that others outdate;
merge patches overwrite what they have not seen; a side effect happens before
the status that records it is written; a wakeup is lost when a watch predicate
filters the event or a return asks for no requeue; two controllers write the same
object; cancellation is a flag one controller sets and another may unset; a retry
repeats what was already done. `PROJECT.json` lists each of these at its line
under `hazards`.

What makes the components correct: nothing reaches a cluster around a gate or a
veto; a persisted phase never moves back; nothing that has work left is
forgotten; a stage starts only when what it depends on has succeeded, and a run
ends for a reason; what is reported as delivered was on the cluster; a slot is
good for one certificate; an outage is found out; what is derived follows what it
is derived from; what is recorded is true and kept.

## Modules

| Module | Models | Checked by |
|---|---|---|
| `Target` | the target state machine and every writer of its object | `MCTarget` |
| `TargetLife`, `TargetRefinement` | what a parent relies on of a child; that `Target` implements it | `MCTargetRefinement` |
| `Promotion` | the Promotion controller, and the phase writes of the run controller | `MCPromotion` |
| `PromotionRun` | the orchestrator over children that live by `TargetLife` | `MCPromotionRun` |
| `Delivery` | claims, the pull actuator, the spoke's pass and its report, two runs on one cluster | `MCDelivery` |
| `Decision`, `AgentPolicy`, `Gate`, `MetricsGate`, `Notification`, `Trace`, `Lifecycle` | what lets a target through and who hears of it | `MCApproval` |
| `Bootstrap`, `Heartbeat` | registration and reachability of a spoke | `MCClusters` (`MCClusters.cfg`) |
| `Fleet`, `ResourceSet`, `SpokeLoop`, `Push` | the clusters of a fleet and delivery to them | `MCClusters` (`Spokes.cfg`) |
| `Trigger`, `DeliveryUnit`, `Plugin`, `Substrate`, `Planner`, `Retention`, `Archive`, `Listing` | the controllers around a rollout | `MCPlatform` |
| `TargetProofs` | theorems about `Target`, and that it implements `TargetLife` | TLAPS |
| `PromotionProofs`, `PromotionRunProofs`, `DeliveryProofs` | theorems about `Promotion`, `PromotionRun`, `Delivery` | TLAPS |
| `DecisionProofs`, `AgentPolicyProofs`, `GateProofs` | theorems about `Decision`, `AgentPolicy`, `Gate` | TLAPS |
| `SurroundingsProofs` | theorems about `Trigger`, `Heartbeat`, `Bootstrap`, `Trace`, `Lifecycle`, `Archive`, `Notification`, `Push`, `MetricsGate`, `Listing`, `Retention`, `Planner` | TLAPS |

The modules of the last three groups share no state with each other. The MC
module instantiates them side by side, and a behaviour is one of any of them: the
variable `part` says of which, the others stay as they begin. A property of the
MC module is the conjunction of the modules' own; its temporal parts carry
`Runs(p)`, that the behaviour is one of part `p`.

### Target

`obj` is the Target in the API server, `cache` what the informer shows of it,
`job` the reconcile in progress with its private copy. A reconcile is cut at the
reads and writes of shared objects: the read (`ReconcileTerminal`,
`ReconcileSuspended`, `ReconcileCancelled`, `ReconcileFSM`), one step per phase
handler on the private copy, the claim of the cluster (`claimCluster`), the call
of the actuator (`issueApply`), the poll (`pollConvergence`), and the write-back
(`writeStatus`, `writeCancelled`) or its failure (`abandon`: a conflict, an API
error or a restart). `Advance` and `Persist` are the two ways
`advanceTargetUntilStable` goes on after a handler: entering Applying always
ends the reconcile so that it is persisted before the side effects.

Resource versions are abstracted to two flags: `lag[t]` (the cache is older than
the object, and whether the event on its way passes `promotionTargetPredicates`)
and `job[t].behind` (the copy is older than the object). An optimistic update
succeeds iff the copy is not behind. Time is a nondeterministic answer of the
soak and timeout checks, and so are the cluster's and the gates' answers.
The parent's writes (`cancelTarget`, `markSkipped`, `persistTarget`,
`clearActivePromotionRun`), the webhook's (`approve`, `reject`) and the
suspension of the run are actions guarded by what their code tests on the cached
object. The operator is assumed to have an actuator registry, as the server sets
one up; without it handleApplying observes convergence and never applies.
Metric gates and templates give one answer together (`Gate` has them one by one);
a failed template stays failed, as in `evaluateGateTemplates`.

### Promotion

One Promotion, whose spec is its hash. A run is named after the hash
(`attemptName`), so `run` is a function of hashes. A Promotion reconcile does one
API write per step: suspend each run, supersede each run and cancel its targets,
stamp, patch the status. `PatchStatus` is a merge patch: a phase equal to the one
in the copy is not sent. The PromotionRun controller appears as far as it writes
what this controller reads: `handlePending` overwrites the phase with
Progressing, `handleProgressing` persists targets and may overwrite it with
Complete or Failed. A run's targets are one object. `BeginUnresolved` is every
way to `patchUnresolved`. Deletion, `status.attempts` and conditions are left out.

### TargetLife and PromotionRun

A child is `none`, `waiting`, `applying` or ended; it may start, finish, give up,
or follow a cancellation that some write of its parent has asked for (`Flip`).
`TargetRefinement` maps the phases of `Target` to these and remembers in the
history variable `asked` which cancellations have been requested; TLC checks that
every step of `Target` is a step of `TargetLife` or a stutter. `PromotionRun`
instantiates the same module as its children, so what it relies on is what
`Target` does.

A reconcile of a run reads the run and the children from caches that lag
(`runSeen`, `seen`), computes what is wanted of every stage (`handleProgressing`
with `stageDependencySatisfied`, `applyStageStrategy`, `StagesPhase`), and then
writes in the code's order: cancel, skip, persist, halt, patch. It may be
abandoned between any two of them, with some of the children of that step
written. `succeeded`, `absent`, `soaked` and `troubled` are history that the
properties compare with.

### Delivery

A target's reconcile is cut at the read of the cached Cluster, the claim, the
patch of the desired version and the poll; a run's end at each cluster it clears;
the spoke's tick at its read, each object of the commit and the report. Every
write is a merge patch. `committed` is history: the versions that all objects
have had at once.

### The other modules

Each begins with a comment that says which code it models and what it leaves to
its neighbours. They are cut in the same way: one step per API call, copies from
caches that a `sync...` action brings up to date, a `fail...` action for errors
and restarts, and external actors as inputs.

## Runs

| Run | Shows |
|---|---|
| `target` | one target with all gates and all other writers, also when its run is suspended and resumed: no gate is bypassed, a veto wins, what converged was applied, phases move forward |
| `target_live` | without a resume no target with work left is forgotten; after the environment settles the target ends, or waits for what only an operator can give; and `Target` implements `TargetLife` |
| `promotion` | with an edit and a failure or a suspension anywhere: the last spec is stamped, the status mirrors the attempt, a suspension reaches every attempt, Succeeded was completed |
| `promotionrun` | order of stages, MaxParallel, and that completion, failure and rollback are earned, over stale lists of children |
| `promotionrun_live` | every run ends |
| `delivery` | nothing is reported or converged that was not committed; the spoke ends with what was asked for last |
| `approval` | links decide once and in the end; agents whose Policies could be listed stay within their limits; gates and metrics decide as they should, but for a gate that answers with a phase the controller does not know; people, traces and handlers are told |
| `clusters` | one certificate per slot, in the end, with nothing left behind; outages and recoveries are found out, and not too early |
| `spokes` | clusters, Secrets, values and versions follow the fleet; an app that fails does not hold up another, one that hangs not those before it; pushed targets end on what runs |
| `platform` | triggers that require a signature promote what is verified, and all do it spaced (but for an upsert that meets an existing Promotion) and in the end the latest; derived objects follow; stages are planned by the plugins that were asked; records are kept, among them the newest attempts (but for those revived or mistaken for another) |

Two runs show where the code departs from what its comments say (`findings` in
`PROJECT.json` has the quotations): `promotion_resume` (a resumed Promotion leaves
its attempt suspended, since nothing clears the run's `spec.suspended`) and
`resourceset_forced` (the Fleet applies its ResourceSet by force with the Source's
version, over the version that was promoted).

### Bounds

Target: one target, cluster and run. Nothing in `Target` relates two targets but
the claim, and the theorems hold for any number; the run exists to check the
invariants, the fault operators and the wakeups. `MissingLimit` 2 makes the
counter both count and reach its threshold; `MaxApplies` counts calls up to 1.
`SharedTargets` and `ResumedRuns` switch the other writers and the resume on:
the run `target` resumes, `target_live` does not, since a target skipped while its
run is suspended is forgotten when it is resumed (see Known departures).
Promotion: two hashes, so that a spec can change; `Budgets` is the set of bounds
on edits, suspensions, and errors or restarts, of which a behaviour has one.
PromotionRun: two plans of three stages over two clusters, so that every kind of
dependency, each failure policy and an admission limit below the number of
clusters occur; one fault, none in the liveness run. Delivery: two runs, versions
and objects, one fault: a claim can be contended, a commit can be half done, a
report can be lost. In the other modules one or two of everything, and one or two
faults or edits; the comments in the MC modules say why. Retention numbers attempts in
the order `selectVictims` sorts them, by the second of their creation and then by
name, so an attempt may be stamped after one with a greater number (up to
`MaxLag`); three attempts under a cap and a floor of 1 make a victim chosen from a
stale list, a name given again and, with `MaxRevived` 1, a Superseded attempt that
goes on. Deletes fail any number of times. A Trigger requires a signature or not;
with its other repositories the choice is made at the start. The classes of
Substrates have a default mode or none (`ClassModes`). Plugins have two keys, so an
edit can leave an adapter under the earlier one. Deadlock is not checked:
a target that has ended, a suspended run and a settled derivation have nothing
left to do.

### Fairness

A workqueue hands out every queued key, a reconcile that has begun goes on,
informers deliver, and loops tick: weak fairness of those steps. `Target!Fairness`
adds that the environment settles at some unknown time: other writers fall silent,
calls stop failing, clusters and gates answer well. `PromotionRun!Fairness` has
strong fairness of a child's obedience to a cancellation: the child's reconcile
follows the event at once, the parent's requeue, which may withdraw it, comes
after `requeueNormal`. Elsewhere the bounded faults and edits stop by their
bounds. Nothing is assumed of users, registries, plugins and clusters except where
the comment at the fairness of an MC module says so.

## Proofs

All theorems hold for every value of the constants that satisfies the named
assumption of the module, or, where the module is instantiated by an MC module
and so assumes nothing itself, the operator of that purpose in the proof module
(`LimitsAssumption`, `DecisionAssumption`, `TemplatesAssumption`: numbers are
numbers, finite sets are finite, `None` is not one of the values it stands beside;
`TriggerAssumption` also says that what is signed is a digest and no tag is one,
`ArchiveAssumption` that the sinks are among the two there are,
`ListingAssumption` that a request names a resource once and names are numbered
from 1, `MetricAssumption` that the metrics are among those the modes allow and a
window takes a sample, `PlannerAssumption` that clusters, which are sorted by
name where they are equal, are numbers).
The faults of a module are among its actions, any number of them.

| Module | Theorem | States |
|---|---|---|
| `TargetProofs` | `TypeCorrect` | `Spec => []TypeOK` |
| | `GatesAlwaysBeforeApply` | `Spec => []GatesBeforeApply` |
| | `VetoAlwaysWins` | `Spec => []VetoWins` |
| | `ConvergedAlwaysApplied` | `Spec => []ConvergedWasApplied` |
| | `PhaseAlwaysForward` | `Spec => PhaseMovesForward`, an action property |
| | `NeverForgotten` | `Spec => []NoLostWakeup`, if no run is resumed |
| | `TargetImplementsLife` | `HSpec => ImplementsLife`, the refinement |
| `PromotionProofs` | `PromotionTypeCorrect` | `Spec => []TypeOK` |
| | `SucceededAlwaysCompleted` | `Spec => []SucceededWasCompleted` |
| `PromotionRunProofs` | `PromotionRunTypeCorrect` | `Spec => []TypeOK` |
| | `FailureAlwaysForReason` | `Spec => [](FailedForReason /\ RollbackOfDelivered)` |
| | `StagesInOrder` | `Spec => [](RollbacksStandAlone => StageOrder /\ CompleteMeansDone)` |
| | `OutcomeAlwaysEarned` | `Spec => [](StageOrder /\ OutcomeIsEarned)`, if a stage that rolls back, and those before it in its plan, have one cluster each |
| | `ParallelAlwaysBounded` | `Spec => []ParallelBound` |
| `DeliveryProofs` | `DeliveryTypeCorrect` | `Spec => []TypeOK` |
| | `DeliveryAlwaysHonest` | `Spec => []DeliveryIsHonest` |
| `AgentPolicyProofs` | `AgentPolicyTypeCorrect` | `Spec => [](TypeOK /\ Working)` |
| | `SlotsAlwaysCovered` | `Spec => []SlotsCovered` |
| | `DailyCapKept` | `Spec => []DailyCap`, if there is a cooldown |
| | `AgentsStayWithinLimits` | `Spec => []AgentLimits`, if there is a cooldown |
| `DecisionProofs` | `DecisionTypeCorrect` | `Spec => [](TypeOK /\ Decided)` |
| | `OnlyOneLinkTakesEffect` | `Spec => []OneLinkTakesEffect` |
| `GateProofs` | `GateTypeCorrect` | `Spec => [](TypeOK /\ StatusInv)` |
| | `GatesAreEarned` | `Spec => []AdvanceIsEarned /\ [][VerdictKept]_vars` |
| `SurroundingsProofs` | `TriggersPromoteTheVerified` | `Spec => []PromotedIsVerified /\ [][PromotionIsSpaced]_vars` of `Trigger` |
| | `UnreachableIsEarned` | `Spec => []UnreachableEarned` of `Heartbeat` |
| | `SlotIsGoodForOneCertificate` | `Spec => [](OneBootstrap /\ ApprovedIsBound /\ CleanedUp)` of `Bootstrap` |
| | `SignaturesMatch` | `Spec => []SignatureMatches` of `Trace` |
| | `HandlersRunOneAtATime` | `Spec => []OneInvocationAtATime` of `Lifecycle` |
| | `DeliveredEventsAreArchived` | `Spec => []DeliveredIsArchived` of `Archive` |
| | `PeopleAreToldOnce` | `Spec => []ToldOnceAndTrue` of `Notification` |
| | `ConvergedIsWhatRuns` | `Spec => []DirectIsRunning` of `Push` |
| | `BetterValuesPass` | `Spec => []BetterNeverBlocks` of `MetricsGate` |
| | `AnswersAreHonest` | `Spec => []AnswerIsHonest` of `Listing` |
| | `UnanimousSamplesDecide` | `Spec => []SamplesDecide` of `MetricsGate` |
| | `NewestAttemptsStay` | `Spec => []FloorKept` of `Retention` |
| | `PlansAreAgreed` | `Spec => []PlanIsAgreed` of `Planner` |

### Target

`TypeOK` is not inductive: that the missing count stays within its bound needs
that a status at the threshold is terminal, and that a reconcile that still
evaluates handlers works on a live status (`TypeInv`). The safety properties
relate three copies of a target, so their invariant `SafeInv` does too:
a copy that is not behind equals the object (`JobSafe`); whichever copy has
reached a phase, the gates before that phase have passed (`GateSafe`); whichever
copy says applyIssued or is past it, Apply was called (`ApplySafe`); cache and
copy are never ahead of the object, except for a copy that is about to be written
(`OrderSafe`); a reconcile has side effects only if Applying was persisted
(`EntrySafe`); and a vetoed object is neither Applying nor Converged, while every
copy that does not show the veto is behind (`VetoSafe`), which is why its
write-back fails. `HandlerEffect` states once what any handler may do to the
copy, so each part of `SafeInv` is proved over that effect instead of over every
handler. TLC checks `TypeInv /\ SafeInv` on the instance of `target` too.

`CancelInv` adds where a cancellation stands: one that the cache does not show
yet is on its way with an event that wakes the reconciler, and a reconcile of the
state machine whose copy is current works on an object that is not cancelled.
`WakeInv` then says of every target that it is queued, in a reconcile, due, about
to be woken, or at rest; it holds as long as no run is resumed. For the
refinement, `AskedInv` says that every cancellation the object carries, the cache
shows or a reconcile obeys is in the history `asked`; each kind of step is then a
step of `TargetLife` or a stutter (`LifeStep`).

### Promotion, PromotionRun and Delivery

`SucceededWasCompleted` needs that whoever has seen a run Complete, the cache or
the reconcile in progress, has seen what happened (`CompleteIsEarned`).
`DeliveryIsHonest` needs that every copy of `currentVersions` names a version all
objects have had (`CopiesAreHonest`), and that the objects a pass is done with run
its version as long as nothing has failed (`PassIsHonest`).

In `PromotionRun` everything is decided from the cached list of children, so the
first invariant is what that list can be relied on for (`CacheInv`): what it shows
to exist exists, what it shows to have ended has ended, a good end was reached,
and a failure stays where failures are not skipped. `EndInv` says that whichever
copy of the status says Failed, there is a reason that lasts, and that a rollback
target belongs to a target that was delivered and to a stage that a failed one
rolls back. `OrderInv` says that whichever copy
says Complete of a plan or the run, its stages are done, and that what a stage
with a target, created or about to be, waits for is done. It needs
that a stage with a rollback target has one cluster (`RollbacksStandAlone`): there
the row of a rollback target, which is counted too, stands for the target it
belongs to. The departure about rollback targets below is why.
`ParallelBound` is far from inductive, since admission counts a cached list while
children are created and end: `CountInv` counts instead the children that the
cache shows under way (`Shown`) and all clusters up to the last one whose child
the cache does not show yet (`UpToRank`, `Unseen`). Those are at most maxParallel,
since admission goes through the clusters in their order and takes over, or stops
among, the ones it does not see.

### Decisions, agents and gates

`OneLinkTakesEffect` needs that the redeemed link is on the Target before it has
any effect and never changes (`ClaimInv`). `SlotsCovered` is inductive together
with types and with what is known of copies of the Policy: one of the same version
is the same (`Copy`, `Working`). `DailyCap` needs `DayInv`: the counter of the day
covers what was granted on the day of the last decision, and nothing was granted
on a later one. A reservation that is older than the last decision must be
refused, which only a cooldown does, hence the hypothesis; without it `DailyCap` is
false (Known departures). Requests for which the Policies could not be listed
(`open`) reserve nothing and are counted by neither.
`AdvanceIsEarned` needs that a status recorded as passed was let through in
whichever copy it is recorded, and that a phase the controller does not know is
only ever that of a webhook (`EarnedInv`); `VerdictKept`, that a reconcile whose
copy is current has every recorded verdict in hand (`KeptInv`).

### The surroundings

`TriggerInv`: if the Trigger requires a signature, the version a poll is about to
promote is signed and named by its digest. `HeartInv`: while the Lease is not
fresh nobody, neither the object, nor a copy, nor a patch under way, counts more
misses than were observed in a row; once a fresh Lease was noted, nobody counts
any. `BootInv`: the cached Cluster is behind in what never goes back (the
deletion, the finalizer, the binding of the slot), an approved request is the one
the slot is bound to, nothing is granted to a Cluster without a finalizer, and
when it is gone nothing is granted at all. `TraceInv`: a trace is created once and
only its signature changes, so a cached copy signs what is stored. `LifeInv`:
deliveries differ only in handler, phase, attempt, tries and where they are, so
two of one key are told apart. `ArchiveInv`: in S3 objects appear whole and stay,
the event before its metadata, so an attempt that is past the event has left it
there (`S3Inv`); in a directory that holds for the attempt that writes, until the
first failure (`FileInv`).

`NoteInv`: a cached copy, or the copy a reconcile works on, that is not behind is
the target itself, and a phase that was entered is never after the current one. So
what the reconcile has yet to tell has not been told: it was entered by the
write-back just done, which fails for a copy that is behind. `PushInv` follows one
slot: an object that is fresh and ready runs what it wants, and so does a cached
copy that wants the same; a patch under way is for the version of its target, and
its copy did not show that version unless the object has it; and the slots a pass
is through with want the version, unless the target is `overtaken`, that is a
stale copy hid an earlier write. `ObjectsInv` needs that each slot has an object
of its own whose status names its generation, which Flux and Argo do not have;
`DirectIsRunning` claims nothing of them. `MetricInv` is the state's own meaning
(the result is what the answers and the samples make it); the work is in
`BetterCompares` and `BetterScores`, the monotony of the comparison and, with its
change of sign, of the quotient. `ListInv`: the pages read so far have kept
whatever was asked for all the time up to the last name (`PagesInv`), and what is
done with is in the answer, in full unless it says so (`ListedInv`); that a page
skips nothing rests on `PageIsPrefix`, that it is cut by counting in order, and
the limit on `FirstAreBounded`, both from the growth of that count (`CountsGrow`).

The last three theorems rest on sums and sorted sequences, which are defined by
recursion. No lemma here is an induction over a predicate, which the provers
cannot instantiate; the induction is over a set instead: `NumbersAreReached` and
`SubsetsAreReached` say that a set with the first element and the next of each has
them all. With the set of the domains on which a sum is defined that gives
`SumExists`; with the sets on which a fact about sums holds it gives `SumIsInt`,
`SumGrows`, `SumOfConstant` and `SequenceSum`. A sorted sequence is defined by
ranks (`InOrder` of `Retention` and `Planner`), and `RanksGrow`, `RanksAreTaken`
say of any order that each rank has its one element.
`UnanimousSamplesDecide`: a mean is on the side of the threshold that all samples
are on (`MeanIsOnTheSide`), and the means of two halves differ the way all pairs
of their samples do (`Halves`, `MeansCompare`), so neither `TestsAgree` nor the
end of the window decides against them. `RetentionInv`: what the cache shows as
ended, and what it has yet to hear has ended, did end so once (`Ever`, which keeps
an attempt that went on after Superseded); what a pass still has to delete, and
what is gone and was not mistaken for another, is `Spare`, that is ended once and
older than the floor of its outcome leaves. What is spare stays so while attempts
are added and end (`ChangeKeeps`), and what is chosen is spare although the list
lags behind (`SelectedAreSpare`), since an attempt the list misses only adds to
those that are newer.
`PlannerInv`: the plugins that have answered are those of the cycle's own
copy of the registry, and the plan is that of their answers; the cut-off totals it
is sorted by order the clusters as the uncut ones do, below the highest score
(`SumsMeet`).

### Only model-checked

Everything with fairness is out of this prover's reach: `Terminates`, `RunEnds`,
`LatestSpecStamped`, `StatusMirrors`, `SuspendReachesRuns`, `SpokeFollows`,
`LeavesMetricsCheck`, and the temporal parts of the other properties of
`MCApproval`, `MCClusters` and `MCPlatform`. Of the modules without a proof,
`Fleet`, `ResourceSet`, `SpokeLoop`, `DeliveryUnit`, `Plugin` and `Substrate` have
properties of that kind only.
The properties of `MCApproval`, `MCClusters` and `MCPlatform` are conjunctions over
their parts, with the constants chosen there; the theorems are about the parts, for
all constants. Every safety part of `AgentLimits`, `MetricsDecide` and
`RecordsAreKept` is proved; of the three `TypeOK`s those of `Decision`,
`AgentPolicy` and `Gate`.
`StageOrder` and `OutcomeIsEarned` are proved for the instance of `promotionrun` and
every other in which the stages a rollback may reach have one cluster each. With
more clusters they need not hold (Known departures).

## Known departures

Met while modelling, and not checked by a run of their own.

- Target: a target skipped while its run was suspended is woken by nothing when
  the run is resumed; Apply is called again when the update after it is lost,
  although a comment says exactly once; a target held back by a stale heartbeat
  ignores a rejection.
- Promotion: an attempt that the cached list does not show yet is not superseded,
  for good; a starting run overwrites Superseded with Progressing; a reconcile
  under way creates or un-cancels targets of a superseded run; a spec changed back
  to an earlier value gets the superseded attempt and no new one.
- PromotionRun and Planner: `halt` does not stop children that were cancelled and
  un-cancelled in between; a stage counts only planned clusters, so it can be
  announced as completed with others failed; MaxParallel counts planned clusters
  only; an empty plan is complete; stage events repeat after a failed patch.
- PromotionRun: the rows of rollback targets are counted with those of the stage.
  After a rollback target has converged or was skipped, and before the Failed
  phase shows, a dependency can count as met, or the stage as Complete, with one
  of its own clusters still to come (`stageDependencySatisfied`,
  `reconcilePromotionPlanStages`), although `dependsOn` says whether "all or any
  upstream targets must pass" (`delivery_execution_types.go:83-86`).
- Claims are not exclusive: two runs can both claim a cluster, and a deleted run
  can leave its claim behind.
- Decisions: an accepted `decide` may have no Approval when its creation fails; an
  agent's slot can leak. If the list of Policies fails, the error is only logged
  and the decision is recorded with no slot, cooldown, daily limit, mode or cosign
  (`decision_api.go:776-780`), so an agent is not limited then
  (`resolveAgentPolicy`, history `open`). A daily limit can be exceeded if the
  Policy has no cooldown: `reserveAgentPolicySlot` takes the time once before its
  retries and starts the counter again on any *other* UTC day, where its comment
  says a *prior* one; a reservation that loses a race before midnight and is
  repeated after one made after midnight counts for the day before with a counter
  that starts at 0.
- Gates: the phase a webhook answers is stored unvalidated
  (`webhook_gate.go:169`), and one the controller does not know blocks nothing,
  since the switch of `evaluateGateTemplates` has no default (`Unknown` in
  `Gate`). An unreachable provider is an Inconclusive result without an error
  (`metrics.go:149-156`), and time spent so counts towards the timeout
  (`target_controller.go:598-607`), although `gate_types.go:59-64` says that
  infrastructure errors "do not consume this budget". Every poll of a running Job
  is an attempt; a finished Job is deleted before its result is recorded; an
  unresolved gate type returns before the time-out is looked at; a failed `halt`
  gate without `gateTimeout` blocks for good; score with `lte` and value 0 blocks;
  a score with a negative threshold is the lower the higher the value is
  (`statistics.go:112-136`); a flat changePoint stays inconclusive, and one whose
  window is a single sample passes with nothing compared (`metrics.go:346-382`).
- Lifecycle, notifications, traces: an attempt is announced with the phase of the
  one before (`dispatcher.go:383-392`), so handlers fire without a phase
  transition, against `docs/concepts/events.md:24-26`; when the Promotion then
  enters that phase with the new attempt, the recorded result makes `alreadyFinal`
  suppress the event, against line 98 ("at least once") (history `early`); a
  failed label patch or a restart loses a notification; the first emit of a trace
  fails to sign, and ties within a second are decided by name.
- Bootstrap and heartbeat: a late spoke may find no usable token; an expiry
  decided on a stale copy leaves a wrong condition; the Fleet's stale patch can
  open the gate of a dead cluster for a while.
- Fleet and ResourceSet: removed Clusters may stay; hand-made Clusters are taken
  over and deleted; all units get the first unit's version.
- Spoke loop: one context of 60 s serves all apps of a tick and its report
  (`delivery_loop.go:83`), and a fetch has no time-out of its own, so an app that
  hangs keeps those after it and the report back on every tick, although
  `delivery_loop.go:28-29` says "Per-app Provider.Reconcile errors are isolated"
  (`Hangs`, `expired` in `SpokeLoop`).
- Push: argo and flux may report convergence before the version runs; an apply can
  overwrite another cluster's entry from a stale copy.
- Trigger: a Promotion that turns out to exist when it is created is patched
  without another look at the version it has, the cooldown and the active runs
  (`trigger_controller.go:219-241`, `refetch`); a signature is only verified if the
  Trigger requires it, which it does not by default, and `controllers.go:313-322`
  wires no Verifier, so one that does never gets past it; a failed write of the
  Promotion is not requeued.
- Plugin: adapters are registered under `spec.type` and `spec.name`
  (`adapter.go:85-166`) and unloaded under the current ones
  (`plugin_controller.go:81-85`), so an edit of either leaves the earlier adapter
  until the operator restarts; an unready plugin keeps its adapter. Two Plugins of
  one key, which overwrite each other's adapter, are left out.
- Retention: a run is named by the hash of its spec and deleted by that name without
  a UID, so a list that lags can have an active attempt deleted that took the name
  of a victim (`mistaken`); a Superseded attempt can become Progressing again and be
  deleted for what the list has of it (`revived`); both against
  `promotionrun_gc_controller.go:15-17`. Attempts of one second are kept and deleted
  in the order of their hashes.
- Promotion: `SucceededWasCompleted` says that some attempt was completed; a
  Promotion stays Succeeded for a while after an edit of its spec.
- Substrate, Archive, Listing: discovery over
  its limit does not fail closed; pruning goes on when the active runs exceed the
  cap; the file sink can acknowledge an incomplete event; the graph's phase filter
  can miss objects without a mark of truncation.

## Not modelled

Formatting, Kubernetes events, metrics and authentication; the HTTP and gRPC
transports and the clients of registries, Prometheus, Argo and Flux, which appear
as answers; scaffolding and discovery in the command line, which only read and
print; generated code; `kapro why` and `kapro reconstruct`, which read traces back.
`PROJECT.json` gives the reason for each component that is modelled in part.

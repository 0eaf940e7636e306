----------------------------- MODULE Lifecycle ------------------------------
(***************************************************************************)
(* The lifecycle dispatcher (internal/lifecycle/dispatcher.go):            *)
(* the Promotion reconciler publishes an event when it stamps or           *)
(* supersedes an attempt and after it has patched a new phase; every event *)
(* goes to the handlers of the Promotion that name its phase.  Each        *)
(* delivery is a goroutine that retries and records its result in the      *)
(* Promotion's status.  (The operator's sink gets every event through the  *)
(* same retries and leaves no trace in any state.)                         *)
(*                                                                         *)
(* Attempts are numbered in the order in which they are stamped.  The      *)
(* Promotion's status, results of handlers included, is read from a cache. *)
(***************************************************************************)
EXTENDS Naturals, Sequences, FiniteSets

CONSTANTS
    Handlers,     \* spec.lifecycle.handlers
    On,           \* the phases each of them names
    MaxAttempts,  \* bound: attempts of the Promotion
    MaxRetries,   \* retries of a delivery
    MaxResults,   \* cap of status.lifecycleHandlerResults
    MaxPauses,    \* bound: suspensions
    MaxRestarts,  \* bound: restarts of the operator
    None          \* nothing

VARIABLES
    run,        \* phase of each attempt's run
    suspended,  \* Promotion.spec.suspended
    phase,      \* Promotion.status.phase
    results,    \* keys of status.lifecycleHandlerResults, newest first
    seen,       \* the cached status
    job,        \* the Promotion reconcile in progress
    tasks,      \* deliveries in flight
    entered,    \* history: phases entered, with the attempt and handlers concerned
    early,      \* history: keys published when an attempt was stamped or superseded
    fired,      \* history: invocations of handlers for a phase that was entered
    pauses, restarts

object == <<run, suspended, phase, results>>
history == <<entered, early, fired>>
vars == <<object, seen, job, tasks, history, pauses, restarts>>

-----------------------------------------------------------------------------
Phases == {"Pending", "Restarting", "Progressing", "Paused", "Succeeded", "Failed"}
RunPhases == {"none", "pending", "progressing", "superseded", "complete", "failed"}
Attempts == 1..MaxAttempts

\* A handler is invoked for a phase and an attempt.
Key == [handler : Handlers, phase : Phases, attempt : 0..MaxAttempts]
Task == [handler : Handlers, phase : Phases, attempt : 0..MaxAttempts,
         event   : {"attempt", "phase"},
         tries   : 0..MaxRetries,
         pc      : {"post", "record"}]
KeyOf(t) == [handler |-> t.handler, phase |-> t.phase, attempt |-> t.attempt]
Status == [phase : Phases, results : Seq(Key)]
Job == [pc : {"idle", "patch", "dispatch"}, prev : Phases, next : Phases, attempt : 0..MaxAttempts]
Idle == [pc |-> "idle", prev |-> "Pending", next |-> "Pending", attempt |-> 0]

TypeOK ==
    /\ run \in [Attempts -> RunPhases]
    /\ suspended \in BOOLEAN /\ phase \in Phases
    /\ results \in Seq(Key) /\ Len(results) <= MaxResults
    /\ seen \in Status /\ job \in Job
    /\ tasks \in SUBSET Task
    /\ entered \in SUBSET Key /\ early \in SUBSET Key /\ fired \in SUBSET Key
    /\ pauses \in 0..MaxPauses /\ restarts \in 0..MaxRestarts

Init ==
    /\ run = [a \in Attempts |-> "none"]
    /\ suspended = FALSE /\ phase = "Pending" /\ results = <<>>
    /\ seen = [phase |-> phase, results |-> results]
    /\ job = Idle /\ tasks = {}
    /\ entered = {} /\ early = {} /\ fired = {}
    /\ pauses = 0 /\ restarts = 0

-----------------------------------------------------------------------------
(* Publishing.                                                             *)

handlerMatchesPhase(h, p) == p \in On[h]

\* Fault: results of other attempts count.
FinalInAnyAttempt(known, k) ==
    \E i \in DOMAIN known : known[i].handler = k.handler /\ known[i].phase = k.phase

alreadyFinal(known, k) == \E i \in DOMAIN known : known[i] = k

tryReserveInflight(k) ==
    ~\E t \in tasks : KeyOf(t) = k

\* One delivery of an event to every handler that names the phase, has no
\* result among those known and is not in flight: neither asks which event it
\* was, a phase entered or an attempt stamped or superseded.
Publish(event, p, attempt, known) ==
    {[handler |-> h, phase |-> p, attempt |-> attempt, event |-> event, tries |-> 0, pc |-> "post"] :
        h \in {h \in Handlers :
                  LET k == [handler |-> h, phase |-> p, attempt |-> attempt]
                  IN  /\ handlerMatchesPhase(h, p)
                      /\ ~alreadyFinal(known, k)
                      /\ tryReserveInflight(k)}}

-----------------------------------------------------------------------------
(* The Promotion reconciler, as far as it publishes.                       *)

Current == Cardinality({a \in Attempts : run[a] # "none"})

Live == {a \in Attempts : run[a] \in {"pending", "progressing"}}
priorTerminalExists == \E a \in Attempts : run[a] \in {"superseded", "complete", "failed"}

computePromotionPhase(p) ==
    CASE p = "complete"    -> "Succeeded"
      [] p = "failed"      -> "Failed"
      [] p = "progressing" -> "Progressing"
      [] p = "superseded"  -> "Pending"
      [] p = "pending"     -> IF priorTerminalExists THEN "Restarting" ELSE "Pending"

PublishAttemptEvent(attempt) == Publish("attempt", seen.phase, attempt, seen.results)

\* The spec changed: attempts still live are superseded, a new one is
\* stamped, and both are published under the phase the cached Promotion is
\* in, which may be the one that the new attempt has yet to enter.
stampAttempt ==
    /\ job.pc = "idle" /\ ~suspended /\ Current < MaxAttempts
    /\ LET new == Current + 1
       IN  /\ run' = [a \in Attempts |-> IF a = new THEN "pending"
                                          ELSE IF a \in Live THEN "superseded" ELSE run[a]]
           /\ LET published == UNION {PublishAttemptEvent(a) : a \in Live \cup {new}}
              IN  /\ tasks' = tasks \cup published
                  /\ early' = early \cup {KeyOf(t) : t \in published}
           /\ job' = [pc |-> "patch", prev |-> seen.phase,
                      next |-> computePromotionPhase("pending"), attempt |-> new]
    /\ UNCHANGED <<suspended, phase, results, seen, entered, fired, pauses, restarts>>

\* No new spec: the phase follows the run, or the suspension.
mirrorStatus ==
    /\ job.pc = "idle" /\ Current > 0
    /\ LET next == IF suspended THEN "Paused" ELSE computePromotionPhase(run[Current])
       IN  /\ next # seen.phase
           /\ job' = [pc |-> "patch", prev |-> seen.phase, next |-> next, attempt |-> Current]
    /\ UNCHANGED <<object, seen, tasks, history, pauses, restarts>>

Named(p, a) ==
    {[handler |-> h, phase |-> p, attempt |-> a] : h \in {h \in Handlers : handlerMatchesPhase(h, p)}}

\* The phase is patched if it differs from the copy's.
patchStatus ==
    /\ job.pc = "patch"
    /\ IF job.next = job.prev
       THEN job' = Idle /\ UNCHANGED <<phase, entered>>
       ELSE /\ phase' = job.next
            /\ entered' = entered \cup Named(job.next, job.attempt)
            /\ job' = [job EXCEPT !.pc = "dispatch"]
    /\ UNCHANGED <<run, suspended, results, seen, tasks, early, fired, pauses, restarts>>

\* The new phase is published, with the status the patch returned.  Leaving
\* Paused also publishes "resumed", under the same phase: the handlers it
\* reserves are the same.
OnPhaseTransition ==
    /\ job.pc = "dispatch"
    /\ tasks' = tasks \cup Publish("phase", job.next, job.attempt, results)
    /\ job' = Idle
    /\ UNCHANGED <<object, seen, history, pauses, restarts>>

-----------------------------------------------------------------------------
(* Deliveries.                                                             *)

Replace(t, new) == tasks' = (tasks \ {t}) \cup new

\* A request is sent.  It succeeds or fails for good, or it may be tried
\* again; a request that failed may have reached the receiver.
deliver(t) ==
    /\ t.pc = "post"
    /\ LET invoked == IF t.event = "phase" THEN fired \cup {KeyOf(t)} ELSE fired
           ended == {[t EXCEPT !.pc = "record"]}
       IN  \/ \* 2xx, a permanent failure, or the last try
              /\ fired' = invoked
              /\ Replace(t, ended)
           \/ \* a transient failure
              /\ t.tries < MaxRetries
              /\ fired' \in {fired, invoked}
              /\ Replace(t, {[t EXCEPT !.tries = @ + 1]})
    /\ UNCHANGED <<object, seen, job, entered, early, pauses, restarts>>

\* Newest first, one entry per key, capped.
upsertLifecycleResult(list, k) ==
    LET out == <<k>> \o SelectSeq(list, LAMBDA e : e # k)
    IN  SubSeq(out, 1, IF Len(out) > MaxResults THEN MaxResults ELSE Len(out))

\* The list of the cached Promotion, with this result, replaces the object's.
recordResult(t) ==
    /\ t.pc = "record"
    /\ results' = upsertLifecycleResult(seen.results, KeyOf(t))
    /\ Replace(t, {})
    /\ UNCHANGED <<run, suspended, phase, seen, job, history, pauses, restarts>>

-----------------------------------------------------------------------------
(* The others.                                                             *)

syncPromotion ==
    /\ seen # [phase |-> phase, results |-> results]
    /\ seen' = [phase |-> phase, results |-> results]
    /\ UNCHANGED <<object, job, tasks, history, pauses, restarts>>

\* A run starts, completes or fails.
advanceRun ==
    /\ \E a \in Live, p \in {"progressing", "complete", "failed"} :
        /\ run[a] # p /\ (p = "complete" => run[a] = "progressing")
        /\ run' = [run EXCEPT ![a] = p]
    /\ UNCHANGED <<suspended, phase, results, seen, job, tasks, history, pauses, restarts>>

suspend ==
    /\ \/ suspended /\ suspended' = FALSE /\ UNCHANGED pauses
       \/ ~suspended /\ suspended' = TRUE /\ pauses < MaxPauses /\ pauses' = pauses + 1
    /\ UNCHANGED <<run, phase, results, seen, job, tasks, history, restarts>>

\* Deliveries and the reconcile in progress are lost.
restart ==
    /\ restarts < MaxRestarts /\ restarts' = restarts + 1
    /\ job' = Idle /\ tasks' = {}
    /\ UNCHANGED <<object, seen, history, pauses>>

Reconcile == stampAttempt \/ mirrorStatus \/ patchStatus \/ OnPhaseTransition
DeliveryTo(h) == \E t \in tasks : t.handler = h /\ (deliver(t) \/ recordResult(t))
Delivery == \E h \in Handlers : DeliveryTo(h)

Next == Reconcile \/ Delivery \/ syncPromotion \/ advanceRun \/ suspend \/ restart

Spec == Init /\ [][Next]_vars

-----------------------------------------------------------------------------
(* Properties.                                                             *)

\* One handler is not invoked twice at the same time for a phase and an
\* attempt, whatever stale copies publish (tryReserveInflight).
OneInvocationAtATime ==
    \A t, u \in tasks : KeyOf(t) = KeyOf(u) => t = u

\* As long as the operator is not restarted, every handler that names a phase
\* the Promotion enters is invoked for it, with the attempt of that time (the
\* package comment promises it across restarts too).  Not so when the stamping
\* or superseding of an attempt has been published under the phase before: that
\* delivery, or its result, takes the place of the one for the phase
\* (tryReserveInflight, alreadyFinal), although handlers should hear of phase
\* transitions only (docs/concepts/events.md:24-26).
EnteredIsAnnounced ==
    <>[](restarts = 0 =>
           {k \in entered : handlerMatchesPhase(k.handler, k.phase)} \subseteq fired \cup early)

=============================================================================

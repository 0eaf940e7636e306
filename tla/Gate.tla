-------------------------------- MODULE Gate --------------------------------
(***************************************************************************)
(* The gates of one Target in phase MetricsCheck: handleMetricsCheck and   *)
(* evaluateGateTemplates (target_controller.go) over the evaluators of     *)
(* internal/gate.  A reconcile works on a cached copy of the Target,       *)
(* evaluates the metrics and then the templates in order, and writes all   *)
(* results with one conditional update.  What an evaluation has done       *)
(* outside (a Job created or deleted) stays done if that update is lost.   *)
(*                                                                         *)
(* Webhooks, plugins and Prometheus answer as they like; what makes a      *)
(* metric pass is module MetricsGate.  The phase a webhook answers is not  *)
(* validated: one that the controller does not know is stored, and does    *)
(* not block.                                                              *)
(***************************************************************************)
EXTENDS Naturals, Sequences, FiniteSets

CONSTANTS
    Metrics,     \* policy.gate.metrics, by index
    Templates,   \* policy.gate.templates, a sequence
    MaxFaults    \* bound: failed calls, lost updates, restarts and unregistrations

VARIABLES
    phase,      \* Target.status.phase
    gates,      \* Target.status.gates, of the templates
    seen,       \* the cached copy of them
    work,       \* the reconcile in progress
    job,        \* the Job of each job template
    jseen,      \* the cached Jobs
    registered, \* the plugin gates are in the registry
    late,       \* gateTimeout has passed since the phase was entered
    earned,     \* history: templates whose evaluator let the target through
    faults

target == <<phase, gates>>
jobs == <<job, jseen>>
vars == <<target, seen, work, jobs, registered, late, earned, faults>>

-----------------------------------------------------------------------------
T == DOMAIN Templates
Template == [type : {"cel", "job", "webhook", "plugin"},
             failurePolicy      : {"halt", "retry", "skip"},
             inconclusivePolicy : {"retry", "skip", "halt"},
             maxAttempts        : Nat \ {0}]

\* "Unknown" is any other string, which only a webhook can have answered.
Known == {"Pending", "Running", "Passed", "Failed", "Inconclusive"}
GatePhases == Known \cup {"Unknown"}
Answers(t) == CASE Templates[t].type = "webhook" -> GatePhases
                [] Templates[t].type = "cel"     -> {"Passed", "Failed"}
                [] OTHER                         -> Known \ {"Pending"}
GateRunStatus(t) == [phase : Known \cup Answers(t), attempts : 0..Templates[t].maxAttempts]
NewStatus == [phase |-> "Pending", attempts |-> 0]

\* The steps of a reconcile: the metrics, the templates by index, the end of
\* the loop, and the update with what becomes of the phase.
Work == [pc      : {"idle", "metrics", "templates", "write"},
         at      : 1..Len(Templates) + 1,
         gates   : [T -> [phase : GatePhases, attempts : Nat]],
         blocked : BOOLEAN,                           \* not allPassed
         current : BOOLEAN,                           \* the copy read is current
         next    : {"MetricsCheck", "Next", "Failed"}]
JobPhases == {"none", "running", "succeeded", "failed"}

NoGates == [t \in T |-> NewStatus]
Idle == [pc |-> "idle", at |-> 1, gates |-> NoGates, blocked |-> FALSE,
         current |-> FALSE, next |-> "MetricsCheck"]
Turn(t) == work.pc = "templates" /\ work.at = t

TypeOK ==
    /\ phase \in {"MetricsCheck", "Next", "Failed"}
    /\ \A t \in T : /\ Templates[t] \in Template
                    /\ gates[t] \in GateRunStatus(t) /\ seen[t] \in GateRunStatus(t)
                    /\ work.gates[t] \in GateRunStatus(t)
    /\ work \in Work
    /\ job \in [T -> JobPhases] /\ jseen \in [T -> JobPhases]
    /\ registered \in BOOLEAN /\ late \in BOOLEAN
    /\ earned \in SUBSET T
    /\ faults \in 0..MaxFaults

Init ==
    /\ phase = "MetricsCheck" /\ gates = NoGates /\ seen = NoGates
    /\ work = Idle
    /\ job = [t \in T |-> "none"] /\ jseen = job
    /\ registered = TRUE /\ late = FALSE
    /\ earned = {}
    /\ faults = 0

Fault ==
    /\ faults < MaxFaults
    /\ faults' = faults + 1

-----------------------------------------------------------------------------
(* The metrics.                                                            *)

beginReconcile ==
    /\ work.pc = "idle" /\ phase = "MetricsCheck"
    /\ work' = [pc |-> "metrics", at |-> 1, gates |-> seen, blocked |-> FALSE,
                current |-> seen = gates, next |-> "MetricsCheck"]
    /\ UNCHANGED <<target, seen, jobs, registered, late, earned, faults>>

metricsGateTimedOut == IF late THEN "Failed" ELSE "MetricsCheck"

\* The metrics are queried in order, from the first one in every reconcile,
\* up to one that does not pass.  A query that cannot be answered is reported
\* as Inconclusive; here it is "Error".
evaluateMetrics ==
    /\ work.pc = "metrics"
    /\ \E r \in [Metrics -> {"Passed", "Failed", "Inconclusive", "Error"}] :
        IF \A i \in Metrics : r[i] = "Passed"
        THEN work' = [work EXCEPT !.pc = "templates"]
        ELSE work' = [work EXCEPT !.pc = "write", !.next = metricsGateTimedOut]
    /\ UNCHANGED <<target, seen, jobs, registered, late, earned, faults>>

-----------------------------------------------------------------------------
(* The templates.                                                          *)

\* What the status becomes for a result, the attempts being used up or not; a
\* phase that is not known is kept as it is.
Judged(t, result, attempts) ==
    LET tmpl == Templates[t]
        exhausted == attempts >= tmpl.maxAttempts /\ result # "Passed"
        verdict == IF exhausted THEN "Failed" ELSE result
    IN  CASE verdict = "Failed" ->
               IF tmpl.failurePolicy = "skip" THEN "Passed"
               ELSE IF tmpl.failurePolicy = "retry" /\ ~exhausted THEN "Running" ELSE "Failed"
          [] verdict = "Inconclusive" ->
               IF tmpl.inconclusivePolicy = "skip" THEN "Passed"
               ELSE IF tmpl.inconclusivePolicy = "halt" THEN "Failed" ELSE "Inconclusive"
          [] OTHER -> verdict

\* An evaluation that returns an error keeps the gate running until the
\* attempts are used up; the failure policy is not asked.
Errored(t, attempts) ==
    IF attempts >= Templates[t].maxAttempts THEN "Failed" ELSE "Running"

\* A switch without a default decides whether the gate blocks the target.
Blocks(p) == p \notin {"Passed", "Unknown"}

Store(t, p, attempts) ==
    work' = [work EXCEPT !.at = t + 1, !.gates[t] = [phase |-> p, attempts |-> attempts],
                         !.blocked = @ \/ Blocks(p)]

Record(t, result) ==
    LET attempts == work.gates[t].attempts + 1
        p == Judged(t, result, attempts)
    IN  /\ Store(t, p, attempts)
        /\ earned' = IF p = "Passed" THEN earned \cup {t} ELSE earned

RecordError(t) ==
    LET attempts == work.gates[t].attempts + 1
    IN  /\ Store(t, Errored(t, attempts), attempts)
        /\ UNCHANGED earned

Finished(t) == work.gates[t].phase \in {"Passed", "Failed"}
Resolved(t) == Templates[t].type = "plugin" => registered

\* Fault: a gate that failed in an earlier reconcile does not block.
SkipVerdict(t) ==
    /\ Turn(t) /\ Finished(t)
    /\ work' = [work EXCEPT !.at = t + 1]
    /\ UNCHANGED <<target, seen, jobs, registered, late, earned, faults>>

\* A gate that has passed or failed is not evaluated again.
skipFinished(t) ==
    /\ Turn(t) /\ Finished(t)
    /\ work' = [work EXCEPT !.at = t + 1, !.blocked = @ \/ Blocks(work.gates[t].phase)]
    /\ UNCHANGED <<target, seen, jobs, registered, late, earned, faults>>

\* A CEL expression is true or false, or cannot be evaluated, which is Failed.
evaluateCEL(t) ==
    /\ Turn(t) /\ ~Finished(t) /\ Templates[t].type = "cel"
    /\ \E r \in Answers(t) : Record(t, r)
    /\ UNCHANGED <<target, seen, jobs, registered, late, faults>>

\* A webhook or a plugin is called.  A plugin's phase is mapped, or refused with
\* an error; a webhook's is cast to a GatePhase whatever it is, an empty one is
\* Inconclusive.
callGate(t) ==
    /\ Turn(t) /\ ~Finished(t) /\ Templates[t].type \in {"webhook", "plugin"} /\ Resolved(t)
    /\ \/ \E r \in Answers(t) : Record(t, r)
       \/ RecordError(t)
    /\ UNCHANGED <<target, seen, jobs, registered, late, faults>>

\* A template whose gate is not registered ends the reconcile with an error:
\* nothing is written, and the timeout is not looked at.
gateForTemplate(t) ==
    /\ Turn(t) /\ ~Finished(t) /\ ~Resolved(t)
    /\ work' = Idle
    /\ UNCHANGED <<target, seen, jobs, registered, late, earned, faults>>

\* The job gate: no Job in the cache, so one is created.
createJob(t) ==
    /\ Turn(t) /\ ~Finished(t) /\ Templates[t].type = "job" /\ jseen[t] = "none"
    /\ \/ /\ job' = [job EXCEPT ![t] = IF @ = "none" THEN "running" ELSE @]
          /\ Record(t, "Running") /\ UNCHANGED faults
       \/ Fault /\ RecordError(t) /\ UNCHANGED job
    /\ UNCHANGED <<target, seen, jseen, registered, late>>

\* The Job is polled; a Job that is over is deleted before its result is
\* recorded.  Every poll is an attempt.  (The delete names the Job: one that
\* was created since the cache was filled goes too.)
pollJob(t) ==
    /\ Turn(t) /\ ~Finished(t) /\ Templates[t].type = "job" /\ jseen[t] # "none"
    /\ job' = [job EXCEPT ![t] = IF jseen[t] = "running" THEN @ ELSE "none"]
    /\ Record(t, CASE jseen[t] = "succeeded" -> "Passed"
                   [] jseen[t] = "failed"    -> "Failed"
                   [] OTHER                  -> "Running")
    /\ UNCHANGED <<target, seen, jseen, registered, late, faults>>

\* Fault: the timeout is looked at only when a metric has not passed.
EndWithoutTimeout ==
    /\ Turn(Len(Templates) + 1)
    /\ work' = [work EXCEPT !.pc = "write",
                  !.next = IF work.blocked THEN "MetricsCheck" ELSE "Next"]
    /\ UNCHANGED <<target, seen, jobs, registered, late, earned, faults>>

\* No gate blocks, or the reconcile is repeated until the timeout.
evaluateGateTemplates ==
    /\ Turn(Len(Templates) + 1)
    /\ work' = [work EXCEPT !.pc = "write",
                  !.next = IF work.blocked THEN metricsGateTimedOut ELSE "Next"]
    /\ UNCHANGED <<target, seen, jobs, registered, late, earned, faults>>

\* The update carries the resource version of the copy.  On a conflict, as
\* after a failed call, the results are lost and the reconcile is repeated.
writeStatus ==
    /\ work.pc = "write"
    /\ \/ work.current /\ gates' = work.gates /\ phase' = work.next /\ UNCHANGED faults
       \/ ~work.current /\ UNCHANGED <<target, faults>>
       \/ Fault /\ UNCHANGED target
    /\ work' = Idle
    /\ UNCHANGED <<seen, jobs, registered, late, earned>>

-----------------------------------------------------------------------------
(* The others.                                                             *)

\* The operator restarts, or another writer of the Target gets in between.
restart ==
    /\ Fault /\ work.pc # "idle"
    /\ \/ work' = Idle
       \/ work.current /\ work' = [work EXCEPT !.current = FALSE]
    /\ UNCHANGED <<target, seen, jobs, registered, late, earned>>

syncTarget ==
    /\ seen # gates /\ seen' = gates
    /\ UNCHANGED <<target, work, jobs, registered, late, earned, faults>>

syncJobs ==
    /\ jseen # job /\ jseen' = job
    /\ UNCHANGED <<target, seen, work, job, registered, late, earned, faults>>

finishJob ==
    /\ \E t \in T, p \in {"succeeded", "failed"} :
        job[t] = "running" /\ job' = [job EXCEPT ![t] = p]
    /\ UNCHANGED <<target, seen, work, jseen, registered, late, earned, faults>>

\* The Plugin behind the gates goes away and comes back.
register ==
    /\ registered' = ~registered
    /\ IF registered THEN Fault ELSE UNCHANGED faults
    /\ UNCHANGED <<target, seen, work, jobs, late, earned>>

timeout ==
    /\ ~late /\ late' = TRUE
    /\ UNCHANGED <<target, seen, work, jobs, registered, earned, faults>>

Evaluate(t) == skipFinished(t) \/ evaluateCEL(t) \/ callGate(t) \/ gateForTemplate(t)
               \/ createJob(t) \/ pollJob(t)

Reconcile ==
    \/ beginReconcile \/ evaluateMetrics
    \/ \E t \in T : Evaluate(t)
    \/ evaluateGateTemplates \/ writeStatus

Next == Reconcile \/ restart \/ syncTarget \/ syncJobs \/ finishJob \/ register \/ timeout

Spec == Init /\ [][Next]_vars

-----------------------------------------------------------------------------
(* Properties.                                                             *)

\* The target leaves MetricsCheck for the next phase only when every template is
\* recorded as passed and its evaluator has let it through, by its result or by
\* the template's skip policy, although results are written in one lossy update,
\* Jobs are deleted before their result is recorded and copies are stale.  The
\* exception is a webhook that answered a phase the controller does not know,
\* which passes the gate for as long as attempts are left (evaluateGateTemplates
\* has no default for it).
AdvanceIsEarned ==
    phase = "Next" => \A t \in T : \/ gates[t].phase = "Passed" /\ t \in earned
                                   \/ gates[t].phase = "Unknown" /\ Templates[t].type = "webhook"

\* A gate that is recorded as passed or failed stays so: a stale reconcile
\* never has it evaluated again with effect (Reconcile's conditional update).
VerdictKept ==
    \A t \in T : gates[t].phase \in {"Passed", "Failed"} => gates'[t] = gates[t]

\* With a gateTimeout the target does not stay in MetricsCheck: a gate that
\* failed, a Job that hangs and lost updates all end in the timeout, as long as
\* the gates can be resolved.  An unreachable Prometheus uses the timeout up like
\* a metric that does not pass (handleMetricsCheck), although the comment on
\* GateTimeout says that infrastructure errors do not.
LeavesMetricsCheck == []<>(phase # "MetricsCheck")
=============================================================================

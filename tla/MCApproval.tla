----------------------------- MODULE MCApproval -----------------------------
(***************************************************************************)
(* What lets a target through: its gates (Gate), their metrics             *)
(* (MetricsGate), the decision on it (Decision) and the limits of the      *)
(* agent that decides (AgentPolicy); and who hears of it: notifications    *)
(* (Notification), lifecycle handlers (Lifecycle), traces (Trace).         *)
(* They share no state, so a behaviour is one of any of them: part says of *)
(* which, and the others stay as they begin.                               *)
(***************************************************************************)
EXTENDS Integers, Sequences, TLC

CONSTANTS
    None,
    MaxFaults,
    Parts   \* the modules that run

VARIABLES
    part, faults,
    target, tseen, approval, link, decide, override, accepted,
    policy, pseen, clock, req, slot, open, recorded,
    phase, gates, gseen, work, job, jseen, registered, late, earned,
    metric, samples, result,
    ntarget, nseen, njob, cached, sending, told, nentered,
    trclock, trace, trseen, trwork,
    run, suspended, lphase, results, lseen, ljob, tasks, entered, early, fired, pauses, restarts

\* The two links, an agent that approves, and a human override.
D == INSTANCE Decision WITH
        seen <- tseen, Overrides <- {"o1"},
        Decides <- {"d1"}, DecisionOf <- "d1" :> "Approve"

\* Three requests for one slot and one decision a day, two ticks long.
A == INSTANCE AgentPolicy WITH
        seen <- pseen, Requests <- {"r1", "r2", "r3"}, MaxConcurrent <- 1, MaxPerDay <- 1,
        Cooldown <- 1, DayLength <- 2, MaxRetries <- 2, MaxClock <- 3

\* A Job, a plugin and an expression, with every failure policy; and a webhook
\* with an expression that may have to be evaluated again.
G == INSTANCE Gate WITH
        seen <- gseen, Metrics <- {1}, Templates <-
    <<[type |-> "job", failurePolicy |-> "retry", inconclusivePolicy |-> "retry", maxAttempts |-> 2],
      [type |-> "plugin", failurePolicy |-> "skip", inconclusivePolicy |-> "halt", maxAttempts |-> 1],
      [type |-> "cel", failurePolicy |-> "halt", inconclusivePolicy |-> "retry", maxAttempts |-> 1]>>

W == INSTANCE Gate WITH
        seen <- gseen, Metrics <- {1}, Templates <-
    <<[type |-> "webhook", failurePolicy |-> "halt", inconclusivePolicy |-> "skip", maxAttempts |-> 2],
      [type |-> "cel", failurePolicy |-> "retry", inconclusivePolicy |-> "retry", maxAttempts |-> 2]>>

\* Every mode, with and without the defaults.
MetricGate(mode, cmp, t, base, health, min, max, score) ==
    [mode |-> mode, comparator |-> cmp, threshold |-> t, baselineQuery |-> base, healthQuery |-> health,
     minSamples |-> min, maxSamples |-> max, scoreThreshold |-> score]

M == INSTANCE MetricsGate WITH
        Values <- -1..2, MaxWindow <- 4, Metrics <-
    UNION {{MetricGate("threshold", c, <<>>, FALSE, FALSE, 0, 0, 95) : c \in {"", "gte", "lt"}},
           {MetricGate("sloBurnRate", "", <<1>>, FALSE, FALSE, 0, 0, 95)},
           {MetricGate("baseline", "", t, b, TRUE, 0, 0, 95) : t \in {<<>>, <<2>>}, b \in BOOLEAN},
           {MetricGate("score", c, t, FALSE, TRUE, 0, 0, s) :
               c \in {"", "gt"}, t \in {<<>>, <<-1>>, <<2>>}, s \in {0, 50, 95}},
           {MetricGate(m, c, <<1>>, FALSE, FALSE, 2, x, 95) :
               m \in {"sequential", "changePoint"}, c \in {"gte", "lt"}, x \in {0, 4}},
           {MetricGate("changePoint", "lt", <<1>>, FALSE, FALSE, 1, 1, 95)}}

N == INSTANCE Notification WITH
        target <- ntarget, seen <- nseen, job <- njob, entered <- nentered,
        Channels <- {"email"}, Events <- "email" :> {"Failed", "approval"}, NeedsApproval <- TRUE, MaxWrites <- 4

T == INSTANCE Trace WITH
        clock <- trclock, seen <- trseen, work <- trwork,
        Phases <- {"Passed", "Failed"}, Evidence <- {1, 2}, MaxTime <- 1

\* A handler of the last phase, with more results than are kept.
L == INSTANCE Lifecycle WITH
        phase <- lphase, seen <- lseen, job <- ljob,
        Handlers <- {"h"}, On <- "h" :> {"Succeeded"}, MaxAttempts <- 2, MaxRetries <- 1,
        MaxResults <- 1, MaxPauses <- 1, MaxRestarts <- 1

-----------------------------------------------------------------------------
decision == <<target, tseen, approval, link, decide, override, accepted>>
limits == <<policy, pseen, clock, req, slot, open, recorded>>
gate == <<phase, gates, gseen, work, job, jseen, registered, late, earned>>
metrics == <<metric, samples, result>>
notification == <<ntarget, nseen, njob, cached, sending, told, nentered>>
traces == <<trclock, trace, trseen, trwork>>
lifecycle == <<run, suspended, lphase, results, lseen, ljob, tasks, entered, early, fired, pauses, restarts>>
vars == <<part, faults, decision, limits, gate, metrics, notification, traces, lifecycle>>

Init ==
    /\ part \in Parts
    /\ D!Init /\ A!Init /\ N!Init /\ T!Init /\ L!Init
    /\ M!Init /\ (part # "metrics" => metric.mode = "sloBurnRate")
    /\ IF part = "webhook" THEN W!Init ELSE G!Init

Next ==
    /\ UNCHANGED part
    /\ \/ part = "decision" /\ D!Next
          /\ UNCHANGED <<limits, gate, metrics, notification, traces, lifecycle>>
       \/ part = "limits" /\ A!Next
          /\ UNCHANGED <<decision, gate, metrics, notification, traces, lifecycle>>
       \/ part = "gate" /\ G!Next
          /\ UNCHANGED <<decision, limits, metrics, notification, traces, lifecycle>>
       \/ part = "webhook" /\ W!Next
          /\ UNCHANGED <<decision, limits, metrics, notification, traces, lifecycle>>
       \/ part = "metrics" /\ M!Next
          /\ UNCHANGED <<faults, decision, limits, gate, notification, traces, lifecycle>>
       \/ part = "notification" /\ N!Next
          /\ UNCHANGED <<decision, limits, gate, metrics, traces, lifecycle>>
       \/ part = "trace" /\ T!Next
          /\ UNCHANGED <<decision, limits, gate, metrics, notification, lifecycle>>
       \/ part = "lifecycle" /\ L!Next
          /\ UNCHANGED <<faults, decision, limits, gate, metrics, notification, traces>>

\* Decision: a handler that has begun goes on, the informer catches up, and an
\* approver whose link was answered with an error posts it again.
\* Gate: reconciles are requeued, informers deliver, a plugin that went away
\* comes back, time passes; a Job need not end.
\* Trace: an emit that has begun goes on, informers deliver.
\* Lifecycle: a reconcile that has begun and goroutines go on, informers deliver.
Spec ==
    /\ Init /\ [][Next]_vars
    /\ WF_(D!vars)(part = "decision" /\ D!syncTarget)
    /\ WF_(D!vars)(part = "decision" /\ D!handleApprove)
    /\ WF_(D!vars)(part = "decision" /\ D!handleReject)
    /\ \A l \in D!Links : WF_(D!vars)(part = "decision" /\ D!Handle(l))
    /\ WF_(G!vars)(part = "gate" /\ G!Reconcile)
    /\ WF_(G!vars)(part = "gate" /\ G!syncTarget)
    /\ WF_(G!vars)(part = "gate" /\ G!syncJobs)
    /\ WF_(G!vars)(part = "gate" /\ G!register /\ ~registered)
    /\ WF_(G!vars)(part = "gate" /\ G!timeout)
    /\ WF_(W!vars)(part = "webhook" /\ W!Reconcile)
    /\ WF_(W!vars)(part = "webhook" /\ W!syncTarget)
    /\ WF_(W!vars)(part = "webhook" /\ W!timeout)
    /\ WF_(T!vars)(part = "trace" /\ T!Emit)
    /\ \A p \in {"Passed", "Failed"} : WF_(T!vars)(part = "trace" /\ T!syncTrace(p))
    /\ WF_(L!vars)(part = "lifecycle" /\ (L!patchStatus \/ L!OnPhaseTransition))
    /\ WF_(L!vars)(part = "lifecycle" /\ L!syncPromotion)
    /\ WF_(L!vars)(part = "lifecycle" /\ L!DeliveryTo("h"))

-----------------------------------------------------------------------------
\* Every variable stays in its type; of the limits, no counter is negative.
TypeOK ==
    /\ part = "decision" => D!TypeOK
    /\ part = "limits" => A!TypeOK
    /\ part = "gate" => G!TypeOK
    /\ part = "webhook" => W!TypeOK
    /\ part = "metrics" => M!TypeOK
    /\ part = "notification" => N!TypeOK
    /\ part = "trace" => T!TypeOK
    /\ part = "lifecycle" => L!TypeOK

\* The behaviour is one of module p.
Runs(p) == []<>(part = p)

\* Only one of the two links of a notification takes effect, and one that is
\* redeemed does in the end (Decision).
LinksDecide ==
    /\ [](part = "decision" => D!OneLinkTakesEffect)
    /\ Runs("decision") => D!RedeemedTakesEffect

\* Slots in flight are counted and within the limit, no UTC day has more than it
\* may, and only requests whose Policy could not be listed decide without one
\* (AgentPolicy).
AgentLimits == A!AgentLimits

\* A target passes its gates only when each has let it through, or a webhook has
\* answered a phase that is not known, and a recorded verdict stays (Gate).
AdvanceIsEarned ==
    /\ [](part = "gate" => G!AdvanceIsEarned) /\ [][part = "gate" => G!VerdictKept]_(G!vars)
    /\ [](part = "webhook" => W!AdvanceIsEarned) /\ [][part = "webhook" => W!VerdictKept]_(W!vars)

\* With a gateTimeout the target leaves MetricsCheck, also when no metric can be
\* queried (Gate).
LeavesMetricsCheck ==
    /\ Runs("gate") => G!LeavesMetricsCheck
    /\ Runs("webhook") => W!LeavesMetricsCheck

\* A better value never blocks a metric that passed, and unanimous samples are
\* not decided against (MetricsGate).
MetricsDecide == M!BetterNeverBlocks /\ M!SamplesDecide

\* People are told once, and of what happened (Notification); a trace has the
\* signature of what it says, and gets one in the end (Trace).
OutcomeIsTold ==
    /\ [](N!ToldOnceAndTrue /\ T!SignatureMatches)
    /\ Runs("trace") => T!RepeatedIsSigned

\* A handler is invoked once at a time, and for every phase it names unless an
\* attempt was published under that phase before (Lifecycle).
HandlersHear ==
    /\ [](part = "lifecycle" => L!OneInvocationAtATime)
    /\ Runs("lifecycle") => L!EnteredIsAnnounced
=============================================================================

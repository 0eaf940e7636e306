---------------------------- MODULE Notification ----------------------------
(***************************************************************************)
(* What a Target tells people: notifyPersistedTransitions and              *)
(* notifyGateEvent of internal/controller/target_controller.go, the fan    *)
(* out of internal/notification/engine to the channels of the gate's       *)
(* policy, with its cached credentials, and the links of the approval      *)
(* request.                                                                *)
(*                                                                         *)
(* The reconciler reads the Target from an informer cache, may go through  *)
(* several phases at once, writes the status with a conditional update,    *)
(* then the phase label, and tells the difference it has persisted.  What  *)
(* the phases wait for is in Target and Gate.                              *)
(***************************************************************************)
EXTENDS Naturals, Sequences, FiniteSets

CONSTANTS
    Channels,       \* notification channels of the policy
    Events,         \* events each channel asks for, {} for all of them
    NeedsApproval,  \* whether the policy asks for an approval
    MaxWrites,      \* bound: writes of the Target
    MaxFaults       \* bound: failed calls and restarts

VARIABLES
    target,   \* the Target: status, spec.cancelled and resource version
    seen,     \* its cached copy
    job,      \* the reconcile in progress
    cached,   \* whether the notifier holds a fresh copy of the credentials
    sending,  \* goroutines: one per event and channel
    told,     \* history: how often each event has been given to the notifier
    entered,  \* history: phases that have been persisted
    faults

notifier == <<cached, sending>>
vars == <<target, seen, job, notifier, told, entered, faults>>

-----------------------------------------------------------------------------
\* The phases of a target in their order; the ones before the checks are left
\* out.
Order == <<"Pending", "Soaking", "MetricsCheck", "WaitingApproval", "Applying", "Converged">>
Phases == {Order[i] : i \in DOMAIN Order} \cup {"Failed"}
Rank(phase) == CHOOSE i \in DOMAIN Order : Order[i] = phase
Terminal(phase) == phase \in {"Converged", "Failed"}

\* eventTypeForPhase names the event after the phase; the others are the
\* request for an approval and the result of a gate.
EventTypes == Phases \cup {"approval", "gate"}

Target == [phase : Phases, asked : BOOLEAN, rejected : BOOLEAN, cancelled : BOOLEAN, rv : 0..MaxWrites]
NoJob == [pc |-> "idle", old |-> [phase |-> "Pending", asked |-> FALSE, rejected |-> FALSE,
                                  cancelled |-> FALSE, rv |-> 0],
          phase |-> "Pending", asked |-> FALSE]

\* Every variable stays in its type.
TypeOK ==
    /\ target \in Target /\ seen \in Target
    /\ job \in [pc : {"idle", "update", "label", "tell", "ask"}, old : Target,
                phase : Phases, asked : BOOLEAN]
    /\ cached \in BOOLEAN
    /\ sending \subseteq EventTypes \X Channels
    /\ told \in [EventTypes -> 0..2]
    /\ entered \subseteq Phases
    /\ faults \in 0..MaxFaults

Init ==
    /\ target = NoJob.old /\ seen = target
    /\ job = NoJob
    /\ cached = FALSE
    /\ sending = {}
    /\ told = [e \in EventTypes |-> 0]
    /\ entered = {}
    /\ faults = 0

Fault == faults < MaxFaults /\ faults' = faults + 1

-----------------------------------------------------------------------------
(* The notifier.                                                           *)

MatchesEvent(c, event) == Events[c] = {} \/ event \in Events[c]

\* loadSecret takes the credentials from a copy while that is fresh, and a
\* goroutine sends to each channel that wants the event.  If the secret cannot
\* be read the event is dropped.
Notify(event) ==
    /\ told' = [told EXCEPT ![event] = IF @ < 2 THEN @ + 1 ELSE @]
    /\ \/ /\ cached' = TRUE
          /\ sending' = sending \cup {<<event, c>> : c \in {d \in Channels : MatchesEvent(d, event)}}
          /\ UNCHANGED faults
       \/ ~cached /\ Fault /\ UNCHANGED <<cached, sending>>

\* A channel without its token or its address fails, and so may a send;
\* nothing is tried again.
dispatch(m) ==
    /\ m \in sending
    /\ sending' = sending \ {m}
    /\ UNCHANGED <<target, seen, job, cached, told, entered, faults>>

\* external: the copy is a minute old.
expire ==
    /\ cached
    /\ cached' = FALSE
    /\ UNCHANGED <<target, seen, job, sending, told, entered, faults>>

-----------------------------------------------------------------------------
(* The reconciler.                                                         *)

\* Where advanceTargetUntilStable may end: any later phase, but it stops on
\* entering Applying; a target that goes through WaitingApproval has its
\* request marked as sent, and a rejected one fails there.
Advances(t) ==
    LET last == IF t.phase = "Applying" THEN "Converged" ELSE "Applying"
        through == NeedsApproval /\ Rank(t.phase) <= Rank("WaitingApproval")
    IN  [phase : {"Failed"}, asked : {t.asked}]
        \cup {n \in [phase : {Order[i] : i \in Rank(t.phase)..Rank(last)}, asked : BOOLEAN] :
                /\ n.phase = "WaitingApproval" => NeedsApproval
                /\ n.asked = (t.asked \/ (through /\ Rank(n.phase) >= Rank("WaitingApproval")))
                /\ t.phase = "WaitingApproval" => ~t.rejected}

\* The reconcile of a target that is not over: the phase it comes to, and the
\* result of a gate, which is told before anything is written.
Reconcile ==
    /\ job.pc = "idle" /\ ~Terminal(seen.phase) /\ ~seen.cancelled
    /\ \E n \in Advances(seen) :
         /\ job' = [pc |-> "update", old |-> seen, phase |-> n.phase, asked |-> n.asked]
         /\ \/ seen.phase = "MetricsCheck" /\ n.phase # "MetricsCheck" /\ Notify("gate")
            \/ (seen.phase = "MetricsCheck" => n.phase = "MetricsCheck") /\ UNCHANGED <<told, cached, sending, faults>>
    /\ UNCHANGED <<target, seen, entered>>

\* Fault: the status is written whatever the Target has become.
UpdateOver ==
    /\ job.pc = "update" /\ target.rv < MaxWrites
    /\ target' = [target EXCEPT !.phase = job.phase, !.asked = job.asked, !.rv = @ + 1]
    /\ job' = [job EXCEPT !.pc = "label"]
    /\ entered' = entered \cup {job.phase}
    /\ UNCHANGED <<seen, notifier, told, faults>>

\* The update is refused if the Target has changed since it was read.
updateStatus ==
    /\ job.pc = "update" /\ target.rv < MaxWrites
    /\ IF target.rv = job.old.rv
       THEN /\ target' = [target EXCEPT !.phase = job.phase, !.asked = job.asked, !.rv = @ + 1]
            /\ job' = [job EXCEPT !.pc = "label"]
            /\ entered' = entered \cup {job.phase}
       ELSE job' = NoJob /\ UNCHANGED <<target, entered>>
    /\ UNCHANGED <<seen, notifier, told, faults>>

\* Then the label.  A failure here ends the reconcile, and the next one sees no
\* difference to tell.
syncPhaseLabel ==
    /\ job.pc = "label"
    /\ \/ job' = [job EXCEPT !.pc = "tell"] /\ UNCHANGED faults
       \/ Fault /\ job' = NoJob
    /\ UNCHANGED <<target, seen, notifier, told, entered>>

\* The new phase is told, unless it is WaitingApproval,
notifyPersistedTransitions ==
    /\ job.pc = "tell"
    /\ IF job.old.phase # job.phase /\ job.phase # "WaitingApproval"
       THEN Notify(job.phase) ELSE UNCHANGED <<told, cached, sending, faults>>
    /\ job' = [job EXCEPT !.pc = "ask"]
    /\ UNCHANGED <<target, seen, entered>>

\* and the request for an approval, with a new pair of links.
notifyApprovalRequest ==
    /\ job.pc = "ask"
    /\ IF job.asked /\ ~job.old.asked
       THEN Notify("approval") ELSE UNCHANGED <<told, cached, sending, faults>>
    /\ job' = NoJob
    /\ UNCHANGED <<target, seen, entered>>

\* A cancelled target fails in one write that is repeated on a conflict; that
\* is not told.
cancel ==
    /\ job.pc = "idle" /\ seen.cancelled /\ target.phase # "Failed" /\ target.rv < MaxWrites
    /\ target' = [target EXCEPT !.phase = "Failed", !.rv = @ + 1]
    /\ entered' = entered \cup {"Failed"}
    /\ UNCHANGED <<seen, job, notifier, told, faults>>

-----------------------------------------------------------------------------
(* The surroundings.                                                       *)

syncTarget ==
    /\ seen # target
    /\ seen' = target
    /\ UNCHANGED <<target, job, notifier, told, entered, faults>>

\* external: the webhook records a rejection, the run cancels the target.
reject ==
    /\ ~target.rejected /\ target.phase = "WaitingApproval" /\ target.rv < MaxWrites
    /\ target' = [target EXCEPT !.rejected = TRUE, !.rv = @ + 1]
    /\ UNCHANGED <<seen, job, notifier, told, entered, faults>>

cancelTarget ==
    /\ ~target.cancelled /\ ~Terminal(target.phase) /\ target.rv < MaxWrites
    /\ target' = [target EXCEPT !.cancelled = TRUE, !.rv = @ + 1]
    /\ UNCHANGED <<seen, job, notifier, told, entered, faults>>

\* The operator stops: what is being sent is lost with the reconcile.
crash ==
    /\ (job.pc # "idle" \/ sending # {}) /\ Fault
    /\ job' = NoJob /\ sending' = {}
    /\ cached' = FALSE
    /\ UNCHANGED <<target, seen, told, entered>>

Next ==
    \/ Reconcile \/ updateStatus \/ syncPhaseLabel
    \/ notifyPersistedTransitions \/ notifyApprovalRequest \/ cancel
    \/ (\E m \in sending : dispatch(m)) \/ expire
    \/ syncTarget \/ reject \/ cancelTarget \/ crash

Spec == Init /\ [][Next]_vars

-----------------------------------------------------------------------------
(* Properties.                                                             *)

\* Nobody is told of a phase the target did not enter, or told twice, and an
\* approval is asked for once, although the reconciler reads old copies and
\* loses its writes to others (notifyPersistedTransitions after the update).
ToldOnceAndTrue ==
    /\ \A p \in Phases : told[p] <= 1 /\ (told[p] = 1 => p \in entered)
    /\ told["approval"] <= 1

=============================================================================

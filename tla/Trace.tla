-------------------------------- MODULE Trace --------------------------------
(***************************************************************************)
(* Decision traces (internal/decisiontrace): the records that the          *)
(* reconcilers write of the decisions of one scope, a target's phases or   *)
(* the evaluations of a gate.                                              *)
(*                                                                         *)
(* A trace is named by the hash of everything in it but its time and its   *)
(* evidence, so that a decision that is taken again has the name of the    *)
(* earlier one.  One reconciler at a time writes the traces of a scope.    *)
(* Signing is configured; a failure is logged by the reconciler, which     *)
(* goes on.                                                                *)
(***************************************************************************)
EXTENDS Naturals

CONSTANTS
    Phases,     \* the outcomes a decision may have, which name its trace
    Evidence,   \* what a decision was based on
    MaxTime,    \* bound: seconds
    MaxFaults   \* bound: failed calls and restarts

VARIABLES
    clock,
    trace,      \* the DecisionTraces
    seen,       \* the cached copies of them
    work,       \* the Emit in progress
    faults

vars == <<clock, trace, seen, work, faults>>

-----------------------------------------------------------------------------
NoPhase == "none"
Optional(S) == S \union {[none |-> TRUE]}
Absent == [none |-> TRUE]

TraceSpec == [evidence : Evidence, time : 0..MaxTime]
DecisionTrace == [spec : TraceSpec, signature : Optional(TraceSpec)]
Work == [pc : {"idle", "create", "sign", "patch"}, phase : Phases \union {NoPhase},
         spec : Optional(TraceSpec)]
Idle == [pc |-> "idle", phase |-> NoPhase, spec |-> Absent]

\* Every variable stays in its type.
TypeOK ==
    /\ clock \in 0..MaxTime
    /\ trace \in [Phases -> Optional(DecisionTrace)]
    /\ seen \in [Phases -> Optional(DecisionTrace)]
    /\ work \in Work
    /\ faults \in 0..MaxFaults

Init ==
    /\ clock = 0
    /\ trace = [p \in Phases |-> Absent] /\ seen = trace
    /\ work = Idle
    /\ faults = 0

Fault ==
    /\ faults < MaxFaults
    /\ faults' = faults + 1

-----------------------------------------------------------------------------
(* The emitter.                                                            *)

\* The trace of a decision holds its evidence, whichever the kind.
decisionEvidence(e) == [evidence |-> e, time |-> clock]

\* A reconcile decides, and may decide the same again when it is repeated.
emitDecisionTrace(p, e) ==
    /\ work.pc = "idle"
    /\ work' = [pc |-> "create", phase |-> p, spec |-> decisionEvidence(e)]
    /\ UNCHANGED <<clock, trace, seen, faults>>

\* A trace that exists already counts as created; either is then signed.
emit ==
    /\ work.pc = "create"
    /\ trace' = IF trace[work.phase] # Absent THEN trace
                ELSE [trace EXCEPT ![work.phase] = [spec |-> work.spec, signature |-> Absent]]
    /\ work' = [work EXCEPT !.pc = "sign"]
    /\ UNCHANGED <<clock, seen, faults>>

SignDecisionTrace(copy) == copy.spec

\* The cached copy is read.  Where there is none yet the emit fails.
signExisting ==
    LET copy == seen[work.phase]
    IN  /\ work.pc = "sign"
        /\ work' = IF copy = Absent THEN Idle
                   ELSE IF copy.signature # Absent THEN Idle
                   ELSE [work EXCEPT !.pc = "patch", !.spec = SignDecisionTrace(copy)]
        /\ UNCHANGED <<clock, trace, seen, faults>>

patchSignature ==
    /\ work.pc = "patch"
    /\ trace' = [trace EXCEPT ![work.phase].signature = work.spec]
    /\ work' = Idle
    /\ UNCHANGED <<clock, seen, faults>>

\* A call fails, or the operator restarts.
failEmit ==
    /\ work.pc # "idle" /\ Fault
    /\ work' = Idle
    /\ UNCHANGED <<clock, trace, seen>>

syncTrace(p) ==
    /\ seen[p] # trace[p] /\ seen' = [seen EXCEPT ![p] = trace[p]]
    /\ UNCHANGED <<clock, trace, work, faults>>

tick ==
    /\ clock < MaxTime /\ clock' = clock + 1
    /\ UNCHANGED <<trace, seen, work, faults>>

Emit == emit \/ signExisting \/ patchSignature

Next ==
    \/ \E p \in Phases : syncTrace(p) \/ \E e \in Evidence : emitDecisionTrace(p, e)
    \/ Emit \/ failEmit
    \/ tick

Spec == Init /\ [][Next]_vars

-----------------------------------------------------------------------------
(* Properties.                                                             *)

\* A signature is that of the trace as it is stored, also when the decision was
\* taken again with other evidence (signExisting signs what it reads).
SignatureMatches ==
    \A p \in Phases : trace[p] # Absent =>
       trace[p].signature \in {Absent, trace[p].spec}

\* A decision that is taken again and again has its trace signed in the end,
\* although the first emit fails when the cache has not seen its own trace
\* (emit signs a trace that exists already).
RepeatedIsSigned ==
    \A p \in Phases :
       ([]<>(work.pc = "create" /\ work.phase = p)) => []<>(trace[p] # Absent /\ trace[p].signature # Absent)

=============================================================================

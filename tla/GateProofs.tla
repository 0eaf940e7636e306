------------------------------ MODULE GateProofs ------------------------------
(* Proofs about Gate: a target passes its gates only when each has let it  *)
(* through, or is a webhook that answered a phase the controller does not  *)
(* know, and a verdict stays, for every sequence of templates.             *)
EXTENDS Gate, TLAPS

\* The templates are in a sequence, each of its type.
TemplatesAssumption == Templates \in Seq(Template) /\ MaxFaults \in Nat

-----------------------------------------------------------------------------
(* Type correctness.                                                       *)

\* The statuses of all templates.
Statuses == {g \in [T -> [phase : GatePhases, attempts : Nat]] : \A t \in T : g[t] \in GateRunStatus(t)}

\* As long as a template has no verdict it has attempts left.
Unfinished(g) ==
    \A t \in T : g[t].phase \notin {"Passed", "Failed"} => g[t].attempts < Templates[t].maxAttempts

\* The copies of the statuses are of their type and have attempts left.
StatusInv ==
    /\ gates \in Statuses /\ seen \in Statuses /\ work.gates \in Statuses
    /\ Unfinished(gates) /\ Unfinished(seen) /\ Unfinished(work.gates)

LEMMA TemplateType ==
    ASSUME TemplatesAssumption
    PROVE  /\ T = 1..Len(Templates) /\ Len(Templates) \in Nat
           /\ \A t \in T : Templates[t] \in Template /\ Templates[t].maxAttempts \in Nat \ {0}
<1>1. T = 1..Len(Templates) /\ Len(Templates) \in Nat
  BY DEF T, TemplatesAssumption
<1>2. \A t \in T : Templates[t] \in Template
  BY <1>1 DEF TemplatesAssumption
<1> QED
  BY <1>1, <1>2 DEF Template

\* No attempts have been made at first.
LEMMA NewType ==
    ASSUME TemplatesAssumption
    PROVE  NoGates \in Statuses /\ Unfinished(NoGates) /\ Idle \in Work /\ Idle.gates = NoGates
<1>1. \A t \in T : NewStatus \in GateRunStatus(t) /\ NewStatus.attempts = 0 /\ NewStatus.phase = "Pending"
  BY TemplateType DEF NewStatus, GateRunStatus, Known
<1>2. NewStatus \in [phase : GatePhases, attempts : Nat]
  BY DEF NewStatus, GatePhases, Known
<1>3. NoGates \in Statuses
  BY <1>1, <1>2 DEF NoGates, Statuses
<1>4. Unfinished(NoGates)
  BY <1>1, TemplateType DEF NoGates, Unfinished
<1> QED
  BY <1>3, <1>4, TemplateType DEF Idle, Work, Statuses

\* One more attempt, whatever its result, is within the maximum, and the last
\* one ends with a verdict.
LEMMA JudgedType ==
    ASSUME TemplatesAssumption, NEW t \in T, NEW a \in Nat, a < Templates[t].maxAttempts,
           NEW result \in Answers(t)
    PROVE  /\ [phase |-> Judged(t, result, a + 1), attempts |-> a + 1] \in GateRunStatus(t)
           /\ [phase |-> Errored(t, a + 1), attempts |-> a + 1] \in GateRunStatus(t)
           /\ Judged(t, result, a + 1) \in {"Passed", "Failed"} \/ a + 1 < Templates[t].maxAttempts
           /\ Errored(t, a + 1) = "Failed" \/ (Errored(t, a + 1) = "Running" /\ a + 1 < Templates[t].maxAttempts)
<1>1. Templates[t].maxAttempts \in Nat
  BY TemplateType
<1>2. a + 1 \in 0..Templates[t].maxAttempts
  BY <1>1
<1>3. Judged(t, result, a + 1) \in Known \cup Answers(t)
  BY DEF Judged, Known
<1>4. a + 1 >= Templates[t].maxAttempts => Judged(t, result, a + 1) \in {"Passed", "Failed"}
  BY DEF Judged
<1>5. Errored(t, a + 1) \in {"Failed", "Running"}
      /\ (a + 1 >= Templates[t].maxAttempts => Errored(t, a + 1) = "Failed")
  BY DEF Errored
<1>6. a + 1 >= Templates[t].maxAttempts \/ a + 1 < Templates[t].maxAttempts
  BY <1>1
<1> QED
  BY <1>2, <1>3, <1>4, <1>5, <1>6 DEF GateRunStatus, Known

\* What the evaluation of a template makes of the statuses in hand.
LEMMA StoreStep ==
    ASSUME TemplatesAssumption, TypeOK, StatusInv, NEW t \in T, ~Finished(t), Turn(t),
           \/ \E r \in Answers(t) : Record(t, r)
           \/ RecordError(t)
    PROVE  /\ work' \in Work /\ work'.gates \in Statuses /\ Unfinished(work'.gates)
           /\ work'.pc = work.pc /\ work'.current = work.current /\ work'.next = work.next
           /\ work'.at = t + 1 /\ (~work'.blocked => ~work.blocked /\ ~Blocks(work'.gates[t].phase))
           /\ \A u \in T \ {t} : work'.gates[u] = work.gates[u]
           /\ earned \subseteq earned' /\ earned' \in SUBSET T
           /\ work'.gates[t].phase = "Passed" => t \in earned'
<1> DEFINE a == work.gates[t].attempts
           old == [phase : GatePhases, attempts : Nat]
<1>0. /\ work \in Work /\ work.gates \in Statuses /\ Unfinished(work.gates)
      /\ earned \in SUBSET T /\ t \in 1..Len(Templates) /\ Len(Templates) \in Nat
  BY TemplateType DEF TypeOK, StatusInv
<1>1. work.gates \in [T -> old] /\ \A u \in T : work.gates[u] \in GateRunStatus(u)
  BY <1>0 DEF Statuses
<1>2. a \in Nat /\ a < Templates[t].maxAttempts
  BY <1>0, <1>1 DEF Unfinished, Finished
<1>3. PICK p : /\ Store(t, p, a + 1)
               /\ [phase |-> p, attempts |-> a + 1] \in GateRunStatus(t)
               /\ p \in {"Passed", "Failed"} \/ a + 1 < Templates[t].maxAttempts
               /\ earned' = earned \/ earned' = earned \cup {t}
               /\ p = "Passed" => t \in earned'
  <2>1. ASSUME NEW r \in Answers(t), Record(t, r)
        PROVE  \E p : /\ Store(t, p, a + 1)
                      /\ [phase |-> p, attempts |-> a + 1] \in GateRunStatus(t)
                      /\ p \in {"Passed", "Failed"} \/ a + 1 < Templates[t].maxAttempts
                      /\ earned' = earned \/ earned' = earned \cup {t}
                      /\ p = "Passed" => t \in earned'
    <3> WITNESS Judged(t, r, a + 1)
    <3> QED
      BY <1>2, <2>1, JudgedType DEF Record
  <2>2. ASSUME RecordError(t)
        PROVE  \E p : /\ Store(t, p, a + 1)
                      /\ [phase |-> p, attempts |-> a + 1] \in GateRunStatus(t)
                      /\ p \in {"Passed", "Failed"} \/ a + 1 < Templates[t].maxAttempts
                      /\ earned' = earned \/ earned' = earned \cup {t}
                      /\ p = "Passed" => t \in earned'
    <3>1. Store(t, Errored(t, a + 1), a + 1) /\ earned' = earned
      BY <2>2 DEF RecordError
    <3>2. "Failed" \in Answers(t)
      BY TemplateType DEF Template, Answers, GatePhases, Known
    <3>3. /\ [phase |-> Errored(t, a + 1), attempts |-> a + 1] \in GateRunStatus(t)
          /\ Errored(t, a + 1) = "Failed" \/ (Errored(t, a + 1) = "Running" /\ a + 1 < Templates[t].maxAttempts)
      BY <1>2, <3>2, JudgedType
    <3> WITNESS Errored(t, a + 1)
    <3> HIDE DEF a
    <3> QED
      BY <3>1, <3>3
  <2> QED
    BY <2>1, <2>2
<1> DEFINE new == [phase |-> p, attempts |-> a + 1]
           g == [work.gates EXCEPT ![t] = new]
           b == work.blocked \/ Blocks(p)
<1>4. work' = [work EXCEPT !.at = t + 1, !.gates = g, !.blocked = b] /\ b \in BOOLEAN
  BY <1>0, <1>3 DEF Store, Work, Blocks
<1>5. new \in old /\ new.phase = p /\ new.attempts = a + 1
  <2>1. Known \cup Answers(t) \subseteq GatePhases
    BY DEF Known, Answers, GatePhases
  <2> QED
    BY <1>2, <1>3, <2>1 DEF GateRunStatus
<1>6. g \in [T -> old] /\ \A u \in T : g[u] = IF u = t THEN new ELSE work.gates[u]
  <2> HIDE DEF new
  <2> QED
    BY <1>1, <1>5
<1>7. g \in Statuses
  <2> HIDE DEF g, new
  <2>1. new \in GateRunStatus(t)
    BY <1>3 DEF new
  <2> QED
    BY <1>1, <1>6, <2>1 DEF Statuses
<1>8. Unfinished(g)
  <2> HIDE DEF g, new
  <2> QED
    BY <1>0, <1>3, <1>5, <1>6 DEF Unfinished
<1>9. t + 1 \in 1..Len(Templates) + 1
  BY <1>0
<1>10. /\ work' \in Work /\ work'.gates = g /\ work'.pc = work.pc
       /\ work'.current = work.current /\ work'.next = work.next
       /\ work'.at = t + 1 /\ work'.blocked = b
  <2> HIDE DEF g, new, b
  <2> QED
    BY <1>0, <1>4, <1>6, <1>9 DEF Work
<1>11. work'.gates[t].phase = p /\ \A u \in T \ {t} : work'.gates[u] = work.gates[u]
  <2> HIDE DEF g, new
  <2> QED
    BY <1>5, <1>6, <1>10
<1>13. ~work'.blocked => ~work.blocked /\ ~Blocks(work'.gates[t].phase)
  BY <1>10, <1>11
<1>12. earned \subseteq earned' /\ earned' \in SUBSET T
  BY <1>0, <1>3
<1> HIDE DEF g, new, b
<1> QED
  BY <1>3, <1>7, <1>8, <1>10, <1>11, <1>12, <1>13

\* The evaluation of a template goes on, ends the reconcile or judges a status
\* that has no verdict yet.
LEMMA EvaluateStep ==
    ASSUME TemplatesAssumption, TypeOK, StatusInv, NEW t \in T, Evaluate(t)
    PROVE  /\ UNCHANGED <<phase, gates, seen, registered, late>>
           /\ work' \in Work /\ work'.gates \in Statuses /\ Unfinished(work'.gates)
           /\ earned \subseteq earned' /\ earned' \in SUBSET T
           /\ work.pc = "templates" /\ work.at = t
           /\ work' # Idle =>
                 work'.at = t + 1 /\ (~work'.blocked => ~work.blocked /\ ~Blocks(work'.gates[t].phase))
           /\ \/ work' = Idle
              \/ /\ work'.pc = "templates" /\ work'.current = work.current
                 /\ \A u \in T : work'.gates[u] = work.gates[u]
              \/ /\ work'.pc = "templates" /\ work'.current = work.current
                 /\ ~Finished(t)
                 /\ \A u \in T \ {t} : work'.gates[u] = work.gates[u]
                 /\ work'.gates[t].phase = "Passed" => t \in earned'
<1>0. /\ work \in Work /\ work.gates \in Statuses /\ Unfinished(work.gates) /\ earned \in SUBSET T
      /\ work.pc = "templates" /\ work.at = t
  BY DEF TypeOK, StatusInv, Evaluate, Turn, skipFinished, evaluateCEL, callGate, gateForTemplate,
         createJob, pollJob
<1>1. CASE skipFinished(t)
  <2>1. t + 1 \in 1..Len(Templates) + 1
    BY TemplateType
  <2>2. /\ work' \in Work /\ work'.gates = work.gates /\ work'.pc = work.pc
        /\ work'.current = work.current /\ work'.at = t + 1
        /\ work'.blocked = (work.blocked \/ Blocks(work.gates[t].phase))
    BY <1>0, <1>1, <2>1 DEF skipFinished, Work, Blocks
  <2> QED
    BY <1>0, <1>1, <2>2 DEF skipFinished, target, jobs, Turn
<1>2. CASE gateForTemplate(t)
  BY <1>0, <1>2, NewType DEF gateForTemplate, target, jobs
<1>3. CASE evaluateCEL(t) \/ callGate(t) \/ createJob(t) \/ pollJob(t)
  <2>1. /\ UNCHANGED <<phase, gates, seen, registered, late>> /\ ~Finished(t) /\ Turn(t)
    BY <1>3 DEF evaluateCEL, callGate, createJob, pollJob, target
  <2>2. \/ \E r \in Answers(t) : Record(t, r)
        \/ RecordError(t)
    <3>1. CASE evaluateCEL(t) \/ callGate(t)
      BY <3>1 DEF evaluateCEL, callGate
    <3>3. CASE createJob(t)
      <4>1. "Running" \in Answers(t)
        BY <3>3 DEF createJob, Answers, Known
      <4> QED
        BY <3>3, <4>1 DEF createJob
    <3>2. CASE pollJob(t)
      <4>1. PICK r : /\ Record(t, r)
                     /\ r = CASE jseen[t] = "succeeded" -> "Passed"
                              [] jseen[t] = "failed"    -> "Failed"
                              [] OTHER                  -> "Running"
        BY <3>2 DEF pollJob
      <4>2. r \in {"Passed", "Failed", "Running"}
        BY <4>1
      <4>3. {"Passed", "Failed", "Running"} \subseteq Answers(t)
        BY <3>2 DEF pollJob, Answers, Known
      <4> QED
        BY <4>1, <4>2, <4>3
    <3> QED
      BY <1>3, <3>1, <3>2, <3>3
  <2>3. /\ work' \in Work /\ work'.gates \in Statuses /\ Unfinished(work'.gates)
        /\ work'.pc = work.pc /\ work'.current = work.current
        /\ work'.at = t + 1 /\ (~work'.blocked => ~work.blocked /\ ~Blocks(work'.gates[t].phase))
        /\ \A u \in T \ {t} : work'.gates[u] = work.gates[u]
        /\ earned \subseteq earned' /\ earned' \in SUBSET T
        /\ work'.gates[t].phase = "Passed" => t \in earned'
    BY <2>1, <2>2, StoreStep
  <2> QED
    BY <1>0, <2>1, <2>3 DEF Turn
<1> QED
  BY <1>1, <1>2, <1>3 DEF Evaluate

\* What the other steps of a reconcile, and the steps around it, do to the
\* statuses and the work in hand.
LEMMA OtherSteps ==
    ASSUME TemplatesAssumption, TypeOK, StatusInv, [Next]_vars, \A t \in T : ~Evaluate(t)
    PROVE  /\ UNCHANGED earned
           /\ phase' \in {"MetricsCheck", "Next", "Failed"}
           /\ work' \in Work
           /\ seen' \in {seen, gates}
           /\ \/ /\ UNCHANGED <<phase, gates>> /\ work' = Idle
              \/ /\ UNCHANGED <<phase, gates>> /\ work'.gates = seen /\ work'.pc = "metrics"
                 /\ work'.at = 1 /\ work'.current = (seen = gates)
              \/ /\ UNCHANGED <<phase, gates>> /\ work'.gates = work.gates
                 /\ work'.current = work.current \/ work'.current = FALSE
                 /\ \/ /\ work'.pc = work.pc /\ work'.next = work.next
                       /\ work'.at = work.at /\ work'.blocked = work.blocked
                    \/ work'.pc = "write" /\ work'.next \in {"MetricsCheck", "Failed"}
                    \/ work.pc = "metrics" /\ work'.pc = "templates" /\ work'.at = work.at
                    \/ /\ work'.pc = "write" /\ work'.next = "Next"
                       /\ work.pc = "templates" /\ work.at = Len(Templates) + 1 /\ ~work.blocked
              \/ /\ work.pc = "write" /\ work.current
                 /\ gates' = work.gates /\ phase' = work.next /\ work' = Idle
<1> USE DEF target, jobs
<1>0. work \in Work /\ gates \in Statuses /\ seen \in Statuses /\ Idle \in Work
      /\ phase \in {"MetricsCheck", "Next", "Failed"}
  BY NewType DEF TypeOK, StatusInv
<1>1. CASE beginReconcile
  <2> DEFINE w == [pc |-> "metrics", at |-> 1, gates |-> seen, blocked |-> FALSE,
                   current |-> seen = gates, next |-> "MetricsCheck"]
  <2>1. seen \in [T -> [phase : GatePhases, attempts : Nat]] /\ 1 \in 1..Len(Templates) + 1
    BY <1>0, TemplateType DEF Statuses
  <2>2. w \in Work /\ w.gates = seen /\ w.pc = "metrics" /\ w.at = 1 /\ w.current = (seen = gates)
    BY <2>1 DEF Work
  <2>3. work' = w /\ UNCHANGED <<phase, gates, seen, earned>>
    BY <1>1 DEF beginReconcile
  <2> HIDE DEF w
  <2> QED
    BY <1>0, <2>2, <2>3
<1>2. CASE evaluateMetrics
  <2>1. UNCHANGED <<phase, gates, seen, earned>>
    BY <1>2 DEF evaluateMetrics
  <2>2. \/ work' = [work EXCEPT !.pc = "templates"]
        \/ work' = [work EXCEPT !.pc = "write", !.next = metricsGateTimedOut]
    BY <1>2 DEF evaluateMetrics
  <2>3. metricsGateTimedOut \in {"MetricsCheck", "Failed"}
    BY DEF metricsGateTimedOut
  <2>4. CASE work' = [work EXCEPT !.pc = "templates"]
    <3>1. /\ work' \in Work /\ work'.gates = work.gates /\ work'.current = work.current
          /\ work'.pc = "templates" /\ work'.at = work.at /\ work.pc = "metrics"
      BY <1>0, <1>2, <2>4 DEF Work, evaluateMetrics
    <3> QED
      BY <1>0, <2>1, <3>1
  <2>5. CASE work' = [work EXCEPT !.pc = "write", !.next = metricsGateTimedOut]
    <3>1. /\ work' \in Work /\ work'.gates = work.gates /\ work'.current = work.current
          /\ work'.pc = "write" /\ work'.next = metricsGateTimedOut
      BY <1>0, <2>3, <2>5 DEF Work
    <3> QED
      BY <1>0, <2>1, <2>3, <3>1
  <2> QED
    BY <2>2, <2>4, <2>5
<1>3. CASE evaluateGateTemplates
  <2> DEFINE n == IF work.blocked THEN metricsGateTimedOut ELSE "Next"
  <2>1. /\ n \in {"MetricsCheck", "Failed"} \/ (n = "Next" /\ ~work.blocked)
        /\ work.pc = "templates" /\ work.at = Len(Templates) + 1
    BY <1>3 DEF metricsGateTimedOut, evaluateGateTemplates, Turn
  <2>2. UNCHANGED <<phase, gates, seen, earned>> /\ work' = [work EXCEPT !.pc = "write", !.next = n]
    BY <1>3 DEF evaluateGateTemplates
  <2> HIDE DEF n
  <2>3. /\ work' \in Work /\ work'.gates = work.gates /\ work'.current = work.current
        /\ work'.pc = "write" /\ work'.next = n
    BY <1>0, <2>1, <2>2 DEF Work
  <2> QED
    BY <1>0, <2>1, <2>2, <2>3
<1>4. CASE writeStatus
  <2>1. work.next \in {"MetricsCheck", "Next", "Failed"}
    BY <1>0 DEF Work
  <2> QED
    BY <1>0, <1>4, <2>1 DEF writeStatus
<1>5. CASE restart
  <2>1. UNCHANGED <<phase, gates, seen, earned>>
    BY <1>5 DEF restart
  <2>2. CASE work' = Idle
    BY <1>0, <2>1, <2>2
  <2>3. CASE work' = [work EXCEPT !.current = FALSE]
    <3>1. /\ work' \in Work /\ work'.gates = work.gates /\ work'.current = FALSE
          /\ work'.pc = work.pc /\ work'.next = work.next
          /\ work'.at = work.at /\ work'.blocked = work.blocked
      BY <1>0, <2>3 DEF Work
    <3> QED
      BY <1>0, <2>1, <3>1
  <2> QED
    BY <1>5, <2>2, <2>3 DEF restart
<1>6. CASE syncTarget \/ syncJobs \/ finishJob \/ register \/ timeout \/ UNCHANGED vars
  BY <1>0, <1>6 DEF syncTarget, syncJobs, finishJob, register, timeout, vars
<1> QED
  BY <1>1, <1>2, <1>3, <1>4, <1>5, <1>6 DEF Next, Reconcile

\* The Jobs and the world around keep their types.
LEMMA WorldStep ==
    ASSUME TemplatesAssumption, TypeOK, [Next]_vars
    PROVE  /\ job' \in [T -> JobPhases] /\ jseen' \in [T -> JobPhases]
           /\ registered' \in BOOLEAN /\ late' \in BOOLEAN /\ faults' \in 0..MaxFaults
<1> USE DEF target, jobs
<1>0. /\ job \in [T -> JobPhases] /\ jseen \in [T -> JobPhases]
      /\ registered \in BOOLEAN /\ late \in BOOLEAN /\ faults \in 0..MaxFaults /\ MaxFaults \in Nat
  BY DEF TypeOK, TemplatesAssumption
<1>1. ASSUME NEW t \in T, Evaluate(t)
      PROVE  UNCHANGED <<jseen, registered, late>> /\ job' \in [T -> JobPhases] /\ faults' \in 0..MaxFaults
  <2>1. CASE skipFinished(t) \/ evaluateCEL(t) \/ callGate(t) \/ gateForTemplate(t)
    BY <1>0, <2>1 DEF skipFinished, evaluateCEL, callGate, gateForTemplate
  <2>2. CASE createJob(t)
    <3>1. UNCHANGED <<jseen, registered, late>>
      BY <2>2 DEF createJob
    <3>2. job' \in [T -> JobPhases]
      BY <1>0, <2>2 DEF createJob, JobPhases
    <3>3. faults' = faults \/ (faults < MaxFaults /\ faults' = faults + 1)
      BY <2>2 DEF createJob, Fault
    <3> QED
      BY <1>0, <3>1, <3>2, <3>3
  <2>3. CASE pollJob(t)
    BY <1>0, <2>3 DEF pollJob, JobPhases
  <2> QED
    BY <1>1, <2>1, <2>2, <2>3 DEF Evaluate
<1>2. CASE beginReconcile \/ evaluateMetrics \/ evaluateGateTemplates
  BY <1>0, <1>2 DEF beginReconcile, evaluateMetrics, evaluateGateTemplates
<1>3. CASE writeStatus \/ restart \/ register
  <2>1. UNCHANGED <<job, jseen, late>> /\ registered' \in BOOLEAN
    BY <1>0, <1>3 DEF writeStatus, restart, register
  <2>2. faults' = faults \/ (faults < MaxFaults /\ faults' = faults + 1)
    BY <1>3 DEF writeStatus, restart, register, Fault
  <2> QED
    BY <1>0, <2>1, <2>2
<1>4. CASE syncTarget \/ syncJobs \/ timeout \/ UNCHANGED vars
  BY <1>0, <1>4 DEF syncTarget, syncJobs, timeout, vars
<1>5. CASE finishJob
  BY <1>0, <1>5 DEF finishJob, JobPhases
<1> QED
  BY <1>0, <1>1, <1>2, <1>3, <1>4, <1>5 DEF Next, Reconcile

\* The statuses stay of their type, and have attempts left, in every step.
LEMMA StatusStep ==
    ASSUME TemplatesAssumption, TypeOK, StatusInv, [Next]_vars
    PROVE  StatusInv' /\ phase' \in {"MetricsCheck", "Next", "Failed"} /\ work' \in Work
           /\ earned' \in SUBSET T
<1>0. /\ gates \in Statuses /\ seen \in Statuses /\ work.gates \in Statuses
      /\ Unfinished(gates) /\ Unfinished(seen) /\ Unfinished(work.gates)
      /\ NoGates \in Statuses /\ Unfinished(NoGates) /\ Idle.gates = NoGates
      /\ phase \in {"MetricsCheck", "Next", "Failed"} /\ earned \in SUBSET T
  BY NewType DEF TypeOK, StatusInv
<1>1. CASE \E t \in T : Evaluate(t)
  <2>1. PICK t \in T : Evaluate(t)
    BY <1>1
  <2>2. /\ UNCHANGED <<phase, gates, seen>>
        /\ work' \in Work /\ work'.gates \in Statuses /\ Unfinished(work'.gates)
        /\ earned' \in SUBSET T
    BY <2>1, EvaluateStep
  <2>3. gates' \in Statuses /\ seen' \in Statuses /\ Unfinished(gates') /\ Unfinished(seen')
    BY <1>0, <2>2
  <2> QED
    BY <1>0, <2>2, <2>3 DEF StatusInv, Statuses, Unfinished
<1>2. CASE \A t \in T : ~Evaluate(t)
  <2>1. /\ UNCHANGED earned /\ phase' \in {"MetricsCheck", "Next", "Failed"} /\ work' \in Work
        /\ seen' \in {seen, gates}
        /\ gates' \in {gates, work.gates}
        /\ work'.gates \in {NoGates, seen, work.gates}
    BY <1>0, <1>2, OtherSteps
  <2>2. /\ gates' \in Statuses /\ seen' \in Statuses /\ work'.gates \in Statuses
        /\ Unfinished(gates') /\ Unfinished(seen') /\ Unfinished(work'.gates)
    BY <1>0, <2>1
  <2> QED
    BY <1>0, <2>1, <2>2 DEF StatusInv, Statuses, Unfinished
<1> QED
  BY <1>1, <1>2

\* Every status is of its type, and a template without a verdict has attempts
\* left, in every state: an attempt is never counted beyond maxAttempts
\* (evaluateGateTemplates).
THEOREM GateTypeCorrect == ASSUME TemplatesAssumption PROVE Spec => [](TypeOK /\ StatusInv)
<1>1. Init => TypeOK /\ StatusInv
  <2> SUFFICES ASSUME Init PROVE TypeOK /\ StatusInv
    OBVIOUS
  <2>1. NoGates \in Statuses /\ Unfinished(NoGates) /\ Idle \in Work /\ Idle.gates = NoGates
    BY NewType
  <2>2. gates = NoGates /\ seen = NoGates /\ work = Idle
    BY DEF Init
  <2>3. StatusInv
    BY <2>1, <2>2 DEF StatusInv
  <2>4. job \in [T -> JobPhases] /\ jseen \in [T -> JobPhases]
    BY DEF Init, JobPhases
  <2>5. \A t \in T : /\ gates[t] \in GateRunStatus(t) /\ seen[t] \in GateRunStatus(t)
                     /\ work.gates[t] \in GateRunStatus(t)
    BY <2>1, <2>2 DEF Statuses
  <2>6. /\ phase \in {"MetricsCheck", "Next", "Failed"} /\ registered \in BOOLEAN /\ late \in BOOLEAN
        /\ earned \in SUBSET T
    BY DEF Init
  <2>9. faults \in 0..MaxFaults
    BY DEF Init, TemplatesAssumption
  <2>7. work \in Work
    BY <2>1, <2>2
  <2>8. \A t \in T : Templates[t] \in Template
    BY TemplateType
  <2> QED
    BY <2>3, <2>4, <2>5, <2>6, <2>7, <2>8, <2>9 DEF TypeOK
<1>2. TypeOK /\ StatusInv /\ [Next]_vars => (TypeOK /\ StatusInv)'
  <2> SUFFICES ASSUME TypeOK, StatusInv, [Next]_vars PROVE TypeOK' /\ StatusInv'
    OBVIOUS
  <2>1. StatusInv' /\ phase' \in {"MetricsCheck", "Next", "Failed"} /\ work' \in Work
        /\ earned' \in SUBSET T
    BY StatusStep
  <2>2. /\ job' \in [T -> JobPhases] /\ jseen' \in [T -> JobPhases]
        /\ registered' \in BOOLEAN /\ late' \in BOOLEAN /\ faults' \in 0..MaxFaults
    BY WorldStep
  <2>3. \A t \in T : /\ gates'[t] \in GateRunStatus(t) /\ seen'[t] \in GateRunStatus(t)
                     /\ work'.gates[t] \in GateRunStatus(t)
    BY <2>1 DEF StatusInv, Statuses
  <2>4. \A t \in T : Templates[t] \in Template
    BY TemplateType
  <2> QED
    BY <2>1, <2>2, <2>3, <2>4 DEF TypeOK
<1> QED
  BY <1>1, <1>2, PTL DEF Spec

-----------------------------------------------------------------------------
(* Advancing, and verdicts.                                                *)

\* A status recorded as passed, in the cluster, in the cache or in the hands of
\* a reconcile, was let through by the evaluator of its template; and none of the
\* templates behind a reconcile that is not blocked blocks.
EarnedInv ==
    /\ \A t \in T : /\ gates[t].phase = "Passed" => t \in earned
                    /\ seen[t].phase = "Passed" => t \in earned
                    /\ work.gates[t].phase = "Passed" => t \in earned
    /\ work.pc = "metrics" => work.at = 1
    /\ work.pc = "templates" /\ ~work.blocked =>
          \A t \in T : t < work.at => ~Blocks(work.gates[t].phase)
    /\ work.pc = "write" /\ work.next = "Next" => \A t \in T : ~Blocks(work.gates[t].phase)
    /\ phase = "Next" => \A t \in T : ~Blocks(gates[t].phase)

\* A reconcile whose copy is current has every recorded verdict in hand.
KeptInv ==
    work.current =>
        \A t \in T : gates[t].phase \in {"Passed", "Failed"} => work.gates[t] = gates[t]

\* What is passed was let through, after every step.
LEMMA EarnedStep ==
    ASSUME TemplatesAssumption, TypeOK, StatusInv, EarnedInv, [Next]_vars
    PROVE  EarnedInv'
<1>0. /\ earned \in SUBSET T /\ \A t \in T : NoGates[t].phase = "Pending"
      /\ Idle.gates = NoGates /\ Idle.pc = "idle" /\ T = 1..Len(Templates) /\ Len(Templates) \in Nat
  BY TemplateType DEF TypeOK, NoGates, NewStatus, Idle
<1>1. CASE \E t \in T : Evaluate(t)
  <2>1. PICK t \in T : Evaluate(t)
    BY <1>1
  <2>2. /\ UNCHANGED <<phase, gates, seen>> /\ earned \subseteq earned' /\ earned' \in SUBSET T
        /\ work.pc = "templates" /\ work.at = t
        /\ work' # Idle =>
              work'.at = t + 1 /\ (~work'.blocked => ~work.blocked /\ ~Blocks(work'.gates[t].phase))
        /\ \/ work' = Idle
           \/ /\ work'.pc = "templates"
              /\ \A u \in T : work'.gates[u] = work.gates[u]
           \/ /\ work'.pc = "templates"
              /\ \A u \in T \ {t} : work'.gates[u] = work.gates[u]
              /\ work'.gates[t].phase = "Passed" => t \in earned'
    BY <2>1, EvaluateStep
  <2>3. \A u \in T : work'.gates[u].phase = "Passed" => u \in earned'
    BY <1>0, <2>2 DEF EarnedInv
  <2>4. work'.pc \in {"idle", "templates"}
    BY <1>0, <2>2
  <2>5. work'.pc = "templates" /\ ~work'.blocked =>
           \A u \in T : u < work'.at => ~Blocks(work'.gates[u].phase)
    <3> SUFFICES ASSUME work'.pc = "templates", ~work'.blocked, NEW u \in T, u < work'.at
                 PROVE  ~Blocks(work'.gates[u].phase)
      OBVIOUS
    <3>1. ~work.blocked /\ ~Blocks(work'.gates[t].phase) /\ u < t + 1
      BY <1>0, <2>2
    <3>2. u = t \/ u < t
      BY <1>0, <3>1
    <3>3. u < t => ~Blocks(work.gates[u].phase)
      BY <2>2, <3>1 DEF EarnedInv
    <3>4. u # t => work'.gates[u] = work.gates[u]
      BY <1>0, <2>2
    <3> QED
      BY <3>1, <3>2, <3>3, <3>4
  <2> QED
    BY <2>2, <2>3, <2>4, <2>5 DEF EarnedInv
<1>2. CASE \A t \in T : ~Evaluate(t)
  <2>1. /\ UNCHANGED earned /\ seen' \in {seen, gates}
        /\ \/ /\ UNCHANGED <<phase, gates>> /\ work' = Idle
           \/ /\ UNCHANGED <<phase, gates>> /\ work'.gates = seen /\ work'.pc = "metrics"
              /\ work'.at = 1
           \/ /\ UNCHANGED <<phase, gates>> /\ work'.gates = work.gates
              /\ \/ /\ work'.pc = work.pc /\ work'.next = work.next
                    /\ work'.at = work.at /\ work'.blocked = work.blocked
                 \/ work'.pc = "write" /\ work'.next \in {"MetricsCheck", "Failed"}
                 \/ work.pc = "metrics" /\ work'.pc = "templates" /\ work'.at = work.at
                 \/ /\ work'.pc = "write" /\ work'.next = "Next"
                    /\ work.pc = "templates" /\ work.at = Len(Templates) + 1 /\ ~work.blocked
           \/ /\ work.pc = "write"
              /\ gates' = work.gates /\ phase' = work.next /\ work' = Idle
    BY <1>2, OtherSteps
  <2>2. \A t \in T : seen'[t].phase = "Passed" => t \in earned'
    BY <2>1 DEF EarnedInv
  <2>3. \A t \in T : gates'[t].phase = "Passed" => t \in earned'
    BY <2>1 DEF EarnedInv
  <2>4. \A t \in T : work'.gates[t].phase = "Passed" => t \in earned'
    BY <1>0, <2>1 DEF EarnedInv
  <2>5. phase' = "Next" => \A t \in T : ~Blocks(gates'[t].phase)
    BY <2>1 DEF EarnedInv
  <2>6. \A t \in T : t < Len(Templates) + 1 /\ ~(t < 1)
    BY <1>0
  <2>7. work'.pc = "write" /\ work'.next = "Next" => \A t \in T : ~Blocks(work'.gates[t].phase)
    BY <1>0, <2>1, <2>6 DEF EarnedInv
  <2>8. work'.pc = "templates" /\ ~work'.blocked =>
           \A t \in T : t < work'.at => ~Blocks(work'.gates[t].phase)
    BY <1>0, <2>1, <2>6 DEF EarnedInv
  <2>9. work'.pc = "metrics" => work'.at = 1
    BY <1>0, <2>1 DEF EarnedInv
  <2> QED
    BY <2>2, <2>3, <2>4, <2>5, <2>7, <2>8, <2>9 DEF EarnedInv
<1> QED
  BY <1>1, <1>2

\* A verdict stays, and stays in the hands of a reconcile whose copy is current.
LEMMA VerdictStep ==
    ASSUME TemplatesAssumption, TypeOK, StatusInv, KeptInv, [Next]_vars
    PROVE  KeptInv' /\ VerdictKept
<1>0. Idle.current = FALSE
  BY DEF Idle
<1>1. CASE \E t \in T : Evaluate(t)
  <2>1. PICK t \in T : Evaluate(t)
    BY <1>1
  <2>2. /\ UNCHANGED gates
        /\ \/ work' = Idle
           \/ /\ work'.current = work.current
              /\ \A u \in T : work'.gates[u] = work.gates[u]
           \/ /\ work'.current = work.current /\ ~Finished(t)
              /\ \A u \in T \ {t} : work'.gates[u] = work.gates[u]
    BY <2>1, EvaluateStep
  <2>3. VerdictKept
    BY <2>2 DEF VerdictKept
  <2>4. KeptInv'
    BY <1>0, <2>2 DEF KeptInv, Finished
  <2> QED
    BY <2>3, <2>4
<1>2. CASE \A t \in T : ~Evaluate(t)
  <2>1. \/ /\ UNCHANGED gates /\ work' = Idle
        \/ /\ UNCHANGED gates /\ work'.gates = seen /\ work'.current = (seen = gates)
        \/ /\ UNCHANGED gates /\ work'.gates = work.gates
           /\ work'.current = work.current \/ work'.current = FALSE
        \/ /\ work.current /\ gates' = work.gates /\ work' = Idle
    BY <1>2, OtherSteps
  <2>2. VerdictKept
    BY <2>1 DEF VerdictKept, KeptInv
  <2>3. KeptInv'
    BY <1>0, <2>1 DEF KeptInv
  <2> QED
    BY <2>2, <2>3
<1> QED
  BY <1>1, <1>2

\* A target leaves MetricsCheck for the next phase only when the evaluator of
\* every template has let it through, or the template is a webhook that answered a
\* phase the controller does not know; and a recorded verdict is never taken back
\* or judged again, although the results are written in one update that can be
\* lost (evaluateGateTemplates, Reconcile).
THEOREM GatesAreEarned ==
    ASSUME TemplatesAssumption
    PROVE  Spec => []AdvanceIsEarned /\ [][VerdictKept]_vars
<1>1. Init => EarnedInv /\ KeptInv
  BY DEF Init, EarnedInv, KeptInv, NoGates, NewStatus, Idle
<1>2. TypeOK /\ StatusInv /\ EarnedInv /\ [Next]_vars => EarnedInv'
  BY EarnedStep
<1>3. TypeOK /\ StatusInv /\ KeptInv /\ [Next]_vars => KeptInv' /\ [VerdictKept]_vars
  BY VerdictStep
<1>4. TypeOK /\ EarnedInv => AdvanceIsEarned
  <2> SUFFICES ASSUME TypeOK, EarnedInv, phase = "Next", NEW t \in T
               PROVE  \/ gates[t].phase = "Passed" /\ t \in earned
                      \/ gates[t].phase = "Unknown" /\ Templates[t].type = "webhook"
    BY DEF AdvanceIsEarned
  <2>1. gates[t].phase \in {"Passed", "Unknown"}
    BY DEF EarnedInv, Blocks
  <2>2. gates[t].phase = "Unknown" => Templates[t].type = "webhook"
    <3>1. gates[t].phase \in Known \cup Answers(t)
      BY DEF TypeOK, GateRunStatus
    <3> QED
      BY <3>1 DEF Known, Answers
  <2> QED
    BY <2>1, <2>2 DEF EarnedInv
<1> QED
  BY <1>1, <1>2, <1>3, <1>4, GateTypeCorrect, PTL DEF Spec
=============================================================================

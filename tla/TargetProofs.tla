---------------------------- MODULE TargetProofs ----------------------------
(***************************************************************************)
(* Proofs about Target, for every number of targets, clusters and runs and *)
(* every gate policy: its safety properties; then, from where              *)
(* cancellations stand, that no target is forgotten and that Target        *)
(* implements TargetLife.                                                  *)
(***************************************************************************)
EXTENDS TargetRefinement, TLAPS

-----------------------------------------------------------------------------
(* Type correctness.  TypeOK is not inductive: the count of missing        *)
(* clusters stays within its bound only because a target that reached the  *)
(* threshold is terminal and is never handled again.                       *)

\* A status that may still be counted up is below the threshold.
BoundedStatus == {s \in Status : s.phase \in Terminal \/ s.missing < MissingLimit}

\* A status a handler works on.
LiveStatus == {s \in Status : s.phase \notin Terminal /\ s.missing < MissingLimit}

\* The steps at which a reconcile still evaluates handlers.
Busy == {"fsm", "claim", "apply", "observe"}

ObjectsOK ==
    /\ obj \in [Targets -> Object]
    /\ cache \in [Targets -> Object]
    /\ lag \in [Targets -> Lag]
    /\ \A t \in Targets : /\ obj[t].status \in BoundedStatus
                          /\ cache[t].status \in BoundedStatus

JobsOK ==
    /\ job \in [Targets -> Job]
    /\ \A t \in Targets : /\ job[t].status \in BoundedStatus
                          /\ job[t].pc \in Busy => job[t].status \in LiveStatus

OthersOK ==
    /\ queued \in [Targets -> BOOLEAN]
    /\ active \in [Clusters -> Runs \cup {NoRun}]
    /\ activeSeen \in [Clusters -> Runs \cup {NoRun}]
    /\ suspended \in [Runs -> BOOLEAN]
    /\ ended \in [Runs -> BOOLEAN]
    /\ approved \in [Targets -> BOOLEAN]
    /\ passed \in [Targets -> SUBSET Gates]
    /\ applies \in [Targets -> 0..MaxApplies]
    /\ vetoed \in [Targets -> BOOLEAN]

TypeInv == ObjectsOK /\ JobsOK /\ OthersOK

\* What the moves of the private copy return, given a live status.
LEMMA StatusMoves ==
    ASSUME NEW t \in Targets, NEW s \in LiveStatus
    PROVE  /\ \A p \in Phase : transitionTo(s, p) \in BoundedStatus
           /\ \A p \in Phase \ Terminal : transitionTo(s, p) \in LiveStatus
           /\ failTarget(t, s) \in BoundedStatus
           /\ MissingCluster(t, s) \in BoundedStatus
           /\ [s EXCEPT !.missing = 0] \in LiveStatus
           /\ \A f \in BOOLEAN : [s EXCEPT !.gateFailed = f] \in LiveStatus
           /\ [s EXCEPT !.applyIssued = TRUE] \in LiveStatus
           /\ s \in BoundedStatus
<1>1. MissingLimit \in Nat \ {0}
  BY ConstantsAssumption
<1>2. PICK n \in 0..MissingLimit : s.missing = n /\ n < MissingLimit
  BY <1>1 DEF LiveStatus, Status
<1>3. \A p \in Phase : transitionTo(s, p) \in BoundedStatus
  BY <1>1 DEF LiveStatus, BoundedStatus, Status, transitionTo, Phase, Terminal
<1>4. \A p \in Phase \ Terminal : transitionTo(s, p) \in LiveStatus
  BY <1>1 DEF LiveStatus, BoundedStatus, Status, transitionTo, Phase, Terminal
<1>5. failTarget(t, s) \in BoundedStatus
  BY <1>1 DEF LiveStatus, BoundedStatus, Status, failTarget, Phase, Terminal
<1>6. MissingCluster(t, s) \in BoundedStatus
  <2> DEFINE counted == [s EXCEPT !.missing = @ + 1]
  <2>1. counted \in Status /\ counted.missing = n + 1
    BY <1>1, <1>2 DEF LiveStatus, Status
  <2>2. failTarget(t, counted) \in BoundedStatus
    BY <2>1 DEF BoundedStatus, Status, failTarget, Phase, Terminal
  <2>3. CASE counted.missing >= MissingLimit
    BY <2>2, <2>3 DEF MissingCluster
  <2>4. CASE ~(counted.missing >= MissingLimit)
    <3>1. counted \in BoundedStatus
      <4> HIDE DEF counted
      <4> QED
        BY <1>1, <2>1, <2>4 DEF BoundedStatus
    <3> QED
      BY <2>4, <3>1 DEF MissingCluster
  <2> QED
    BY <2>3, <2>4
<1>7. [s EXCEPT !.missing = 0] \in LiveStatus
  BY <1>1 DEF LiveStatus, Status
<1>8. \A f \in BOOLEAN : [s EXCEPT !.gateFailed = f] \in LiveStatus
  BY <1>1 DEF LiveStatus, Status
<1>9. [s EXCEPT !.applyIssued = TRUE] \in LiveStatus
  BY <1>1 DEF LiveStatus, Status
<1>10. s \in BoundedStatus
  BY DEF LiveStatus, BoundedStatus
<1> QED
  BY <1>3, <1>4, <1>5, <1>6, <1>7, <1>8, <1>9, <1>10

\* Going on with a live status, and persisting a bounded one, keep the jobs
\* well typed.
LEMMA JobMoves ==
    ASSUME JobsOK, NEW t \in Targets
    PROVE  /\ \A s \in LiveStatus : Advance(t, s) => JobsOK'
           /\ \A s \in BoundedStatus : Persist(t, s) => JobsOK'
           /\ \A s \in LiveStatus, pc \in Step :
                job' = [job EXCEPT ![t].status = s, ![t].pc = pc] => JobsOK'
           /\ \A s \in LiveStatus, pc \in Step :
                job' = [job EXCEPT ![t].pc = pc, ![t].status = s] => JobsOK'
           /\ job' = [job EXCEPT ![t] = Idle] => JobsOK'
           /\ OutdateJob(t) => JobsOK'
<1>1. LiveStatus \subseteq BoundedStatus /\ BoundedStatus \subseteq Status
  BY DEF LiveStatus, BoundedStatus
<1>2. EmptyStatus \in LiveStatus
  <2>1. MissingLimit \in Nat \ {0}
    BY ConstantsAssumption
  <2>2. 0 \in 0..MissingLimit /\ 0 < MissingLimit
    BY <2>1
  <2>3. "" \in Phase /\ "" \notin Terminal
    BY DEF Phase, Terminal
  <2> QED
    BY <2>2, <2>3 DEF EmptyStatus, LiveStatus, Status
<1>3. Idle \in Job
  BY <1>1, <1>2 DEF Idle, Job, Step
<1>4. ASSUME NEW s \in BoundedStatus, NEW pc \in Step, pc \in Busy => s \in LiveStatus,
             NEW j \in [Targets -> Job],
             \A u \in Targets : u # t => j[u] = job[u],
             j[t].status = s, j[t].pc = pc,
             job' = j
      PROVE  JobsOK'
  <2>1. ASSUME NEW u \in Targets
        PROVE  j[u].status \in BoundedStatus /\ (j[u].pc \in Busy => j[u].status \in LiveStatus)
    <3>1. CASE u = t
      BY <1>4, <3>1
    <3>2. CASE u # t
      BY <1>4, <3>2 DEF JobsOK
    <3> QED
      BY <3>1, <3>2
  <2> QED
    BY <1>4, <2>1 DEF JobsOK
<1>5. ASSUME NEW s \in LiveStatus, Advance(t, s)
      PROVE  JobsOK'
  <2> DEFINE pc == IF s.phase = "Applying" THEN "write" ELSE "fsm"
  <2> DEFINE j == [job EXCEPT ![t].status = s, ![t].pc = pc]
  <2>1. pc \in Step
    BY DEF Step
  <2>2. /\ j \in [Targets -> Job]
        /\ \A u \in Targets : u # t => j[u] = job[u]
        /\ j[t].status = s /\ j[t].pc = pc
    <3> HIDE DEF pc
    <3> QED BY <1>1, <2>1 DEF JobsOK, Job
  <2>3. job' = j
    BY <1>5 DEF Advance
  <2> HIDE DEF j, pc
  <2> QED
    BY <1>1, <1>4, <2>1, <2>2, <2>3
<1>6. ASSUME NEW s \in BoundedStatus, Persist(t, s)
      PROVE  JobsOK'
  <2> DEFINE j == [job EXCEPT ![t].status = s, ![t].pc = "write"]
  <2>2. /\ j \in [Targets -> Job]
        /\ \A u \in Targets : u # t => j[u] = job[u]
        /\ j[t].status = s /\ j[t].pc = "write"
    BY <1>1 DEF JobsOK, Job, Step
  <2>3. job' = j
    BY <1>6 DEF Persist
  <2>4. "write" \in Step /\ "write" \notin Busy
    BY DEF Step, Busy
  <2> HIDE DEF j
  <2> QED
    BY <1>4, <2>2, <2>3, <2>4
<1>7. ASSUME NEW s \in LiveStatus, NEW pc \in Step,
             \/ job' = [job EXCEPT ![t].status = s, ![t].pc = pc]
             \/ job' = [job EXCEPT ![t].pc = pc, ![t].status = s]
      PROVE  JobsOK'
  <2> DEFINE j == [job EXCEPT ![t].status = s, ![t].pc = pc]
  <2>2. /\ j \in [Targets -> Job]
        /\ \A u \in Targets : u # t => j[u] = job[u]
        /\ j[t].status = s /\ j[t].pc = pc
    BY <1>1 DEF JobsOK, Job
  <2>3. job' = j
    BY <1>7 DEF JobsOK, Job
  <2> HIDE DEF j
  <2> QED
    BY <1>1, <1>4, <2>2, <2>3
<1>8. ASSUME job' = [job EXCEPT ![t] = Idle]
      PROVE  JobsOK'
  <2>1. Idle.status = EmptyStatus /\ Idle.pc = "idle" /\ "idle" \notin Busy
    BY DEF Idle, Busy
  <2> QED
    BY <1>1, <1>2, <1>3, <1>8, <2>1 DEF JobsOK
<1>9. ASSUME OutdateJob(t)
      PROVE  JobsOK'
  BY <1>9 DEF OutdateJob, JobsOK, Job
<1> QED
  BY <1>5, <1>6, <1>7, <1>8, <1>9

\* A write of a well-typed object keeps the objects well typed.
LEMMA ObjectWrite ==
    ASSUME ObjectsOK, NEW t \in Targets, NEW o \in Object, o.status \in BoundedStatus,
           NEW e \in Lag, WriteObject(t, o, e), cache' = cache
    PROVE  ObjectsOK'
<1>1. obj' \in [Targets -> Object] /\ lag' \in [Targets -> Lag]
  BY DEF ObjectsOK, WriteObject
<1>2. \A u \in Targets : obj'[u].status \in BoundedStatus
  BY DEF ObjectsOK, WriteObject
<1> QED
  BY <1>1, <1>2 DEF ObjectsOK

\* Starting a reconcile keeps the types.
LEMMA BeginType ==
    ASSUME TypeInv, NEW t \in Targets, Begin(t)
    PROVE  TypeInv'
<1>1. cache[t] \in Object /\ obj[t] \in Object /\ lag[t] \in Lag
      /\ cache[t].status \in BoundedStatus /\ obj[t].status \in BoundedStatus
  BY DEF TypeInv, ObjectsOK
<1>2. queued' \in [Targets -> BOOLEAN]
  BY DEF TypeInv, OthersOK, Begin, Dequeue, ReconcileTerminal, ReconcileSuspended,
         ReconcileCancelled, ReconcileFSM
<1>3. OthersOK'
  BY <1>2 DEF TypeInv, OthersOK, Begin, ReconcileTerminal, ReconcileSuspended,
         ReconcileCancelled, ReconcileFSM, objects, clusters, parents, history
<1>4. CASE ReconcileTerminal(t)
  <2>1. JobsOK'
    BY <1>4 DEF TypeInv, JobsOK, ReconcileTerminal
  <2>2. CASE UNCHANGED <<obj, lag>>
    BY <1>3, <1>4, <2>1, <2>2 DEF TypeInv, ObjectsOK, ReconcileTerminal
  <2>3. CASE WriteObject(t, [obj[t] EXCEPT !.label = "current"], "quiet")
    <3>1. /\ [obj[t] EXCEPT !.label = "current"] \in Object
          /\ [obj[t] EXCEPT !.label = "current"].status \in BoundedStatus
      BY <1>1 DEF Object, Label
    <3>2. "quiet" \in Lag
      BY DEF Lag
    <3>3. cache' = cache
      BY <1>4 DEF ReconcileTerminal
    <3>4. ObjectsOK'
      BY <2>3, <3>1, <3>2, <3>3, ObjectWrite DEF TypeInv
    <3> QED
      BY <1>3, <2>1, <3>4 DEF TypeInv
  <2> QED
    BY <1>4, <2>2, <2>3 DEF ReconcileTerminal
<1>5. CASE ReconcileSuspended(t)
  BY <1>3, <1>5 DEF TypeInv, ObjectsOK, JobsOK, ReconcileSuspended, objects
<1>6. CASE ReconcileCancelled(t)
  <2> DEFINE new == [pc |-> "cancel", status |-> cache[t].status,
                     behind |-> lag[t] # "none",
                     cancelledPhase |-> cache[t].cancelledPhase]
  <2>1. new \in Job /\ new.status \in BoundedStatus /\ new.pc \notin Busy
    BY <1>1 DEF Job, Step, Busy, Object, BoundedStatus
  <2>2. job' = [job EXCEPT ![t] = new] /\ UNCHANGED <<obj, cache, lag>>
    BY <1>6 DEF ReconcileCancelled, objects
  <2> HIDE DEF new
  <2>3. JobsOK'
    BY <2>1, <2>2 DEF TypeInv, JobsOK
  <2> QED
    BY <1>3, <2>2, <2>3 DEF TypeInv, ObjectsOK
<1>7. CASE ReconcileFSM(t)
  <2> DEFINE new == [pc |-> "fsm", status |-> cache[t].status,
                     behind |-> lag[t] # "none",
                     cancelledPhase |-> "Failed"]
  <2>1. cache[t].status \in LiveStatus
    BY <1>1, <1>7 DEF ReconcileFSM, LiveStatus, BoundedStatus
  <2>2. new \in Job /\ new.status \in BoundedStatus /\ new.status \in LiveStatus
    BY <1>1, <2>1 DEF Job, Step, Object, BoundedStatus
  <2>3. job' = [job EXCEPT ![t] = new] /\ UNCHANGED <<obj, cache, lag>>
    BY <1>7 DEF ReconcileFSM, objects
  <2> HIDE DEF new
  <2>4. JobsOK'
    BY <2>2, <2>3 DEF TypeInv, JobsOK
  <2> QED
    BY <1>3, <2>3, <2>4 DEF TypeInv, ObjectsOK
<1> QED
  BY <1>4, <1>5, <1>6, <1>7 DEF Begin

\* Evaluating a phase handler keeps the types, whatever is answered.
LEMMA HandleType ==
    ASSUME TypeInv, NEW t \in Targets, Handle(t)
    PROVE  TypeInv'
<1> DEFINE s == job[t].status
<1> DEFINE seen == [s EXCEPT !.missing = 0]
<1>1. s \in LiveStatus
  BY DEF TypeInv, JobsOK, Busy, Handle, Working, handleInitial, handlePending,
         handleVerification, handleHealthCheck, handleSoaking, handleMetricsCheck,
         handleWaitingApproval, handleApplying, claimCluster, issueApply, pollConvergence
<1>2. seen \in LiveStatus /\ s \in BoundedStatus /\ seen \in BoundedStatus
  BY <1>1, StatusMoves DEF LiveStatus, BoundedStatus
<1> HIDE DEF s
<1>3. ASSUME JobsOK', UNCHANGED <<objects, queued, clusters, parents, applies, vetoed>>,
             \/ UNCHANGED passed
             \/ \E g \in Gates : Pass(t, g)
      PROVE  TypeInv'
  <2>1. passed' \in [Targets -> SUBSET Gates]
    BY <1>3 DEF TypeInv, OthersOK, Pass
  <2> QED
    BY <1>3, <2>1 DEF TypeInv, ObjectsOK, OthersOK, objects, clusters, parents
<1>4. CASE handleInitial(t)
  <2>1. JobsOK'
    BY <1>1, <1>4, StatusMoves, JobMoves DEF handleInitial, TypeInv, Phase, Terminal, s
  <2> QED
    BY <1>3, <1>4, <2>1 DEF handleInitial, Private
<1>5. CASE \E found, fresh \in BOOLEAN : handlePending(t, found, fresh)
  <2>1. "Verification" \in Phase \ Terminal
    BY DEF Phase, Terminal
  <2>2. \/ Persist(t, MissingCluster(t, s)) \/ Persist(t, seen)
        \/ Advance(t, transitionTo(seen, "Verification"))
    BY <1>5 DEF handlePending, s
  <2>3. JobsOK'
    BY <1>1, <1>2, <2>1, <2>2, StatusMoves, JobMoves DEF TypeInv
  <2> QED
    BY <1>3, <1>5, <2>3 DEF handlePending, Private
<1>6. CASE \E a \in Answers : handleVerification(t, a)
  <2>1. "HealthCheck" \in Phase \ Terminal /\ "verification" \in Gates
    BY DEF Phase, Terminal, Gates
  <2>2. \/ Persist(t, failTarget(t, s)) \/ Persist(t, s)
        \/ Advance(t, transitionTo(s, "HealthCheck"))
    BY <1>6 DEF handleVerification, s
  <2>3. JobsOK'
    BY <1>1, <1>2, <2>1, <2>2, StatusMoves, JobMoves DEF TypeInv
  <2> QED
    BY <1>3, <1>6, <2>1, <2>3 DEF handleVerification, Private
<1>7. CASE \E found, fresh \in BOOLEAN, a \in Answers : handleHealthCheck(t, found, fresh, a)
  <2>1. /\ "Soaking" \in Phase \ Terminal /\ "MetricsCheck" \in Phase \ Terminal
        /\ "health" \in Gates
    BY DEF Phase, Terminal, Gates
  <2>2. \/ Persist(t, MissingCluster(t, s)) \/ Persist(t, seen)
        \/ Persist(t, failTarget(t, seen))
        \/ Advance(t, transitionTo(seen, "Soaking"))
        \/ Advance(t, transitionTo(seen, "MetricsCheck"))
    BY <1>7 DEF handleHealthCheck, transitionToSoakOrMetrics, s
  <2>3. JobsOK'
    BY <1>1, <1>2, <2>1, <2>2, StatusMoves, JobMoves DEF TypeInv
  <2> QED
    BY <1>3, <1>7, <2>1, <2>3 DEF handleHealthCheck, Private
<1>8. CASE \E elapsed \in BOOLEAN : handleSoaking(t, elapsed)
  <2>1. "MetricsCheck" \in Phase \ Terminal /\ "soak" \in Gates
    BY DEF Phase, Terminal, Gates
  <2>2. Persist(t, s) \/ Advance(t, transitionTo(s, "MetricsCheck"))
    BY <1>8 DEF handleSoaking, s
  <2>3. JobsOK'
    BY <1>1, <1>2, <2>1, <2>2, StatusMoves, JobMoves DEF TypeInv
  <2> QED
    BY <1>3, <1>8, <2>1, <2>3 DEF handleSoaking, Private
<1>9. CASE \E a \in Answers, timedOut \in BOOLEAN : handleMetricsCheck(t, a, timedOut)
  <2>1. /\ "WaitingApproval" \in Phase \ Terminal /\ "Applying" \in Phase \ Terminal
        /\ "metrics" \in Gates
    BY DEF Phase, Terminal, Gates
  <2>2. \E f \in BOOLEAN :
          \/ Persist(t, [s EXCEPT !.gateFailed = f])
          \/ Persist(t, failTarget(t, [s EXCEPT !.gateFailed = f]))
          \/ Advance(t, transitionTo(s, "WaitingApproval"))
          \/ Advance(t, transitionTo(s, "Applying"))
    <3>1. PICK a \in Answers, timedOut \in BOOLEAN : handleMetricsCheck(t, a, timedOut)
      BY <1>9
    <3>2. s.gateFailed \in BOOLEAN
      BY <1>1 DEF LiveStatus, Status
    <3>3. (s.gateFailed \/ a = "Failed") \in BOOLEAN
      BY <3>2
    <3> QED
      BY <3>1, <3>3 DEF handleMetricsCheck, nextAfterMetrics, s
  <2>3. \A f \in BOOLEAN : [s EXCEPT !.gateFailed = f] \in LiveStatus
    BY <1>1, StatusMoves
  <2>4. JobsOK'
    BY <1>1, <1>2, <2>1, <2>2, <2>3, StatusMoves, JobMoves DEF TypeInv
  <2> QED
    BY <1>3, <1>9, <2>1, <2>4 DEF handleMetricsCheck, Private
<1>10. CASE handleWaitingApproval(t)
  <2>1. "Applying" \in Phase \ Terminal /\ "approval" \in Gates
    BY DEF Phase, Terminal, Gates
  <2>2. \/ Persist(t, failTarget(t, s)) \/ Persist(t, s)
        \/ Advance(t, transitionTo(s, "Applying"))
    BY <1>10 DEF handleWaitingApproval, s
  <2>3. JobsOK'
    BY <1>1, <1>2, <2>1, <2>2, StatusMoves, JobMoves DEF TypeInv
  <2> QED
    BY <1>3, <1>10, <2>1, <2>3 DEF handleWaitingApproval, Private
<1>11. CASE \E found, fresh \in BOOLEAN, a \in Answers \cup {"Empty"} :
              handleApplying(t, found, fresh, a)
  <2>1. "claim" \in Step /\ "apply" \in Step
    BY DEF Step
  <2>2. \/ Persist(t, failTarget(t, s)) \/ Persist(t, MissingCluster(t, s))
        \/ Persist(t, seen) \/ Persist(t, failTarget(t, seen))
        \/ job' = [job EXCEPT ![t].status = seen, ![t].pc = "claim"]
        \/ job' = [job EXCEPT ![t].status = seen, ![t].pc = "apply"]
    BY <1>11 DEF handleApplying, s
  <2>3. JobsOK'
    BY <1>1, <1>2, <2>1, <2>2, StatusMoves, JobMoves DEF TypeInv
  <2> QED
    BY <1>3, <1>11, <2>3 DEF handleApplying, Private
<1>12. CASE claimCluster(t)
  <2>1. JobsOK'
    BY <1>1, <1>2, <1>12 DEF claimCluster, TypeInv, JobsOK, Job, Step, s
  <2>2. active' \in [Clusters -> Runs \cup {NoRun}]
    BY <1>12, ConstantsAssumption DEF claimCluster, TypeInv, OthersOK
  <2> QED
    BY <1>12, <2>1, <2>2 DEF claimCluster, TypeInv, ObjectsOK, OthersOK,
                             objects, parents, history
<1>13. CASE \E a \in Answers \cup {"Error", "Lost"} : issueApply(t, a)
  <2>1. "observe" \in Step /\ [s EXCEPT !.applyIssued = TRUE] \in LiveStatus
    BY <1>1, StatusMoves DEF Step
  <2>2. \/ job' = [job EXCEPT ![t].pc = "observe"]
        \/ Persist(t, failTarget(t, s)) \/ Persist(t, s)
        \/ job' = [job EXCEPT ![t].pc = "observe",
                              ![t].status = [s EXCEPT !.applyIssued = TRUE]]
    BY <1>13 DEF issueApply, s
  <2>4. JobsOK'
    <3>1. CASE job' = [job EXCEPT ![t].pc = "observe"]
      BY <1>1, <1>2, <3>1 DEF TypeInv, JobsOK, Job, Step, s
    <3>2. CASE job' # [job EXCEPT ![t].pc = "observe"]
      BY <1>1, <1>2, <2>1, <2>2, <3>2, StatusMoves, JobMoves DEF TypeInv
    <3> QED
      BY <3>1, <3>2
  <2>5. applies' \in [Targets -> 0..MaxApplies]
    <3>1. MaxApplies \in Nat
      BY ConstantsAssumption
    <3>2. UNCHANGED applies \/ Deliver(t)
      BY <1>13 DEF issueApply
    <3> QED
      BY <3>1, <3>2 DEF Deliver, TypeInv, OthersOK
  <2> QED
    BY <1>13, <2>4, <2>5 DEF issueApply, TypeInv, ObjectsOK, OthersOK,
                             objects, clusters, parents
<1>14. CASE \E a \in Answers : pollConvergence(t, a)
  <2>1. "Converged" \in Phase
    BY DEF Phase, Terminal
  <2>2. \/ Persist(t, failTarget(t, s)) \/ Persist(t, s)
        \/ Persist(t, transitionTo(s, "Converged"))
    BY <1>14 DEF pollConvergence, s
  <2>3. JobsOK'
    BY <1>1, <1>2, <2>1, <2>2, StatusMoves, JobMoves DEF TypeInv
  <2> QED
    BY <1>3, <1>14, <2>3 DEF pollConvergence, Private
<1> QED
  BY <1>4, <1>5, <1>6, <1>7, <1>8, <1>9, <1>10, <1>11, <1>12, <1>13, <1>14 DEF Handle

\* Ending a reconcile keeps the types.
LEMMA FinishType ==
    ASSUME TypeInv, NEW t \in Targets, Write(t) \/ abandon(t)
    PROVE  TypeInv'
<1>1. /\ obj[t] \in Object /\ obj[t].status \in BoundedStatus
      /\ job[t] \in Job /\ job[t].status \in BoundedStatus
  BY DEF TypeInv, ObjectsOK, JobsOK
<1>2. JobsOK'
  BY JobMoves DEF TypeInv, Write, writeStatus, writeCancelled, abandon
<1>3. queued' \in [Targets -> BOOLEAN]
  BY DEF TypeInv, OthersOK, Write, writeStatus, writeCancelled, abandon, Enqueue
<1>4. OthersOK'
  BY <1>3 DEF TypeInv, OthersOK, Write, writeStatus, writeCancelled, abandon,
              clusters, parents, history
<1>5. CASE abandon(t)
  BY <1>2, <1>4, <1>5 DEF abandon, TypeInv, ObjectsOK, objects
<1>6. ASSUME NEW labelled \in BOOLEAN, writeStatus(t, labelled)
      PROVE  TypeInv'
  <2> DEFINE o == [obj[t] EXCEPT !.status = job[t].status,
                                 !.label = Relabelled(@, labelled)]
  <2>1. o \in Object /\ o.status \in BoundedStatus
    BY <1>1 DEF Object, Job, Label, Relabelled
  <2>2. WriteObject(t, o, "quiet") /\ cache' = cache /\ "quiet" \in Lag
    BY <1>6 DEF writeStatus, Lag
  <2> HIDE DEF o
  <2>3. ObjectsOK'
    BY <2>1, <2>2, ObjectWrite DEF TypeInv
  <2> QED
    BY <1>2, <1>4, <2>3 DEF TypeInv
<1>7. ASSUME NEW labelled \in BOOLEAN, writeCancelled(t, labelled)
      PROVE  TypeInv'
  <2> DEFINE flipped == [obj[t].status EXCEPT !.phase = job[t].cancelledPhase]
  <2> DEFINE o == [obj[t] EXCEPT !.status = flipped, !.label = Relabelled(@, labelled)]
  <2>1. job[t].cancelledPhase \in Terminal
    BY <1>1 DEF Job, Terminal
  <2>2. flipped \in Status /\ flipped \in BoundedStatus
    BY <1>1, <2>1 DEF BoundedStatus, Status, Phase
  <2>3. o \in Object /\ o.status \in BoundedStatus
    <3> HIDE DEF flipped
    <3> QED BY <1>1, <2>2 DEF Object, Label, Relabelled
  <2>4. WriteObject(t, o, "quiet") /\ cache' = cache /\ "quiet" \in Lag
    BY <1>7 DEF writeCancelled, Lag
  <2> HIDE DEF o
  <2>5. ObjectsOK'
    BY <2>3, <2>4, ObjectWrite DEF TypeInv
  <2> QED
    BY <1>2, <1>4, <2>5 DEF TypeInv
<1> QED
  BY <1>5, <1>6, <1>7 DEF Write

\* The writes of the parent controllers and the webhooks keep the types.
LEMMA InterfereType ==
    ASSUME TypeInv, NEW t \in Targets, Interfere(t)
    PROVE  TypeInv'
<1>1. obj[t] \in Object /\ obj[t].status \in BoundedStatus
  BY DEF TypeInv, ObjectsOK
<1>2. "waking" \in Lag /\ "quiet" \in Lag
  BY DEF Lag
<1>3. CASE approve(t)
  BY <1>3 DEF approve, Enqueue, TypeInv, ObjectsOK, JobsOK, OthersOK, objects, clusters, history
<1>4. CASE reject(t)
  <2> DEFINE o == [obj[t] EXCEPT !.status = [@ EXCEPT !.rejected = TRUE]]
  <2>1. o \in Object /\ o.status \in BoundedStatus
    BY <1>1 DEF Object, BoundedStatus, Status
  <2>2. WriteObject(t, o, "waking") /\ cache' = cache /\ OutdateJob(t)
    BY <1>4 DEF reject
  <2>3. OthersOK'
    BY <1>4 DEF reject, TypeInv, OthersOK, clusters, parents
  <2> HIDE DEF o
  <2> QED
    BY <1>2, <2>1, <2>2, <2>3, ObjectWrite, JobMoves DEF TypeInv
<1>5. CASE cancelTarget(t)
  <2> DEFINE o == [obj[t] EXCEPT !.cancelled = TRUE, !.cancelledPhase = "Failed"]
  <2>1. o \in Object /\ o.status \in BoundedStatus
    BY <1>1 DEF Object
  <2>2. WriteObject(t, o, "waking") /\ cache' = cache /\ OutdateJob(t)
    BY <1>5 DEF cancelTarget
  <2>3. OthersOK'
    BY <1>5 DEF cancelTarget, TypeInv, OthersOK, clusters, parents, history
  <2> HIDE DEF o
  <2> QED
    BY <1>2, <2>1, <2>2, <2>3, ObjectWrite, JobMoves DEF TypeInv
<1>6. CASE markSkipped(t)
  <2> DEFINE o == [obj[t] EXCEPT !.cancelled = TRUE, !.cancelledPhase = "Skipped"]
  <2>1. o \in Object /\ o.status \in BoundedStatus
    BY <1>1 DEF Object
  <2>2. WriteObject(t, o, "waking") /\ cache' = cache /\ OutdateJob(t)
    BY <1>6 DEF markSkipped
  <2>3. OthersOK'
    BY <1>6 DEF markSkipped, TypeInv, OthersOK, clusters, parents, history
  <2> HIDE DEF o
  <2> QED
    BY <1>2, <2>1, <2>2, <2>3, ObjectWrite, JobMoves DEF TypeInv
<1>7. CASE persistTarget(t)
  <2> DEFINE o == [obj[t] EXCEPT !.cancelled = ~cache[t].cancelled /\ @,
                     !.cancelledPhase = IF cache[t].cancelled THEN "Failed" ELSE @,
                     !.label = IF cache[t].label # "none" THEN "none" ELSE @]
  <2> DEFINE e == IF cache[t].cancelled THEN "waking" ELSE "quiet"
  <2>1. o \in Object /\ o.status \in BoundedStatus /\ e \in Lag
    BY <1>1, <1>2 DEF Object, Label
  <2>2. WriteObject(t, o, e) /\ cache' = cache /\ OutdateJob(t)
    BY <1>7 DEF persistTarget
  <2>3. OthersOK'
    BY <1>7 DEF persistTarget, TypeInv, OthersOK, clusters, parents, history
  <2> HIDE DEF o, e
  <2> QED
    BY <2>1, <2>2, <2>3, ObjectWrite, JobMoves DEF TypeInv
<1> QED
  BY <1>3, <1>4, <1>5, <1>6, <1>7 DEF Interfere

\* Initially, and after every step, the types hold.
LEMMA TypeStep == (Init => TypeInv) /\ (TypeInv /\ [Next]_vars => TypeInv')
<1>1. Init => TypeInv
  <2> SUFFICES ASSUME Init PROVE TypeInv
    OBVIOUS
  <2>1. EmptyStatus \in LiveStatus
    <3>1. MissingLimit \in Nat \ {0}
      BY ConstantsAssumption
    <3>2. 0 \in 0..MissingLimit /\ 0 < MissingLimit
      BY <3>1
    <3>3. "" \in Phase /\ "" \notin Terminal
      BY DEF Phase, Terminal
    <3> QED
      BY <3>2, <3>3 DEF EmptyStatus, LiveStatus, Status
  <2>2. EmptyStatus \in BoundedStatus /\ EmptyStatus \in Status
    BY <2>1 DEF LiveStatus, BoundedStatus
  <2>3. ObjectsOK
    BY <2>2 DEF Init, ObjectsOK, NewObject, Object, Label, Lag
  <2>4. JobsOK
    BY <2>1, <2>2 DEF Init, JobsOK, Idle, Job, Step
  <2>5. 0 \in 0..MaxApplies
    BY ConstantsAssumption
  <2>6. OthersOK
    BY <2>5 DEF Init, OthersOK
  <2> QED
    BY <2>3, <2>4, <2>6 DEF TypeInv
<1>2. ASSUME TypeInv, [Next]_vars
      PROVE  TypeInv'
  <2>1. CASE UNCHANGED vars
    BY <1>2, <2>1 DEF vars, TypeInv, ObjectsOK, JobsOK, OthersOK
  <2>2. ASSUME NEW t \in Targets, syncTarget(t)
        PROVE  TypeInv'
    <3>1. ObjectsOK'
      BY <1>2, <2>2 DEF syncTarget, TypeInv, ObjectsOK, Lag
    <3> QED
      BY <1>2, <2>2, <3>1 DEF syncTarget, TypeInv, JobsOK, OthersOK, clusters, parents, history
  <2>3. ASSUME NEW r \in Runs, endRun(r) \/ suspendRun(r) \/ resumeRun(r)
        PROVE  TypeInv'
    BY <1>2, <2>3 DEF endRun, suspendRun, resumeRun, TypeInv, ObjectsOK, JobsOK, OthersOK,
                      objects, clusters, history
  <2>4. ASSUME NEW r \in Runs, NEW c \in Clusters, clearActivePromotionRun(r, c)
        PROVE  TypeInv'
    BY <1>2, <2>4 DEF clearActivePromotionRun, TypeInv, ObjectsOK, JobsOK, OthersOK,
                      objects, parents, history
  <2>5. ASSUME NEW c \in Clusters, syncCluster(c)
        PROVE  TypeInv'
    BY <1>2, <2>5 DEF syncCluster, TypeInv, ObjectsOK, JobsOK, OthersOK,
                      objects, parents, history
  <2>6. SharedTargets \subseteq Targets
    BY ConstantsAssumption
  <2> QED
    BY <1>2, <2>1, <2>2, <2>3, <2>4, <2>5, <2>6, BeginType, HandleType, FinishType,
       InterfereType DEF Next
<1> QED
  BY <1>1, <1>2

\* Every variable of the TargetReconciler model keeps its type; in particular
\* the count of missing clusters never passes missingMCFailThreshold.
THEOREM TypeCorrect == Spec => []TypeOK
<1>1. TypeInv => TypeOK
  BY DEF TypeInv, ObjectsOK, JobsOK, OthersOK, TypeOK
<1> QED
  BY <1>1, TypeStep, PTL DEF Spec

-----------------------------------------------------------------------------
(* What a handler does to the copy it works on, in the terms the safety    *)
(* properties need.  It is established once, handler by handler, and every *)
(* invariant below is preserved because of it.                             *)

Acting == {"claim", "apply", "observe"}

\* The gates that stand before a phase have answered Passed.
GatesPassed(t, phase, gates) ==
    /\ phase \in {"HealthCheck", "Soaking", "MetricsCheck", "WaitingApproval",
                  "Applying", "Converged"} => "verification" \in gates
    /\ phase \in {"Soaking", "MetricsCheck", "WaitingApproval", "Applying", "Converged"} =>
         "health" \in gates
    /\ phase \in {"MetricsCheck", "WaitingApproval", "Applying", "Converged"}
         /\ t \in SoakTargets => "soak" \in gates
    /\ phase \in {"WaitingApproval", "Applying", "Converged"}
         /\ t \in GatedTargets => "metrics" \in gates
    /\ phase \in {"Applying", "Converged"}
         /\ t \in ApprovalTargets => "approval" \in gates

\* A status s moved to n by a handler, the gates passed growing from g to h.
Moved(t, s, n, g, h) ==
    /\ n.rejected = s.rejected
    /\ g \subseteq h
    /\ GatesPassed(t, s.phase, g) => GatesPassed(t, n.phase, h)
    /\ n.phase = s.phase \/ Forward(s.phase, n.phase)
    /\ n.phase = "Converged" => s.phase = "Applying"
    /\ n.phase = "Applying" /\ t \in ApprovalTargets /\ s.rejected => s.phase = "Applying"

\* The whole effect of Handle(t).
HandleEffect(t) ==
    /\ UNCHANGED <<obj, cache, lag, queued, suspended, approved, vetoed>>
    /\ \A u \in Targets : u # t => /\ job'[u] = job[u]
                                   /\ passed'[u] = passed[u]
                                   /\ applies'[u] = applies[u]
    /\ Moved(t, job[t].status, job'[t].status, passed[t], passed'[t])
    /\ job[t].pc \in Busy /\ job'[t].pc \in Busy \cup {"write"}
    /\ job'[t].behind = job[t].behind
    /\ job'[t].pc \in Acting => job'[t].status.phase = "Applying"
    /\ job'[t].pc # "write" /\ job'[t].status.phase = "Applying" =>
         job[t].status.phase = "Applying"
    /\ job'[t].pc = "observe" => job'[t].status.applyIssued /\ job[t].pc = "apply"
    /\ job'[t].status.phase = "Converged" => job[t].pc = "observe"
    /\ job'[t].status.applyIssued => job[t].status.applyIssued \/ applies'[t] > 0
    /\ applies'[t] >= applies[t]
    /\ applies'[t] # applies[t] => job[t].pc = "apply"

\* What the moves of the copy do to its fields.
LEMMA MoveFields ==
    ASSUME NEW t \in Targets, NEW s \in LiveStatus
    PROVE  /\ \A p \in Phase :
                /\ transitionTo(s, p).phase = p
                /\ transitionTo(s, p).rejected = s.rejected
                /\ transitionTo(s, p).applyIssued => s.applyIssued
           /\ failTarget(t, s).phase \in {"Failed", "Skipped"}
           /\ failTarget(t, s).rejected = s.rejected
           /\ failTarget(t, s).applyIssued = s.applyIssued
           /\ MissingCluster(t, s).phase \in {s.phase, "Failed", "Skipped"}
           /\ MissingCluster(t, s).rejected = s.rejected
           /\ MissingCluster(t, s).applyIssued = s.applyIssued
<1>1. \A p \in Phase : /\ transitionTo(s, p).phase = p
                       /\ transitionTo(s, p).rejected = s.rejected
                       /\ transitionTo(s, p).applyIssued => s.applyIssued
  BY DEF transitionTo, LiveStatus, Status
<1>2. ASSUME NEW c, c = [s EXCEPT !.missing = c.missing]
      PROVE  /\ failTarget(t, c).phase \in {"Failed", "Skipped"}
             /\ failTarget(t, c).rejected = s.rejected
             /\ failTarget(t, c).applyIssued = s.applyIssued
             /\ c.phase = s.phase /\ c.rejected = s.rejected
             /\ c.applyIssued = s.applyIssued
  BY <1>2 DEF failTarget, LiveStatus, Status
<1>3. s = [s EXCEPT !.missing = s.missing]
  BY DEF LiveStatus, Status
<1>4. [s EXCEPT !.missing = s.missing + 1]
        = [s EXCEPT !.missing = [s EXCEPT !.missing = s.missing + 1].missing]
  BY DEF LiveStatus, Status
<1>5. /\ MissingCluster(t, s).phase \in {s.phase, "Failed", "Skipped"}
      /\ MissingCluster(t, s).rejected = s.rejected
      /\ MissingCluster(t, s).applyIssued = s.applyIssued
  <2> DEFINE c == [s EXCEPT !.missing = s.missing + 1]
  <2>1. MissingCluster(t, s) = c \/ MissingCluster(t, s) = failTarget(t, c)
    BY DEF MissingCluster
  <2>2. c = [s EXCEPT !.missing = c.missing]
    BY <1>4
  <2> HIDE DEF c
  <2> QED
    BY <1>2, <2>1, <2>2
<1> QED
  BY <1>1, <1>2, <1>3, <1>5

\* The reconcile of t goes on at pc with status n; no other reconcile moves.
JobBecomes(t, n, pc) ==
    /\ \A u \in Targets : u # t => job'[u] = job[u]
    /\ job'[t].status = n
    /\ job'[t].pc = pc
    /\ job'[t].behind = job[t].behind

\* The three ways in which a handler leaves the reconcile.
LEMMA JobShape ==
    ASSUME JobsOK, NEW t \in Targets, NEW n \in BoundedStatus
    PROVE  /\ Persist(t, n) => JobBecomes(t, n, "write")
           /\ Advance(t, n) =>
                JobBecomes(t, n, IF n.phase = "Applying" THEN "write" ELSE "fsm")
           /\ \A pc : \/ job' = [job EXCEPT ![t].status = n, ![t].pc = pc]
                      \/ job' = [job EXCEPT ![t].pc = pc, ![t].status = n]
                      => JobBecomes(t, n, pc)
<1>1. ASSUME NEW pc, \/ job' = [job EXCEPT ![t].status = n, ![t].pc = pc]
                     \/ job' = [job EXCEPT ![t].pc = pc, ![t].status = n]
      PROVE  JobBecomes(t, n, pc)
  BY <1>1 DEF JobsOK, Job, JobBecomes
<1>2. ASSUME Persist(t, n)
      PROVE  JobBecomes(t, n, "write")
  BY <1>1, <1>2 DEF Persist
<1>3. ASSUME Advance(t, n)
      PROVE  JobBecomes(t, n, IF n.phase = "Applying" THEN "write" ELSE "fsm")
  BY <1>1, <1>3 DEF Advance
<1> QED
  BY <1>1, <1>2, <1>3

\* A handler that calls neither the cluster nor the actuator.
LEMMA PrivateEffect ==
    ASSUME TypeInv, NEW t \in Targets, job[t].pc = "fsm",
           NEW n \in BoundedStatus, NEW pc \in {"fsm", "write"}, JobBecomes(t, n, pc),
           Private, UNCHANGED passed \/ \E g \in Gates : Pass(t, g),
           Moved(t, job[t].status, n, passed[t], passed'[t]),
           n.phase # "Converged", n.applyIssued => job[t].status.applyIssued,
           pc = "fsm" => n.phase # "Applying"
    PROVE  HandleEffect(t)
<1>1. \A u \in Targets : u # t => passed'[u] = passed[u]
  BY DEF TypeInv, OthersOK, Pass
<1>2. applies' = applies /\ UNCHANGED <<obj, cache, lag, queued, suspended, approved, vetoed>>
  BY DEF Private, objects, parents
<1>3. applies[t] \in Nat
  BY ConstantsAssumption DEF TypeInv, OthersOK
<1> QED
  BY <1>1, <1>2, <1>3 DEF HandleEffect, JobBecomes, Busy, Acting

\* The edges of buildFSM's graph lead forward, and so does every failure.
LEMMA ForwardEdges ==
    /\ Forward("", "Pending") /\ Forward("Pending", "Verification")
    /\ Forward("Verification", "HealthCheck")
    /\ Forward("HealthCheck", "Soaking") /\ Forward("HealthCheck", "MetricsCheck")
    /\ Forward("Soaking", "MetricsCheck")
    /\ Forward("MetricsCheck", "WaitingApproval") /\ Forward("MetricsCheck", "Applying")
    /\ Forward("WaitingApproval", "Applying")
    /\ \A p \in Phase \ Terminal, q \in Terminal : Forward(p, q)
<1>1. /\ Forward("", "Pending") /\ Forward("Pending", "Verification")
      /\ Forward("Verification", "HealthCheck")
      /\ Forward("HealthCheck", "Soaking") /\ Forward("HealthCheck", "MetricsCheck")
      /\ Forward("Soaking", "MetricsCheck")
  BY DEF Forward, Prefixes
<1>2. /\ Forward("MetricsCheck", "WaitingApproval") /\ Forward("MetricsCheck", "Applying")
      /\ Forward("WaitingApproval", "Applying")
  BY DEF Forward, Prefixes, Phase, Terminal
<1>3. \A p \in Phase \ Terminal, q \in Terminal : Forward(p, q)
  BY DEF Forward, Prefixes
<1> QED
  BY <1>1, <1>2, <1>3

\* Moves that keep the phase, or end the target without applying it.
LEMMA PlainMove ==
    ASSUME NEW t \in Targets, NEW s \in LiveStatus, NEW n, NEW g,
           n.rejected = s.rejected, n.phase \in {s.phase, "Failed", "Skipped"}
    PROVE  Moved(t, s, n, g, g)
<1>1. CASE n.phase = s.phase
  BY <1>1 DEF Moved, LiveStatus, Terminal
<1>2. CASE n.phase \in {"Failed", "Skipped"}
  <2>1. Forward(s.phase, n.phase)
    BY <1>2, ForwardEdges DEF LiveStatus, Status, Terminal
  <2>2. GatesPassed(t, n.phase, g)
    BY <1>2 DEF GatesPassed
  <2> QED
    BY <1>2, <2>1, <2>2 DEF Moved
<1> QED
  BY <1>1, <1>2

\* A reconcile acts on a cluster only in phase Applying, and polls it only
\* after Apply was issued.
ActingOK ==
    \A t \in Targets : /\ job[t].pc \in Acting => job[t].status.phase = "Applying"
                       /\ job[t].pc = "observe" => job[t].status.applyIssued

\* A handler that leaves the phase as it is, or fails the target.
LEMMA PlainEffect ==
    ASSUME TypeInv, NEW t \in Targets, job[t].pc = "fsm",
           NEW n \in BoundedStatus, Persist(t, n), Private, UNCHANGED passed,
           n.rejected = job[t].status.rejected,
           n.applyIssued = job[t].status.applyIssued,
           n.phase \in {job[t].status.phase, "Failed", "Skipped"}
    PROVE  HandleEffect(t)
<1>1. job[t].status \in LiveStatus
  BY DEF TypeInv, JobsOK, Busy
<1>2. JobBecomes(t, n, "write")
  BY JobShape DEF TypeInv
<1>3. Moved(t, job[t].status, n, passed[t], passed'[t])
  BY <1>1, PlainMove
<1>4. n.phase # "Converged"
  BY <1>1 DEF LiveStatus, Terminal
<1> QED
  BY <1>2, <1>3, <1>4, PrivateEffect

\* A handler that moves the copy on to phase p because gate g passed.
LEMMA AdvanceEffect ==
    ASSUME TypeInv, NEW t \in Targets, job[t].pc = "fsm",
           NEW s \in LiveStatus, s.phase = job[t].status.phase,
           s.rejected = job[t].status.rejected, s.applyIssued = job[t].status.applyIssued,
           NEW p \in Phase \ Terminal, Advance(t, transitionTo(s, p)),
           Private, UNCHANGED passed \/ \E g \in Gates : Pass(t, g),
           GatesPassed(t, s.phase, passed[t]) => GatesPassed(t, p, passed'[t]),
           Forward(s.phase, p),
           p = "Applying" /\ t \in ApprovalTargets => ~s.rejected
    PROVE  HandleEffect(t)
<1> DEFINE n == transitionTo(s, p)
<1> DEFINE pc == IF n.phase = "Applying" THEN "write" ELSE "fsm"
<1>1. n \in BoundedStatus /\ n.phase = p /\ n.rejected = s.rejected
      /\ (n.applyIssued => s.applyIssued)
  BY StatusMoves, MoveFields
<1> HIDE DEF n
<1>2. JobBecomes(t, n, pc)
  BY <1>1, JobShape DEF TypeInv, n
<1>3. passed[t] \subseteq passed'[t]
  BY DEF TypeInv, OthersOK, Pass
<1>4. Moved(t, job[t].status, n, passed[t], passed'[t])
  BY <1>1, <1>3 DEF Moved, Terminal
<1>5. pc \in {"fsm", "write"} /\ (pc = "fsm" => n.phase # "Applying")
      /\ n.phase # "Converged"
  BY <1>1 DEF Terminal
<1> HIDE DEF pc
<1> QED
  BY <1>1, <1>2, <1>4, <1>5, PrivateEffect

\* Every handler has the effect stated above.
LEMMA HandlerEffect ==
    ASSUME TypeInv, ActingOK, NEW t \in Targets, Handle(t)
    PROVE  HandleEffect(t)
<1> DEFINE s == job[t].status
<1> DEFINE seen == [s EXCEPT !.missing = 0]
<1>1. s \in LiveStatus
  BY DEF TypeInv, JobsOK, Busy, Handle, Working, handleInitial, handlePending,
         handleVerification, handleHealthCheck, handleSoaking, handleMetricsCheck,
         handleWaitingApproval, handleApplying, claimCluster, issueApply, pollConvergence
<1>2. /\ seen \in LiveStatus /\ seen.phase = s.phase /\ seen.rejected = s.rejected
      /\ seen.applyIssued = s.applyIssued
  BY <1>1, StatusMoves DEF LiveStatus, Status
<1>3. s \in BoundedStatus /\ seen \in BoundedStatus
  BY <1>1, <1>2 DEF LiveStatus, BoundedStatus
<1> HIDE DEF s, seen
<1>4. /\ "Pending" \in Phase \ Terminal /\ "Verification" \in Phase \ Terminal
      /\ "HealthCheck" \in Phase \ Terminal /\ "Soaking" \in Phase \ Terminal
      /\ "MetricsCheck" \in Phase \ Terminal /\ "WaitingApproval" \in Phase \ Terminal
      /\ "Applying" \in Phase \ Terminal
  BY DEF Phase, Terminal
<1>5. /\ "verification" \in Gates /\ "health" \in Gates /\ "soak" \in Gates
      /\ "metrics" \in Gates /\ "approval" \in Gates
  BY DEF Gates
\* Persisting one of these statuses from "fsm" is a plain effect.
<1>6. ASSUME NEW c \in LiveStatus, c.phase = s.phase, c.rejected = s.rejected,
             c.applyIssued = s.applyIssued
      PROVE  /\ failTarget(t, c) \in BoundedStatus
             /\ failTarget(t, c).rejected = s.rejected
             /\ failTarget(t, c).applyIssued = s.applyIssued
             /\ failTarget(t, c).phase \in {s.phase, "Failed", "Skipped"}
  <2>1. failTarget(t, c) \in BoundedStatus
    BY StatusMoves
  <2>2. /\ failTarget(t, c).rejected = c.rejected
        /\ failTarget(t, c).applyIssued = c.applyIssued
        /\ failTarget(t, c).phase \in {"Failed", "Skipped"}
    BY MoveFields
  <2> QED
    BY <1>6, <2>1, <2>2
<1>7. ASSUME job[t].pc = "fsm", Private, UNCHANGED passed,
             \/ Persist(t, s) \/ Persist(t, seen)
             \/ Persist(t, failTarget(t, s)) \/ Persist(t, failTarget(t, seen))
             \/ Persist(t, MissingCluster(t, s))
      PROVE  HandleEffect(t)
  <2>1. PICK n \in BoundedStatus : /\ Persist(t, n)
                                   /\ n.rejected = s.rejected
                                   /\ n.applyIssued = s.applyIssued
                                   /\ n.phase \in {s.phase, "Failed", "Skipped"}
    BY <1>1, <1>2, <1>3, <1>6, <1>7, StatusMoves, MoveFields
  <2> QED
    BY <1>7, <2>1, PlainEffect DEF s
<1>8. ASSUME NEW g \in Gates, Pass(t, g)
      PROVE  passed'[t] = passed[t] \cup {g}
  BY <1>8 DEF Pass, TypeInv, OthersOK
<1>9. CASE handleInitial(t)
  <2>1. job[t].pc = "fsm" /\ s.phase = "" /\ Private /\ UNCHANGED passed
        /\ Advance(t, transitionTo(s, "Pending"))
    BY <1>9 DEF handleInitial, Working, s
  <2>2. GatesPassed(t, "Pending", passed'[t]) /\ Forward(s.phase, "Pending")
    BY <2>1, ForwardEdges DEF GatesPassed
  <2> QED
    BY <1>1, <1>4, <2>1, <2>2, AdvanceEffect DEF s
<1>10. CASE \E found, fresh \in BOOLEAN : handlePending(t, found, fresh)
  <2>1. job[t].pc = "fsm" /\ s.phase = "Pending" /\ Private /\ UNCHANGED passed
    BY <1>10 DEF handlePending, Working, s
  <2>2. CASE Advance(t, transitionTo(seen, "Verification"))
    <3>1. GatesPassed(t, "Verification", passed'[t]) /\ Forward(s.phase, "Verification")
      BY <2>1, ForwardEdges DEF GatesPassed
    <3> QED
      BY <1>2, <1>4, <2>1, <2>2, <3>1, AdvanceEffect DEF s
  <2> QED
    BY <1>7, <1>10, <2>1, <2>2 DEF handlePending, s, seen
<1>11. CASE \E a \in Answers : handleVerification(t, a)
  <2>1. job[t].pc = "fsm" /\ s.phase = "Verification" /\ Private
    BY <1>11 DEF handleVerification, Working, s
  <2>2. CASE Advance(t, transitionTo(s, "HealthCheck")) /\ Pass(t, "verification")
    <3>1. GatesPassed(t, "HealthCheck", passed'[t]) /\ Forward(s.phase, "HealthCheck")
      BY <1>5, <1>8, <2>1, <2>2, ForwardEdges DEF GatesPassed
    <3> QED
      BY <1>1, <1>4, <1>5, <2>1, <2>2, <3>1, AdvanceEffect DEF s
  <2> QED
    BY <1>7, <1>11, <2>1, <2>2 DEF handleVerification, s
<1>12. CASE \E found, fresh \in BOOLEAN, a \in Answers : handleHealthCheck(t, found, fresh, a)
  <2>1. job[t].pc = "fsm" /\ s.phase = "HealthCheck" /\ Private
    BY <1>12 DEF handleHealthCheck, Working, s
  <2> DEFINE p == IF t \in SoakTargets THEN "Soaking" ELSE "MetricsCheck"
  <2>2. CASE Advance(t, transitionTo(seen, p)) /\ Pass(t, "health")
    <3>1. GatesPassed(t, s.phase, passed[t]) => GatesPassed(t, p, passed'[t])
      BY <1>5, <1>8, <2>1, <2>2 DEF GatesPassed
    <3>2. Forward(s.phase, p) /\ p \in Phase \ Terminal /\ p # "Applying"
      BY <1>4, <2>1, ForwardEdges
    <3> HIDE DEF p
    <3> QED
      BY <1>2, <1>5, <2>1, <2>2, <3>1, <3>2, AdvanceEffect DEF s
  <2>3. \/ Advance(t, transitionTo(seen, p)) /\ Pass(t, "health")
        \/ /\ UNCHANGED passed
           /\ \/ Persist(t, MissingCluster(t, s)) \/ Persist(t, seen)
              \/ Persist(t, failTarget(t, seen))
    BY <1>12 DEF handleHealthCheck, transitionToSoakOrMetrics, s, seen
  <2> QED
    BY <1>7, <2>1, <2>2, <2>3
<1>13. CASE \E elapsed \in BOOLEAN : handleSoaking(t, elapsed)
  <2>1. job[t].pc = "fsm" /\ s.phase = "Soaking" /\ Private
    BY <1>13 DEF handleSoaking, Working, s
  <2>2. CASE Advance(t, transitionTo(s, "MetricsCheck")) /\ Pass(t, "soak")
    <3>1. /\ GatesPassed(t, s.phase, passed[t]) => GatesPassed(t, "MetricsCheck", passed'[t])
          /\ Forward(s.phase, "MetricsCheck")
      BY <1>5, <1>8, <2>1, <2>2, ForwardEdges DEF GatesPassed
    <3> QED
      BY <1>1, <1>4, <1>5, <2>1, <2>2, <3>1, AdvanceEffect DEF s
  <2> QED
    BY <1>7, <1>13, <2>1, <2>2 DEF handleSoaking, s
<1>14. CASE \E a \in Answers, timedOut \in BOOLEAN : handleMetricsCheck(t, a, timedOut)
  <2>1. job[t].pc = "fsm" /\ s.phase = "MetricsCheck" /\ Private
    BY <1>14 DEF handleMetricsCheck, Working, s
  <2> DEFINE p == IF t \in ApprovalTargets THEN "WaitingApproval" ELSE "Applying"
  <2>2. CASE /\ Advance(t, transitionTo(s, p))
             /\ (t \notin GatedTargets /\ UNCHANGED passed) \/ Pass(t, "metrics")
    <3>1. GatesPassed(t, s.phase, passed[t]) => GatesPassed(t, p, passed'[t])
      BY <1>5, <1>8, <2>1, <2>2 DEF GatesPassed
    <3>2. /\ Forward(s.phase, p) /\ p \in Phase \ Terminal
          /\ p = "Applying" => t \notin ApprovalTargets
      BY <1>4, <2>1, ForwardEdges
    <3> HIDE DEF p
    <3> QED
      BY <1>1, <1>5, <2>1, <2>2, <3>1, <3>2, AdvanceEffect DEF s
  <2>3. ASSUME NEW a \in Answers, UNCHANGED passed,
               LET f == [s EXCEPT !.gateFailed = @ \/ a = "Failed"]
               IN  Persist(t, f) \/ Persist(t, failTarget(t, f))
        PROVE  HandleEffect(t)
    <3> DEFINE f == [s EXCEPT !.gateFailed = @ \/ a = "Failed"]
    <3>1. /\ f \in LiveStatus /\ f.phase = s.phase /\ f.rejected = s.rejected
          /\ f.applyIssued = s.applyIssued
      <4>1. s.gateFailed \in BOOLEAN
        BY <1>1 DEF LiveStatus, Status
      <4>2. PICK b \in BOOLEAN : b = (s.gateFailed \/ a = "Failed")
        BY <4>1
      <4>3. f = [s EXCEPT !.gateFailed = b]
        BY <4>2
      <4> QED
        BY <1>1, <4>3, StatusMoves DEF LiveStatus, Status
    <3>2. f \in BoundedStatus
      BY <3>1 DEF LiveStatus, BoundedStatus
    <3>3. Persist(t, f) \/ Persist(t, failTarget(t, f))
      BY <2>3
    <3> HIDE DEF f
    <3>4. PICK n \in BoundedStatus : /\ Persist(t, n)
                                     /\ n.rejected = s.rejected
                                     /\ n.applyIssued = s.applyIssued
                                     /\ n.phase \in {s.phase, "Failed", "Skipped"}
      BY <1>6, <3>1, <3>2, <3>3
    <3> QED
      BY <2>1, <2>3, <3>4, PlainEffect DEF s
  <2>4. PICK a \in Answers, timedOut \in BOOLEAN : handleMetricsCheck(t, a, timedOut)
    BY <1>14
  <2>5. CASE t \notin GatedTargets
    BY <2>2, <2>4, <2>5 DEF handleMetricsCheck, nextAfterMetrics, s
  <2>6. CASE t \in GatedTargets /\ a = "Passed" /\ ~s.gateFailed
    BY <2>2, <2>4, <2>6 DEF handleMetricsCheck, nextAfterMetrics, s
  <2>7. CASE t \in GatedTargets /\ ~(a = "Passed" /\ ~s.gateFailed)
    BY <2>3, <2>4, <2>7 DEF handleMetricsCheck, s
  <2> QED
    BY <2>5, <2>6, <2>7
<1>15. CASE handleWaitingApproval(t)
  <2>1. job[t].pc = "fsm" /\ s.phase = "WaitingApproval" /\ Private
    BY <1>15 DEF handleWaitingApproval, Working, s
  <2>2. CASE ~s.rejected /\ Advance(t, transitionTo(s, "Applying")) /\ Pass(t, "approval")
    <3>1. /\ GatesPassed(t, s.phase, passed[t]) => GatesPassed(t, "Applying", passed'[t])
          /\ Forward(s.phase, "Applying")
      BY <1>5, <1>8, <2>1, <2>2, ForwardEdges DEF GatesPassed
    <3> QED
      BY <1>1, <1>4, <1>5, <2>1, <2>2, <3>1, AdvanceEffect DEF s
  <2> QED
    BY <1>7, <1>15, <2>1, <2>2 DEF handleWaitingApproval, s
<1>16. CASE \E found, fresh \in BOOLEAN, a \in Answers \cup {"Empty"} :
              handleApplying(t, found, fresh, a)
  <2>1. job[t].pc = "fsm" /\ s.phase = "Applying" /\ Private /\ UNCHANGED passed
    BY <1>16 DEF handleApplying, Working, s
  <2>2. ASSUME NEW pc \in {"claim", "apply"}, JobBecomes(t, seen, pc)
        PROVE  HandleEffect(t)
    <3>1. Moved(t, s, seen, passed[t], passed'[t])
      BY <1>1, <1>2, <2>1, PlainMove
    <3>2. applies' = applies /\ UNCHANGED <<obj, cache, lag, queued, suspended, approved, vetoed>>
      BY <2>1 DEF Private, objects, parents
    <3>3. applies[t] \in Nat
      BY ConstantsAssumption DEF TypeInv, OthersOK
    <3> QED
      BY <1>2, <2>1, <2>2, <3>1, <3>2, <3>3 DEF HandleEffect, JobBecomes, Busy, Acting, s
  <2>3. \/ \E pc \in {"claim", "apply"} :
             job' = [job EXCEPT ![t].status = seen, ![t].pc = pc]
        \/ Persist(t, s) \/ Persist(t, seen)
        \/ Persist(t, failTarget(t, s)) \/ Persist(t, failTarget(t, seen))
        \/ Persist(t, MissingCluster(t, s))
    BY <1>16 DEF handleApplying, s, seen
  <2>4. ASSUME NEW pc \in {"claim", "apply"},
               job' = [job EXCEPT ![t].status = seen, ![t].pc = pc]
        PROVE  HandleEffect(t)
    BY <1>3, <2>2, <2>4, JobShape DEF TypeInv
  <2> QED
    BY <1>7, <2>1, <2>3, <2>4
<1>17. CASE claimCluster(t)
  <2>1. job[t].pc = "claim" /\ s.phase = "Applying"
    BY <1>17 DEF claimCluster, ActingOK, Acting, s
  <2>2. JobBecomes(t, s, "apply")
    BY <1>17 DEF claimCluster, TypeInv, JobsOK, Job, JobBecomes, s
  <2>3. UNCHANGED <<obj, cache, lag, queued, suspended, approved, vetoed, passed, applies>>
    BY <1>17 DEF claimCluster, objects, parents, history
  <2>4. Moved(t, s, s, passed[t], passed'[t])
    BY <1>1, <2>3, PlainMove
  <2>5. applies[t] \in Nat
    BY ConstantsAssumption DEF TypeInv, OthersOK
  <2> QED
    BY <2>1, <2>2, <2>3, <2>4, <2>5 DEF HandleEffect, JobBecomes, Busy, Acting, s
<1>18. CASE \E a \in Answers \cup {"Error", "Lost"} : issueApply(t, a)
  <2>1. job[t].pc = "apply" /\ s.phase = "Applying"
    BY <1>18 DEF issueApply, ActingOK, Acting, s
  <2>2. UNCHANGED <<obj, cache, lag, queued, suspended, approved, vetoed, passed>>
    BY <1>18 DEF issueApply, objects, parents
  <2>3. \A u \in Targets : u # t => applies'[u] = applies[u]
    BY <1>18 DEF issueApply, Deliver, TypeInv, OthersOK
  <2>4. applies[t] \in Nat /\ MaxApplies \in Nat \ {0} /\ applies[t] <= MaxApplies
    BY ConstantsAssumption DEF TypeInv, OthersOK
  <2>5. (applies' = applies => applies'[t] >= applies[t])
        /\ (Deliver(t) => applies'[t] >= applies[t] /\ applies'[t] > 0)
    BY <2>4 DEF Deliver, TypeInv, OthersOK
  <2>6. ASSUME NEW n \in BoundedStatus, Persist(t, n), n.rejected = s.rejected,
               n.phase \in {s.phase, "Failed", "Skipped"}, n.applyIssued = s.applyIssued,
               applies'[t] >= applies[t]
        PROVE  HandleEffect(t)
    <3>1. JobBecomes(t, n, "write")
      BY <2>6, JobShape DEF TypeInv
    <3>2. Moved(t, s, n, passed[t], passed'[t])
      BY <1>1, <2>2, <2>6, PlainMove
    <3>3. n.phase # "Converged"
      BY <2>1, <2>6
    <3> QED
      BY <2>1, <2>2, <2>3, <2>6, <3>1, <3>2, <3>3
         DEF HandleEffect, JobBecomes, Busy, Acting, s
  <2>7. ASSUME NEW n \in BoundedStatus, JobBecomes(t, n, "observe"),
               n.rejected = s.rejected, n.phase = s.phase, n.applyIssued,
               (s.applyIssued /\ applies' = applies) \/ Deliver(t)
        PROVE  HandleEffect(t)
    <3>1. Moved(t, s, n, passed[t], passed'[t])
      BY <1>1, <2>2, <2>7, PlainMove
    <3>2. applies'[t] >= applies[t] /\ (s.applyIssued \/ applies'[t] > 0)
      BY <2>5, <2>7
    <3> QED
      BY <2>1, <2>2, <2>3, <2>7, <3>1, <3>2 DEF HandleEffect, JobBecomes, Busy, Acting, s
  <2>8. CASE s.applyIssued
    <3>1. job' = [job EXCEPT ![t].pc = "observe"] /\ applies' = applies
      BY <1>18, <2>8 DEF issueApply, s
    <3>2. JobBecomes(t, s, "observe")
      BY <3>1 DEF TypeInv, JobsOK, Job, JobBecomes, s
    <3> QED
      BY <1>3, <2>7, <2>8, <3>1, <3>2
  <2>9. CASE ~s.applyIssued
    <3> DEFINE issued == [s EXCEPT !.applyIssued = TRUE]
    <3>1. issued \in BoundedStatus /\ issued.applyIssued /\ issued.phase = s.phase
          /\ issued.rejected = s.rejected
      <4>1. issued \in LiveStatus
        BY <1>1, StatusMoves
      <4>2. issued.applyIssued /\ issued.phase = s.phase /\ issued.rejected = s.rejected
        BY <1>1 DEF LiveStatus, Status
      <4> QED
        BY <4>1, <4>2 DEF LiveStatus, BoundedStatus
    <3>2. \/ Persist(t, failTarget(t, s)) /\ applies' = applies
          \/ Persist(t, s) /\ (applies' = applies \/ Deliver(t))
          \/ job' = [job EXCEPT ![t].pc = "observe", ![t].status = issued] /\ Deliver(t)
      BY <1>18, <2>9 DEF issueApply, s
    <3> HIDE DEF issued
    <3>3. CASE Persist(t, failTarget(t, s)) /\ applies' = applies
      BY <1>1, <1>6, <2>5, <2>6, <3>3
    <3>4. CASE Persist(t, s) /\ (applies' = applies \/ Deliver(t))
      BY <1>3, <2>5, <2>6, <3>4
    <3>5. CASE job' = [job EXCEPT ![t].pc = "observe", ![t].status = issued] /\ Deliver(t)
      BY <2>7, <3>1, <3>5, JobShape DEF TypeInv
    <3> QED
      BY <3>2, <3>3, <3>4, <3>5
  <2> QED
    BY <2>8, <2>9
<1>19. CASE \E a \in Answers : pollConvergence(t, a)
  <2>1. job[t].pc = "observe" /\ s.phase = "Applying" /\ s.applyIssued
        /\ Private /\ UNCHANGED passed
    BY <1>19 DEF pollConvergence, ActingOK, Acting, s
  <2>2. applies' = applies /\ UNCHANGED <<obj, cache, lag, queued, suspended, approved, vetoed>>
    BY <2>1 DEF Private, objects, parents
  <2>3. applies[t] \in Nat
    BY ConstantsAssumption DEF TypeInv, OthersOK
  <2>4. ASSUME NEW n \in BoundedStatus, Persist(t, n), n.rejected = s.rejected,
               Moved(t, s, n, passed[t], passed'[t])
        PROVE  HandleEffect(t)
    <3>1. JobBecomes(t, n, "write")
      BY <2>4, JobShape DEF TypeInv
    <3> QED
      BY <2>1, <2>2, <2>3, <2>4, <3>1 DEF HandleEffect, JobBecomes, Busy, Acting, s
  <2>5. CASE Persist(t, transitionTo(s, "Converged"))
    <3> DEFINE n == transitionTo(s, "Converged")
    <3>1. n \in BoundedStatus /\ n.phase = "Converged" /\ n.rejected = s.rejected
      BY <1>1, StatusMoves, MoveFields DEF Phase, Terminal
    <3> HIDE DEF n
    <3>2. GatesPassed(t, s.phase, passed[t]) => GatesPassed(t, n.phase, passed'[t])
      BY <2>1, <3>1 DEF GatesPassed
    <3>3. Forward(s.phase, n.phase)
      BY <2>1, <3>1, ForwardEdges DEF Phase, Terminal
    <3>4. Moved(t, s, n, passed[t], passed'[t])
      BY <2>1, <3>1, <3>2, <3>3 DEF Moved
    <3> QED
      BY <2>4, <2>5, <3>1, <3>4 DEF n
  <2>6. CASE Persist(t, failTarget(t, s))
    <3>1. Moved(t, s, failTarget(t, s), passed[t], passed'[t])
      BY <1>1, <1>6, <2>1, PlainMove
    <3> QED
      BY <1>1, <1>6, <2>4, <2>6, <3>1
  <2>7. CASE Persist(t, s)
    <3>1. Moved(t, s, s, passed[t], passed'[t])
      BY <1>1, <2>1, PlainMove
    <3> QED
      BY <1>3, <2>4, <2>7, <3>1
  <2> QED
    BY <1>19, <2>5, <2>6, <2>7 DEF pollConvergence, s
<1> QED
  BY <1>9, <1>10, <1>11, <1>12, <1>13, <1>14, <1>15, <1>16, <1>17, <1>18, <1>19 DEF Handle

-----------------------------------------------------------------------------
(* The inductive invariant of the safety properties, target by target.     *)

\* The phase a copy may hold only of a target whose version was handed over,
\* or is about to be.
Committed == {"Applying", "Converged"}

\* A reconcile acts only in phase Applying; one that is not under way holds
\* nothing.
JobSafe(t) ==
    /\ job[t].pc \in Acting => job[t].status.phase = "Applying"
    /\ job[t].pc = "observe" => job[t].status.applyIssued
    /\ job[t].pc = "idle" => job[t] = Idle

\* Every copy of the target's phase has its gates passed.
GateSafe(t) ==
    /\ GatesPassed(t, obj[t].status.phase, passed[t])
    /\ GatesPassed(t, cache[t].status.phase, passed[t])
    /\ GatesPassed(t, job[t].status.phase, passed[t])
    /\ applies[t] > 0 => Required(t) \subseteq passed[t]

\* Every copy that says the version was applied is right.
ApplySafe(t) ==
    /\ obj[t].status.applyIssued \/ obj[t].status.phase = "Converged" => applies[t] > 0
    /\ cache[t].status.applyIssued \/ cache[t].status.phase = "Converged" => applies[t] > 0
    /\ job[t].status.applyIssued \/ job[t].status.phase = "Converged" => applies[t] > 0

\* A cache that is up to date equals the object, and a copy that is not
\* outdated is at the object's phase or ahead of it.
OrderSafe(t) ==
    /\ lag[t] = "none" => cache[t] = obj[t]
    /\ job[t].pc # "idle" /\ ~job[t].behind =>
         /\ job[t].status.rejected = obj[t].status.rejected
         /\ \/ job[t].status.phase = obj[t].status.phase
            \/ Forward(obj[t].status.phase, job[t].status.phase)

\* Applying is persisted before it is acted on.
EntrySafe(t) ==
    obj[t].status.phase \notin {"Applying"} \cup Terminal =>
        /\ cache[t].status.phase \notin Committed
        /\ applies[t] = 0
        /\ job[t].pc \in Busy => job[t].status.phase # "Applying"

\* Once vetoed, no copy of the target that could be written or acted on is
\* committed.
VetoSafe(t) ==
    vetoed[t] =>
        /\ t \in ApprovalTargets
        /\ obj[t].status.rejected
        /\ obj[t].status.phase \notin Committed
        /\ cache[t].status.phase \notin Committed
        /\ applies[t] = 0
        /\ job[t].pc \in Busy => job[t].status.phase # "Applying"
        /\ ~job[t].behind => job[t].status.phase \notin Committed

Safe(t) ==
    /\ JobSafe(t) /\ GateSafe(t) /\ ApplySafe(t)
    /\ OrderSafe(t) /\ EntrySafe(t) /\ VetoSafe(t)

SafeInv == \A t \in Targets : Safe(t)

\* Forward is an order that ends in the terminal phases.
LEMMA ForwardLaws ==
    /\ \A p, q, r : Forward(p, q) /\ Forward(q, r) => Forward(p, r)
    /\ \A p, q : Forward(p, q) => p \notin Terminal
    /\ \A q \in Phase : Forward("Applying", q) => q \in Terminal
<1>1. \A S, T \in Prefixes : S \subseteq T \/ T \subseteq S
  BY DEF Prefixes, Phase, Terminal
<1>2. \A p, q, r : Forward(p, q) /\ Forward(q, r) => Forward(p, r)
  BY <1>1 DEF Forward
<1>3. \A S \in Prefixes : S \cap Terminal = {}
  BY DEF Prefixes, Phase, Terminal
<1>4. \A S \in Prefixes : "Applying" \in S => S = Phase \ Terminal
  <2> SUFFICES ASSUME NEW S \in Prefixes, S # Phase \ Terminal
               PROVE  "Applying" \notin S
    OBVIOUS
  <2>1. \/ S = {""} \/ S = {"", "Pending"} \/ S = {"", "Pending", "Verification"}
        \/ S = {"", "Pending", "Verification", "HealthCheck"}
        \/ S = {"", "Pending", "Verification", "HealthCheck", "Soaking"}
        \/ S = {"", "Pending", "Verification", "HealthCheck", "Soaking", "MetricsCheck"}
        \/ S = Phase \ ({"Applying"} \cup Terminal)
    BY DEF Prefixes
  <2>2. "Applying" \notin Phase \ ({"Applying"} \cup Terminal)
    BY SMT
  <2>3. "Applying" \notin {"", "Pending", "Verification", "HealthCheck", "Soaking",
                            "MetricsCheck"}
    OBVIOUS
  <2> QED
    BY <2>1, <2>2, <2>3, Zenon
<1> QED
  BY <1>2, <1>3, <1>4 DEF Forward

\* A target none of whose copies and histories change stays safe.
LEMMA Frame ==
    ASSUME NEW t, Safe(t), obj'[t] = obj[t], cache'[t] = cache[t], lag'[t] = lag[t],
           job'[t] = job[t], passed'[t] = passed[t], applies'[t] = applies[t],
           vetoed'[t] = vetoed[t]
    PROVE  Safe(t)'
BY DEF Safe, JobSafe, GateSafe, ApplySafe, OrderSafe, EntrySafe, VetoSafe

\* A write by someone else, or one of the label between reconciles, that
\* leaves the status alone.
LEMMA SpecWrite ==
    ASSUME TypeInv, SafeInv, NEW t \in Targets, NEW o \in Object, o.status = obj[t].status,
           NEW e \in {"quiet", "waking"}, WriteObject(t, o, e), cache' = cache,
           (job[t].pc = "idle" /\ job' = job) \/ OutdateJob(t),
           UNCHANGED history
    PROVE  SafeInv'
<1>1. ASSUME NEW u \in Targets, u # t
      PROVE  Safe(u)'
  <2>1. obj'[u] = obj[u] /\ lag'[u] = lag[u] /\ job'[u] = job[u]
    BY <1>1 DEF WriteObject, OutdateJob, TypeInv, ObjectsOK, JobsOK
  <2> QED
    BY <1>1, <2>1, Frame DEF SafeInv, history
<1>2. obj'[t] = o /\ lag'[t] # "none" /\ cache'[t] = cache[t]
      /\ passed'[t] = passed[t] /\ applies'[t] = applies[t] /\ vetoed'[t] = vetoed[t]
  BY DEF WriteObject, TypeInv, ObjectsOK, Lag, history
<1>3. /\ job'[t].status = job[t].status /\ job'[t].pc = job[t].pc
      /\ job[t].pc # "idle" => job'[t].behind
      /\ job[t].pc = "idle" => job'[t] = job[t]
      /\ ~job'[t].behind => ~job[t].behind
  BY DEF OutdateJob, TypeInv, JobsOK, Job
<1>4. Safe(t)
  BY DEF SafeInv
<1>5. JobSafe(t)' /\ OrderSafe(t)'
  BY <1>2, <1>3, <1>4 DEF Safe, JobSafe, OrderSafe
<1>6. GateSafe(t)' /\ ApplySafe(t)' /\ EntrySafe(t)' /\ VetoSafe(t)'
  BY <1>2, <1>3, <1>4 DEF Safe, GateSafe, ApplySafe, EntrySafe, VetoSafe
<1> QED
  BY <1>1, <1>5, <1>6 DEF SafeInv, Safe

\* Starting a reconcile.
LEMMA BeginSafe ==
    ASSUME TypeInv, SafeInv, NEW t \in Targets, Begin(t)
    PROVE  SafeInv'
<1>1. obj[t] \in Object /\ cache[t] \in Object /\ Safe(t)
  BY DEF TypeInv, ObjectsOK, SafeInv
<1>2. CASE ReconcileTerminal(t)
  <2>1. CASE UNCHANGED <<obj, lag>>
    BY <1>2, <2>1, Frame DEF SafeInv, ReconcileTerminal, history
  <2>2. CASE WriteObject(t, [obj[t] EXCEPT !.label = "current"], "quiet")
    <3> DEFINE o == [obj[t] EXCEPT !.label = "current"]
    <3>1. o \in Object /\ o.status = obj[t].status
      BY <1>1 DEF Object, Label
    <3>2. /\ WriteObject(t, o, "quiet") /\ cache' = cache /\ job[t].pc = "idle"
          /\ job' = job /\ UNCHANGED history
      BY <1>2, <2>2 DEF ReconcileTerminal, Dequeue
    <3> HIDE DEF o
    <3> QED
      BY <3>1, <3>2, SpecWrite
  <2> QED
    BY <1>2, <2>1, <2>2 DEF ReconcileTerminal
<1>3. CASE ReconcileSuspended(t)
  BY <1>3, Frame DEF SafeInv, ReconcileSuspended, objects, history
<1>4. ASSUME UNCHANGED <<objects, history>>,
             NEW new \in Job, job' = [job EXCEPT ![t] = new],
             new.status = cache[t].status, new.behind = (lag[t] # "none"),
             \/ new.pc = "cancel"
             \/ new.pc = "fsm" /\ cache[t].status.phase \notin Terminal
      PROVE  SafeInv'
  <2>1. ASSUME NEW u \in Targets, u # t
        PROVE  Safe(u)'
    BY <1>4, <2>1, Frame DEF SafeInv, TypeInv, JobsOK, objects, history
  <2>2. job'[t] = new
    BY <1>4 DEF TypeInv, JobsOK
  <2>3. JobSafe(t)' /\ GateSafe(t)' /\ ApplySafe(t)'
    BY <1>1, <1>4, <2>2 DEF Safe, JobSafe, GateSafe, ApplySafe, Acting, objects, history
  <2>4. OrderSafe(t)'
    BY <1>1, <1>4, <2>2 DEF Safe, OrderSafe, objects
  <2>5. EntrySafe(t)' /\ VetoSafe(t)'
    BY <1>1, <1>4, <2>2 DEF Safe, EntrySafe, VetoSafe, OrderSafe, Committed, objects, history
  <2> QED
    BY <2>1, <2>3, <2>4, <2>5 DEF SafeInv, Safe
<1>5. CASE ReconcileCancelled(t)
  <2> DEFINE new == [pc |-> "cancel", status |-> cache[t].status,
                     behind |-> lag[t] # "none",
                     cancelledPhase |-> cache[t].cancelledPhase]
  <2>1. /\ new \in Job /\ new.status = cache[t].status /\ new.behind = (lag[t] # "none")
        /\ new.pc = "cancel"
    BY <1>1 DEF Job, Step, Object
  <2>2. job' = [job EXCEPT ![t] = new] /\ UNCHANGED <<objects, history>>
    BY <1>5 DEF ReconcileCancelled
  <2> HIDE DEF new
  <2> QED
    BY <1>4, <2>1, <2>2
<1>6. CASE ReconcileFSM(t)
  <2> DEFINE new == [pc |-> "fsm", status |-> cache[t].status,
                     behind |-> lag[t] # "none",
                     cancelledPhase |-> "Failed"]
  <2>1. /\ new \in Job /\ new.status = cache[t].status /\ new.behind = (lag[t] # "none")
        /\ new.pc = "fsm"
    BY <1>1 DEF Job, Step, Object
  <2>2. job' = [job EXCEPT ![t] = new] /\ UNCHANGED <<objects, history>>
        /\ cache[t].status.phase \notin Terminal
    BY <1>6 DEF ReconcileFSM
  <2> HIDE DEF new
  <2> QED
    BY <1>4, <2>1, <2>2
<1> QED
  BY <1>2, <1>3, <1>5, <1>6 DEF Begin

\* Evaluating a handler.
LEMMA HandleSafe ==
    ASSUME TypeInv, SafeInv, NEW t \in Targets, Handle(t)
    PROVE  SafeInv'
<1>1. HandleEffect(t)
  <2>1. ActingOK
    BY DEF SafeInv, Safe, JobSafe, ActingOK
  <2> QED
    BY <2>1, HandlerEffect
<1>2. ASSUME NEW u \in Targets, u # t
      PROVE  Safe(u)'
  BY <1>1, <1>2, Frame DEF HandleEffect, SafeInv
<1>3. Safe(t) /\ applies[t] \in Nat
  BY ConstantsAssumption DEF SafeInv, TypeInv, OthersOK
<1>4. /\ obj' = obj /\ cache' = cache /\ lag' = lag /\ vetoed' = vetoed
      /\ Moved(t, job[t].status, job'[t].status, passed[t], passed'[t])
      /\ job[t].pc \in Busy /\ job'[t].pc \in Busy \cup {"write"}
  BY <1>1 DEF HandleEffect
<1>5. applies'[t] = applies[t] \/ job[t].pc = "apply"
  BY <1>1 DEF HandleEffect
<1>6. job[t].pc = "apply" => job[t].status.phase = "Applying" /\ job[t].pc \in Busy
  BY <1>3 DEF Safe, JobSafe, Acting, Busy
<1>7. JobSafe(t)'
  BY <1>1, <1>4 DEF HandleEffect, JobSafe, Busy
<1>8. GateSafe(t)'
  <2>1. \A p : GatesPassed(t, p, passed[t]) => GatesPassed(t, p, passed'[t])
    BY <1>4 DEF Moved, GatesPassed
  <2>2. GatesPassed(t, job'[t].status.phase, passed'[t])
    BY <1>3, <1>4 DEF Safe, GateSafe, Moved
  <2>3. applies'[t] > 0 => Required(t) \subseteq passed'[t]
    <3>1. CASE applies'[t] = applies[t]
      BY <1>3, <1>4, <3>1 DEF Safe, GateSafe, Moved
    <3>2. CASE job[t].pc = "apply"
      <4>1. GatesPassed(t, "Applying", passed'[t])
        BY <1>3, <1>6, <2>1, <3>2 DEF Safe, GateSafe
      <4> QED
        BY <4>1 DEF GatesPassed, Required
    <3> QED
      BY <1>5, <3>1, <3>2
  <2> QED
    BY <1>3, <1>4, <2>1, <2>2, <2>3 DEF Safe, GateSafe
<1>9. ApplySafe(t)'
  <2>1. applies[t] > 0 => applies'[t] > 0
    <3>1. applies'[t] \in Nat
      BY HandleType, ConstantsAssumption DEF TypeInv, OthersOK
    <3>2. applies'[t] >= applies[t]
      BY <1>1 DEF HandleEffect
    <3> QED
      BY <1>3, <3>1, <3>2
  <2>2. job'[t].status.phase = "Converged" => job[t].status.applyIssued
    BY <1>1, <1>3 DEF HandleEffect, Safe, JobSafe
  <2>3. job'[t].status.applyIssued => job[t].status.applyIssued \/ applies'[t] > 0
    BY <1>1 DEF HandleEffect
  <2> QED
    BY <1>3, <1>4, <2>1, <2>2, <2>3 DEF Safe, ApplySafe
<1>10. OrderSafe(t)'
  <2>1. job[t].pc # "idle" /\ job'[t].behind = job[t].behind
    BY <1>1 DEF HandleEffect, Busy
  <2>2. /\ job'[t].status.rejected = job[t].status.rejected
        /\ \/ job'[t].status.phase = job[t].status.phase
           \/ Forward(job[t].status.phase, job'[t].status.phase)
    BY <1>4 DEF Moved
  <2> QED
    BY <1>3, <1>4, <2>1, <2>2, ForwardLaws DEF Safe, OrderSafe
<1>11. EntrySafe(t)'
  <2>1. job'[t].pc \in Busy /\ job'[t].status.phase = "Applying" =>
          job[t].status.phase = "Applying"
    BY <1>1 DEF HandleEffect, Busy
  <2> QED
    BY <1>3, <1>4, <1>5, <1>6, <2>1 DEF Safe, EntrySafe
<1>12. VetoSafe(t)'
  <2>1. job'[t].pc \in Busy /\ job'[t].status.phase = "Applying" =>
          job[t].status.phase = "Applying"
    BY <1>1 DEF HandleEffect, Busy
  <2>2. job'[t].status.phase = "Converged" => job[t].status.phase = "Applying"
    BY <1>4 DEF Moved
  <2>3. ASSUME vetoed[t], ~job'[t].behind, job'[t].status.phase = "Applying"
        PROVE  job[t].status.phase = "Applying"
    <3>1. job[t].status.rejected /\ t \in ApprovalTargets
      BY <1>1, <1>3, <2>3 DEF HandleEffect, Safe, OrderSafe, VetoSafe, Busy
    <3> QED
      BY <1>4, <2>3, <3>1 DEF Moved
  <2>4. vetoed[t] => job[t].status.phase # "Applying"
    BY <1>3, <1>4 DEF Safe, VetoSafe
  <2> QED
    BY <1>3, <1>4, <1>5, <1>6, <2>1, <2>2, <2>3, <2>4 DEF Safe, VetoSafe, Committed
<1> QED
  BY <1>2, <1>7, <1>8, <1>9, <1>10, <1>11, <1>12 DEF SafeInv, Safe

\* Ending a reconcile.
LEMMA FinishSafe ==
    ASSUME TypeInv, SafeInv, NEW t \in Targets, Write(t) \/ abandon(t)
    PROVE  SafeInv'
<1>1. Safe(t) /\ obj[t] \in Object /\ job[t] \in Job
  BY DEF SafeInv, TypeInv, ObjectsOK, JobsOK
<1>2. job' = [job EXCEPT ![t] = Idle] /\ cache' = cache /\ UNCHANGED history
  BY DEF Write, writeStatus, writeCancelled, abandon, objects
<1>3. /\ job'[t] = Idle /\ cache'[t] = cache[t] /\ passed'[t] = passed[t]
      /\ applies'[t] = applies[t] /\ vetoed'[t] = vetoed[t]
      /\ \A u \in Targets : u # t => job'[u] = job[u]
  BY <1>2 DEF TypeInv, JobsOK, history
<1>4. ASSUME NEW u \in Targets, u # t
      PROVE  Safe(u)'
  <2>1. obj'[u] = obj[u] /\ lag'[u] = lag[u]
    BY <1>4 DEF Write, writeStatus, writeCancelled, abandon, WriteObject, objects,
                TypeInv, ObjectsOK
  <2> QED
    BY <1>2, <1>3, <1>4, <2>1, Frame DEF SafeInv, history
<1>5. /\ Idle.pc = "idle" /\ Idle.status.phase = "" /\ Idle.status.applyIssued = FALSE
      /\ Idle.behind = FALSE /\ "idle" \notin Busy /\ "idle" \notin Acting
  BY DEF Idle, EmptyStatus, Busy, Acting
<1>6. JobSafe(t)'
  BY <1>3, <1>5 DEF JobSafe
<1>7. GatesPassed(t, Idle.status.phase, passed[t])
  BY <1>5 DEF GatesPassed
\* What the object may become: what it was, the reconcile's copy, the flip.
<1>8. ASSUME NEW p, obj'[t].status.phase = p,
             obj'[t].status.applyIssued => applies[t] > 0,
             GatesPassed(t, p, passed[t]),
             p = "Converged" => applies[t] > 0,
             lag'[t] = "none" => cache[t] = obj'[t],
             p \notin {"Applying"} \cup Terminal =>
               obj[t].status.phase \notin {"Applying"} \cup Terminal,
             vetoed[t] => obj'[t].status.rejected /\ p \notin Committed
      PROVE  Safe(t)'
  <2>1. GateSafe(t)' /\ ApplySafe(t)'
    BY <1>1, <1>3, <1>5, <1>7, <1>8 DEF Safe, GateSafe, ApplySafe
  <2>2. OrderSafe(t)' /\ EntrySafe(t)'
    BY <1>1, <1>3, <1>5, <1>8 DEF Safe, OrderSafe, EntrySafe
  <2>3. VetoSafe(t)'
    BY <1>1, <1>3, <1>5, <1>8 DEF Safe, VetoSafe, Committed
  <2> QED
    BY <1>6, <2>1, <2>2, <2>3 DEF Safe
<1>9. CASE abandon(t)
  <2>1. obj' = obj /\ lag' = lag
    BY <1>9 DEF abandon, objects
  <2> QED
    BY <1>1, <1>4, <1>8, <2>1
       DEF SafeInv, Safe, GateSafe, ApplySafe, OrderSafe, VetoSafe
<1>10. ASSUME NEW labelled \in BOOLEAN, writeStatus(t, labelled)
       PROVE  SafeInv'
  <2>1. /\ obj'[t].status = job[t].status /\ lag'[t] # "none" /\ ~job[t].behind
        /\ job[t].pc = "write"
    BY <1>1, <1>10 DEF writeStatus, WriteObject, CanWrite, TypeInv, ObjectsOK, Object
  <2> DEFINE p == job[t].status.phase
  <2>2. p = obj[t].status.phase \/ Forward(obj[t].status.phase, p)
    BY <1>1, <2>1 DEF Safe, OrderSafe
  <2>3. p \in Phase
    BY <1>1 DEF Job, Status
  <2>4. p \notin {"Applying"} \cup Terminal =>
          obj[t].status.phase \notin {"Applying"} \cup Terminal
    BY <2>2, <2>3, ForwardLaws
  <2>5. vetoed[t] => job[t].status.rejected /\ p \notin Committed
    BY <1>1, <2>1 DEF Safe, VetoSafe, OrderSafe
  <2>6. GatesPassed(t, p, passed[t]) /\ (p = "Converged" => applies[t] > 0)
        /\ (job[t].status.applyIssued => applies[t] > 0)
    BY <1>1 DEF Safe, GateSafe, ApplySafe
  <2>7. Safe(t)'
    BY <1>8, <2>1, <2>4, <2>5, <2>6
  <2> QED
    BY <1>4, <2>7 DEF SafeInv
<1>11. ASSUME NEW labelled \in BOOLEAN, writeCancelled(t, labelled)
       PROVE  SafeInv'
  <2> DEFINE p == job[t].cancelledPhase
  <2>1. p \in {"Failed", "Skipped"}
    BY <1>1 DEF Job
  <2>2. /\ obj'[t].status = [obj[t].status EXCEPT !.phase = p]
        /\ lag'[t] # "none"
    BY <1>1, <1>11 DEF writeCancelled, WriteObject, TypeInv, ObjectsOK, Object
  <2>3. /\ obj'[t].status.phase = p
        /\ obj'[t].status.applyIssued = obj[t].status.applyIssued
        /\ obj'[t].status.rejected = obj[t].status.rejected
    BY <1>1, <2>2 DEF Object, Status
  <2>4. GatesPassed(t, p, passed[t]) /\ p \in Terminal /\ p \notin Committed
    BY <2>1 DEF GatesPassed, Terminal, Committed
  <2>5. (obj[t].status.applyIssued => applies[t] > 0)
        /\ (vetoed[t] => obj[t].status.rejected)
    BY <1>1 DEF Safe, ApplySafe, VetoSafe
  <2> HIDE DEF p
  <2>6. Safe(t)'
    BY <1>8, <2>1, <2>2, <2>3, <2>4, <2>5
  <2> QED
    BY <1>4, <2>6 DEF SafeInv
<1> QED
  BY <1>9, <1>10, <1>11 DEF Write

\* The other writers.
LEMMA InterfereSafe ==
    ASSUME TypeInv, SafeInv, NEW t \in Targets, Interfere(t)
    PROVE  SafeInv'
<1>1. Safe(t) /\ obj[t] \in Object
  BY DEF SafeInv, TypeInv, ObjectsOK
<1>2. CASE approve(t)
  BY <1>2, Frame DEF SafeInv, approve, objects, history
<1>3. CASE cancelTarget(t)
  <2> DEFINE o == [obj[t] EXCEPT !.cancelled = TRUE, !.cancelledPhase = "Failed"]
  <2>1. o \in Object /\ o.status = obj[t].status
    BY <1>1 DEF Object
  <2>2. WriteObject(t, o, "waking") /\ cache' = cache /\ OutdateJob(t) /\ UNCHANGED history
    BY <1>3 DEF cancelTarget
  <2> HIDE DEF o
  <2> QED
    BY <2>1, <2>2, SpecWrite
<1>4. CASE markSkipped(t)
  <2> DEFINE o == [obj[t] EXCEPT !.cancelled = TRUE, !.cancelledPhase = "Skipped"]
  <2>1. o \in Object /\ o.status = obj[t].status
    BY <1>1 DEF Object
  <2>2. WriteObject(t, o, "waking") /\ cache' = cache /\ OutdateJob(t) /\ UNCHANGED history
    BY <1>4 DEF markSkipped
  <2> HIDE DEF o
  <2> QED
    BY <2>1, <2>2, SpecWrite
<1>5. CASE persistTarget(t)
  <2> DEFINE o == [obj[t] EXCEPT !.cancelled = ~cache[t].cancelled /\ @,
                     !.cancelledPhase = IF cache[t].cancelled THEN "Failed" ELSE @,
                     !.label = IF cache[t].label # "none" THEN "none" ELSE @]
  <2> DEFINE e == IF cache[t].cancelled THEN "waking" ELSE "quiet"
  <2>1. o \in Object /\ o.status = obj[t].status /\ e \in {"quiet", "waking"}
    BY <1>1 DEF Object, Label
  <2>2. WriteObject(t, o, e) /\ cache' = cache /\ OutdateJob(t) /\ UNCHANGED history
    BY <1>5 DEF persistTarget
  <2> HIDE DEF o, e
  <2> QED
    BY <2>1, <2>2, SpecWrite
<1>6. CASE reject(t)
  <2>1. ASSUME NEW u \in Targets, u # t
        PROVE  Safe(u)'
    <3>1. /\ obj'[u] = obj[u] /\ lag'[u] = lag[u] /\ job'[u] = job[u]
          /\ cache' = cache /\ passed' = passed /\ applies' = applies
          /\ vetoed'[u] = vetoed[u]
      BY <1>6, <2>1 DEF reject, WriteObject, OutdateJob, TypeInv, ObjectsOK, JobsOK, OthersOK
    <3> QED
      BY <2>1, <3>1, Frame DEF SafeInv
  <2>2. /\ obj'[t].status = [obj[t].status EXCEPT !.rejected = TRUE]
        /\ lag'[t] # "none" /\ ~obj[t].status.rejected
        /\ cache' = cache /\ passed' = passed /\ applies' = applies
    BY <1>1, <1>6 DEF reject, WriteObject, TypeInv, ObjectsOK, Object
  <2>3. /\ obj'[t].status.phase = obj[t].status.phase
        /\ obj'[t].status.applyIssued = obj[t].status.applyIssued
        /\ obj'[t].status.rejected
    BY <1>1, <2>2 DEF Object, Status
  <2>4. /\ job'[t].status = job[t].status /\ job'[t].pc = job[t].pc
        /\ job[t].pc # "idle" => job'[t].behind
        /\ job[t].pc = "idle" => job'[t] = job[t]
    BY <1>6 DEF reject, OutdateJob, TypeInv, JobsOK, Job
  <2>5. vetoed'[t] => /\ t \in ApprovalTargets
                      /\ obj[t].status.phase \notin {"Applying"} \cup Terminal
    BY <1>6 DEF reject, TypeInv, OthersOK
  <2>6. JobSafe(t)' /\ GateSafe(t)' /\ ApplySafe(t)'
    BY <1>1, <2>2, <2>3, <2>4 DEF Safe, JobSafe, GateSafe, ApplySafe
  <2>7. OrderSafe(t)' /\ EntrySafe(t)'
    BY <1>1, <2>2, <2>3, <2>4 DEF Safe, OrderSafe, EntrySafe
  <2>8. VetoSafe(t)'
    <3>1. Idle.status.phase \notin Committed
      BY DEF Idle, EmptyStatus, Committed
    <3>2. job'[t].behind \/ job'[t].status.phase \notin Committed
      BY <1>1, <2>4, <3>1 DEF Safe, JobSafe
    <3> QED
      BY <1>1, <2>2, <2>3, <2>4, <2>5, <3>2 DEF Safe, EntrySafe, VetoSafe, Committed, Terminal
  <2> QED
    BY <2>1, <2>6, <2>7, <2>8 DEF SafeInv, Safe
<1> QED
  BY <1>2, <1>3, <1>4, <1>5, <1>6 DEF Interfere

\* Delivery of the newest version to the cache.
LEMMA SyncSafe ==
    ASSUME TypeInv, SafeInv, NEW t \in Targets, syncTarget(t)
    PROVE  SafeInv'
<1>1. /\ obj' = obj /\ job' = job /\ passed' = passed /\ applies' = applies
      /\ vetoed' = vetoed
  BY DEF syncTarget, history
<1>2. ASSUME NEW u \in Targets, u # t
      PROVE  Safe(u)'
  <2>1. cache'[u] = cache[u] /\ lag'[u] = lag[u]
    BY <1>2 DEF syncTarget, TypeInv, ObjectsOK
  <2> QED
    BY <1>1, <1>2, <2>1, Frame DEF SafeInv
<1>3. cache'[t] = obj[t] /\ lag'[t] = "none" /\ Safe(t)
  BY DEF syncTarget, TypeInv, ObjectsOK, SafeInv
<1>4. JobSafe(t)' /\ GateSafe(t)' /\ ApplySafe(t)' /\ OrderSafe(t)'
  BY <1>1, <1>3 DEF Safe, JobSafe, GateSafe, ApplySafe, OrderSafe
<1>5. EntrySafe(t)' /\ VetoSafe(t)'
  BY <1>1, <1>3 DEF Safe, EntrySafe, VetoSafe, Committed, Terminal
<1> QED
  BY <1>2, <1>4, <1>5 DEF SafeInv, Safe

\* Initially, and after every step, every target is safe.
LEMMA SafeStep == (Init => SafeInv) /\ (TypeInv /\ SafeInv /\ [Next]_vars => SafeInv')
<1>1. ASSUME Init
      PROVE  SafeInv
  <2>1. ASSUME NEW t \in Targets
        PROVE  Safe(t)
    <3>1. /\ obj[t].status = EmptyStatus /\ cache[t] = obj[t] /\ job[t] = Idle
          /\ applies[t] = 0 /\ vetoed[t] = FALSE
      BY <1>1 DEF Init, NewObject
    <3>2. /\ Idle.pc = "idle" /\ Idle.status = EmptyStatus
          /\ EmptyStatus.phase = "" /\ EmptyStatus.applyIssued = FALSE
      BY DEF Idle, EmptyStatus
    <3>3. GatesPassed(t, "", passed[t])
      BY DEF GatesPassed
    <3>4. JobSafe(t) /\ OrderSafe(t) /\ EntrySafe(t) /\ VetoSafe(t)
      BY <3>1, <3>2 DEF JobSafe, OrderSafe, EntrySafe, VetoSafe, Acting, Busy, Committed
    <3>5. ~(applies[t] > 0)
      BY <3>1
    <3>6. GateSafe(t) /\ ApplySafe(t)
      BY <3>1, <3>2, <3>3, <3>5 DEF GateSafe, ApplySafe
    <3> QED
      BY <3>4, <3>6 DEF Safe
  <2> QED
    BY <2>1 DEF SafeInv
<1>2. ASSUME TypeInv, SafeInv, [Next]_vars
      PROVE  SafeInv'
  <2>1. CASE UNCHANGED <<objects, job, history>>
    BY <1>2, <2>1, Frame DEF SafeInv, objects, history
  <2>2. CASE UNCHANGED vars
    BY <2>1, <2>2 DEF vars, objects, history
  <2>3. ASSUME NEW r \in Runs, endRun(r) \/ suspendRun(r) \/ resumeRun(r)
        PROVE  SafeInv'
    BY <2>1, <2>3 DEF endRun, suspendRun, resumeRun
  <2>4. ASSUME NEW r \in Runs, NEW c \in Clusters, clearActivePromotionRun(r, c)
        PROVE  SafeInv'
    BY <2>1, <2>4 DEF clearActivePromotionRun
  <2>5. ASSUME NEW c \in Clusters, syncCluster(c)
        PROVE  SafeInv'
    BY <2>1, <2>5 DEF syncCluster
  <2>6. SharedTargets \subseteq Targets
    BY ConstantsAssumption
  <2> QED
    BY <1>2, <2>2, <2>3, <2>4, <2>5, <2>6, BeginSafe, HandleSafe, FinishSafe,
       InterfereSafe, SyncSafe DEF Next
<1> QED
  BY <1>1, <1>2

-----------------------------------------------------------------------------
(* The safety theorems.                                                    *)

\* The inductive invariant holds throughout.
LEMMA Invariance == Spec => [](TypeInv /\ SafeInv)
<1>1. Init => TypeInv /\ SafeInv
  BY TypeStep, SafeStep
<1>2. TypeInv /\ SafeInv /\ [Next]_vars => (TypeInv /\ SafeInv)'
  BY TypeStep, SafeStep
<1> QED
  BY <1>1, <1>2, PTL DEF Spec

\* The actuator is never called for a target before every gate of its policy
\* has passed, for any number of targets and any policy.
THEOREM GatesAlwaysBeforeApply == Spec => []GatesBeforeApply
<1>1. SafeInv => GatesBeforeApply
  BY DEF SafeInv, Safe, GateSafe, GatesBeforeApply
<1> QED
  BY <1>1, Invariance, PTL

\* A rejection that is stored before the target is persisted Applying keeps
\* its version from the actuator, whatever approvals and reconciles race it.
THEOREM VetoAlwaysWins == Spec => []VetoWins
<1>1. SafeInv => VetoWins
  BY DEF SafeInv, Safe, VetoSafe, VetoWins, Committed
<1> QED
  BY <1>1, Invariance, PTL

\* A target persisted Converged, or with applyIssued set, was handed to the
\* actuator.
THEOREM ConvergedAlwaysApplied == Spec => []ConvergedWasApplied
<1>1. SafeInv => ConvergedWasApplied
  BY DEF SafeInv, Safe, ApplySafe, ConvergedWasApplied
<1> QED
  BY <1>1, Invariance, PTL

\* The persisted phase of a target never moves back, and leaves a terminal
\* phase only by the flip of a cancelled target to another terminal phase.
THEOREM PhaseAlwaysForward == Spec => PhaseMovesForward
<1> DEFINE Moves(t) ==
      obj'[t].status.phase # obj[t].status.phase =>
         \/ Forward(obj[t].status.phase, obj'[t].status.phase)
         \/ job[t].pc = "cancel" /\ obj'[t].status.phase \in Terminal
<1>1. ASSUME TypeInv, SafeInv, [Next]_vars, NEW u \in Targets
      PROVE  Moves(u)
  <2>1. obj[u] \in Object /\ job[u] \in Job /\ Safe(u)
    BY <1>1 DEF TypeInv, ObjectsOK, JobsOK, SafeInv
  <2>2. CASE obj' = obj
    BY <2>2
  <2>3. ASSUME NEW t \in Targets, NEW o, NEW e, WriteObject(t, o, e),
               o.status.phase = obj[t].status.phase
        PROVE  Moves(u)
    BY <1>1, <2>3 DEF WriteObject, TypeInv, ObjectsOK
  <2>4. ASSUME NEW t \in Targets, NEW labelled \in BOOLEAN, writeStatus(t, labelled)
        PROVE  Moves(u)
    <3>1. CASE u # t
      BY <1>1, <2>4, <3>1 DEF writeStatus, WriteObject, TypeInv, ObjectsOK
    <3>2. CASE u = t
      <4>1. obj'[u].status = job[u].status /\ ~job[u].behind /\ job[u].pc = "write"
        BY <1>1, <2>1, <2>4, <3>2
           DEF writeStatus, WriteObject, CanWrite, TypeInv, ObjectsOK, Object
      <4> QED
        BY <2>1, <4>1 DEF Safe, OrderSafe
    <3> QED
      BY <3>1, <3>2
  <2>5. ASSUME NEW t \in Targets, NEW labelled \in BOOLEAN, writeCancelled(t, labelled)
        PROVE  Moves(u)
    <3>1. CASE u # t
      BY <1>1, <2>5, <3>1 DEF writeCancelled, WriteObject, TypeInv, ObjectsOK
    <3>2. CASE u = t
      <4>1. /\ obj'[u].status = [obj[u].status EXCEPT !.phase = job[u].cancelledPhase]
            /\ job[u].pc = "cancel"
        BY <1>1, <2>1, <2>5, <3>2
           DEF writeCancelled, WriteObject, TypeInv, ObjectsOK, Object
      <4>2. obj'[u].status.phase = job[u].cancelledPhase
        BY <2>1, <4>1 DEF Object, Status
      <4>3. job[u].cancelledPhase \in Terminal
        BY <2>1 DEF Job, Terminal
      <4> QED
        BY <4>1, <4>2, <4>3
    <3> QED
      BY <3>1, <3>2
  <2>6. ASSUME NEW t \in Targets, Begin(t)
        PROVE  Moves(u)
    <3>1. [obj[t] EXCEPT !.label = "current"].status = obj[t].status
      BY <1>1 DEF TypeInv, ObjectsOK, Object
    <3> QED
      BY <2>2, <2>3, <2>6, <3>1 DEF Begin, ReconcileTerminal, ReconcileSuspended,
         ReconcileCancelled, ReconcileFSM, objects
  <2>7. ASSUME NEW t \in Targets, Handle(t)
        PROVE  Moves(u)
    <3>1. ActingOK
      BY <1>1 DEF SafeInv, Safe, JobSafe, ActingOK
    <3>2. HandleEffect(t)
      BY <1>1, <2>7, <3>1, HandlerEffect
    <3> QED
      BY <2>2, <3>2 DEF HandleEffect
  <2>8. ASSUME NEW t \in Targets, abandon(t) \/ syncTarget(t)
        PROVE  Moves(u)
    BY <2>2, <2>8 DEF abandon, syncTarget, objects
  <2>9. ASSUME NEW t \in Targets, Interfere(t)
        PROVE  Moves(u)
    <3>1. obj[t] \in Object
      BY <1>1 DEF TypeInv, ObjectsOK
    <3>2. CASE approve(t)
      BY <2>2, <3>2 DEF approve, objects
    <3>3. ASSUME NEW x, NEW y, NEW z
          PROVE  /\ [obj[t] EXCEPT !.cancelled = x, !.cancelledPhase = y].status = obj[t].status
                 /\ [obj[t] EXCEPT !.cancelled = x, !.cancelledPhase = y,
                                   !.label = z].status = obj[t].status
      BY <3>1 DEF Object
    <3>4. CASE cancelTarget(t)
      <4> DEFINE o == [obj[t] EXCEPT !.cancelled = TRUE, !.cancelledPhase = "Failed"]
      <4>1. WriteObject(t, o, "waking")
        BY <3>4 DEF cancelTarget
      <4>2. o.status = obj[t].status
        BY <3>3
      <4> HIDE DEF o
      <4> QED
        BY <2>3, <4>1, <4>2
    <3>5. CASE markSkipped(t)
      <4> DEFINE o == [obj[t] EXCEPT !.cancelled = TRUE, !.cancelledPhase = "Skipped"]
      <4>1. WriteObject(t, o, "waking")
        BY <3>5 DEF markSkipped
      <4>2. o.status = obj[t].status
        BY <3>3
      <4> HIDE DEF o
      <4> QED
        BY <2>3, <4>1, <4>2
    <3>6. CASE persistTarget(t)
      <4> DEFINE x == ~cache[t].cancelled /\ obj[t].cancelled
      <4> DEFINE y == IF cache[t].cancelled THEN "Failed" ELSE obj[t].cancelledPhase
      <4> DEFINE z == IF cache[t].label # "none" THEN "none" ELSE obj[t].label
      <4> DEFINE o == [obj[t] EXCEPT !.cancelled = x, !.cancelledPhase = y, !.label = z]
      <4>1. \E e : WriteObject(t, o, e)
        BY <3>6 DEF persistTarget
      <4>2. o.status = obj[t].status
        BY <3>3
      <4> HIDE DEF o
      <4> QED
        BY <2>3, <4>1, <4>2
    <3>7. CASE reject(t)
      <4>1. [obj[t] EXCEPT !.status = [@ EXCEPT !.rejected = TRUE]].status.phase
              = obj[t].status.phase
        BY <3>1 DEF Object, Status
      <4> QED
        BY <2>3, <3>7, <4>1 DEF reject
    <3> QED
      BY <2>9, <3>2, <3>4, <3>5, <3>6, <3>7 DEF Interfere
  <2>10. CASE \/ UNCHANGED vars
              \/ \E r \in Runs : endRun(r) \/ suspendRun(r) \/ resumeRun(r)
              \/ \E r \in Runs, c \in Clusters : clearActivePromotionRun(r, c)
              \/ \E c \in Clusters : syncCluster(c)
    BY <2>2, <2>10 DEF vars, endRun, suspendRun, resumeRun, clearActivePromotionRun,
                       syncCluster, objects
  <2>11. SharedTargets \subseteq Targets
    BY ConstantsAssumption
  <2> HIDE DEF Moves
  <2> QED
    BY <1>1, <2>4, <2>5, <2>6, <2>7, <2>8, <2>9, <2>10, <2>11 DEF Next, Write
<1>2. TypeInv /\ SafeInv /\ [Next]_vars => [\A t \in Targets : Moves(t)]_vars
  BY <1>1
<1> QED
  BY <1>2, Invariance, PTL DEF Spec, PhaseMovesForward

-----------------------------------------------------------------------------
(* The effect of single writes.                                            *)

LEMMA WriteEffect ==
    ASSUME TypeInv, NEW t \in Targets, NEW o, NEW e, WriteObject(t, o, e)
    PROVE  /\ obj'[t] = o
           /\ lag'[t] = IF lag[t] = "waking" THEN "waking" ELSE e
           /\ \A u \in Targets : u # t => obj'[u] = obj[u] /\ lag'[u] = lag[u]
  BY DEF WriteObject, TypeInv, ObjectsOK

LEMMA OutdateEffect ==
    ASSUME TypeInv, NEW t \in Targets, OutdateJob(t)
    PROVE  /\ job'[t].pc = job[t].pc /\ job'[t].cancelledPhase = job[t].cancelledPhase
           /\ job[t].pc # "idle" => job'[t].behind
           /\ \A u \in Targets : u # t => job'[u] = job[u]
  BY DEF OutdateJob, TypeInv, JobsOK, Job

-----------------------------------------------------------------------------
(* Where a cancellation stands between the object, its cached copy and the *)
(* reconcile.                                                              *)

\* A cancellation the cache does not show yet will wake the reconciler; a
\* terminal target stays terminal; and a reconcile of the state machine that may
\* still write back works for a target that is not cancelled, and has found it
\* converged only if it is applying.
CancelSafe(t) ==
    /\ lag[t] # "waking" => /\ cache[t].cancelled = obj[t].cancelled
                            /\ cache[t].cancelledPhase = obj[t].cancelledPhase
    /\ cache[t].status.phase \in Terminal => obj[t].status.phase \in Terminal
    /\ job[t].pc \in Busy \cup {"write"} /\ ~job[t].behind =>
         /\ ~obj[t].cancelled
         /\ job[t].status.phase = "Converged" => obj[t].status.phase = "Applying"

CancelInv == \A t \in Targets : CancelSafe(t)

LEMMA CancelFrame ==
    ASSUME NEW t, CancelSafe(t), obj'[t] = obj[t], cache'[t] = cache[t], lag'[t] = lag[t],
           job'[t] = job[t]
    PROVE  CancelSafe(t)'
  BY DEF CancelSafe

\* What the writes of the other actors change: a write that does not wake the
\* reconciler leaves the cancellation alone.
LEMMA InterfereEffect ==
    ASSUME TypeInv, CancelInv, NEW t \in Targets, Interfere(t), ~approve(t)
    PROVE  /\ cache' = cache /\ queued' = queued /\ OutdateJob(t)
           /\ obj'[t].status.phase = obj[t].status.phase
           /\ \/ lag'[t] = "waking"
              \/ /\ lag'[t] = "quiet" /\ lag[t] # "waking"
                 /\ obj'[t].cancelled = obj[t].cancelled
                 /\ obj'[t].cancelledPhase = obj[t].cancelledPhase
           /\ \A u \in Targets : u # t => obj'[u] = obj[u] /\ lag'[u] = lag[u]
<1>1. obj[t] \in Object /\ lag[t] \in Lag /\ CancelSafe(t)
  BY DEF TypeInv, ObjectsOK, CancelInv
<1>2. cache' = cache /\ queued' = queued /\ OutdateJob(t)
  BY DEF Interfere, cancelTarget, markSkipped, persistTarget, reject
<1>3. CASE cancelTarget(t)
  <2> DEFINE o == [obj[t] EXCEPT !.cancelled = TRUE, !.cancelledPhase = "Failed"]
  <2>1. WriteObject(t, o, "waking")
    BY <1>3 DEF cancelTarget
  <2>2. o.status = obj[t].status
    BY <1>1 DEF Object
  <2> HIDE DEF o
  <2> QED
    BY <1>2, <2>1, <2>2, WriteEffect
<1>4. CASE markSkipped(t)
  <2> DEFINE o == [obj[t] EXCEPT !.cancelled = TRUE, !.cancelledPhase = "Skipped"]
  <2>1. WriteObject(t, o, "waking")
    BY <1>4 DEF markSkipped
  <2>2. o.status = obj[t].status
    BY <1>1 DEF Object
  <2> HIDE DEF o
  <2> QED
    BY <1>2, <2>1, <2>2, WriteEffect
<1>5. CASE reject(t)
  <2>1. PICK o : WriteObject(t, o, "waking") /\ o.status.phase = obj[t].status.phase
    BY <1>1, <1>5 DEF reject, Object, Status
  <2> QED
    BY <1>2, <2>1, WriteEffect
<1>6. CASE persistTarget(t)
  <2> DEFINE o == [obj[t] EXCEPT !.cancelled = ~cache[t].cancelled /\ @,
                     !.cancelledPhase = IF cache[t].cancelled THEN "Failed" ELSE @,
                     !.label = IF cache[t].label # "none" THEN "none" ELSE @]
  <2>1. WriteObject(t, o, IF cache[t].cancelled THEN "waking" ELSE "quiet")
    BY <1>6 DEF persistTarget
  <2>2. o.status = obj[t].status
    BY <1>1 DEF Object
  <2>3. ~cache[t].cancelled => /\ o.cancelled = obj[t].cancelled
                               /\ o.cancelledPhase = obj[t].cancelledPhase
    BY <1>1 DEF Object
  <2> HIDE DEF o
  <2>4. CASE cache[t].cancelled
    BY <1>2, <2>1, <2>2, <2>4, WriteEffect
  <2>5. CASE ~cache[t].cancelled
    <3>1. /\ obj'[t] = o /\ lag'[t] = IF lag[t] = "waking" THEN "waking" ELSE "quiet"
          /\ \A u \in Targets : u # t => obj'[u] = obj[u] /\ lag'[u] = lag[u]
      BY <2>1, <2>5, WriteEffect
    <3> QED
      BY <1>2, <2>2, <2>3, <2>5, <3>1
  <2> QED
    BY <2>4, <2>5
<1> QED
  BY <1>3, <1>4, <1>5, <1>6 DEF Interfere

\* What the two ways of ending a reconcile write.
LEMMA FinishEffect ==
    ASSUME TypeInv, SafeInv, CancelInv, NEW t \in Targets, NEW labelled \in BOOLEAN,
           writeStatus(t, labelled) \/ writeCancelled(t, labelled)
    PROVE  /\ cache' = cache /\ job'[t] = Idle
           /\ lag'[t] = IF lag[t] = "waking" THEN "waking" ELSE "quiet"
           /\ obj'[t].cancelled = obj[t].cancelled
           /\ obj'[t].cancelledPhase = obj[t].cancelledPhase
           /\ \/ /\ writeStatus(t, labelled) /\ job[t].pc = "write" /\ ~job[t].behind
                 /\ obj'[t].status = job[t].status /\ ~obj[t].cancelled
                 /\ job[t].status.phase = "Converged" => obj[t].status.phase = "Applying"
                 /\ \/ job[t].status.phase = obj[t].status.phase
                    \/ Forward(obj[t].status.phase, job[t].status.phase)
              \/ /\ writeCancelled(t, labelled) /\ job[t].pc = "cancel"
                 /\ obj'[t].status.phase = job[t].cancelledPhase
           /\ obj[t].status.phase \in Terminal => obj'[t].status.phase \in Terminal
           /\ \A u \in Targets : u # t => obj'[u] = obj[u] /\ lag'[u] = lag[u] /\ job'[u] = job[u]
<1>1. obj[t] \in Object /\ job[t] \in Job /\ Safe(t) /\ CancelSafe(t)
  BY DEF TypeInv, ObjectsOK, JobsOK, SafeInv, CancelInv
<1>2. /\ cache' = cache /\ job'[t] = Idle
      /\ \A u \in Targets : u # t => job'[u] = job[u]
  BY DEF writeStatus, writeCancelled, TypeInv, JobsOK
<1>3. CASE writeStatus(t, labelled)
  <2> DEFINE o == [obj[t] EXCEPT !.status = job[t].status, !.label = Relabelled(@, labelled)]
  <2>1. WriteObject(t, o, "quiet") /\ job[t].pc = "write" /\ ~job[t].behind
    BY <1>3 DEF writeStatus, CanWrite
  <2>2. /\ o.status = job[t].status /\ o.cancelled = obj[t].cancelled
        /\ o.cancelledPhase = obj[t].cancelledPhase
    BY <1>1 DEF Object
  <2>3. \/ job[t].status.phase = obj[t].status.phase
        \/ Forward(obj[t].status.phase, job[t].status.phase)
    BY <1>1, <2>1 DEF Safe, OrderSafe
  <2>4. obj[t].status.phase \in Terminal => job[t].status.phase = obj[t].status.phase
    BY <2>3, ForwardLaws
  <2> HIDE DEF o
  <2>5. /\ obj'[t] = o /\ lag'[t] = IF lag[t] = "waking" THEN "waking" ELSE "quiet"
        /\ \A u \in Targets : u # t => obj'[u] = obj[u] /\ lag'[u] = lag[u]
    BY <2>1, WriteEffect
  <2>6. /\ ~obj[t].cancelled
        /\ job[t].status.phase = "Converged" => obj[t].status.phase = "Applying"
    BY <1>1, <2>1 DEF CancelSafe
  <2> QED
    BY <1>2, <1>3, <2>1, <2>2, <2>3, <2>4, <2>5, <2>6
<1>4. CASE writeCancelled(t, labelled)
  <2> DEFINE o == [obj[t] EXCEPT !.status = [@ EXCEPT !.phase = job[t].cancelledPhase],
                                 !.label = Relabelled(@, labelled)]
  <2>1. WriteObject(t, o, "quiet") /\ job[t].pc = "cancel"
    BY <1>4 DEF writeCancelled
  <2>2. /\ o.status.phase = job[t].cancelledPhase /\ o.cancelled = obj[t].cancelled
        /\ o.cancelledPhase = obj[t].cancelledPhase
    BY <1>1 DEF Object, Status
  <2>3. job[t].cancelledPhase \in Terminal
    BY <1>1 DEF Job, Terminal
  <2> HIDE DEF o
  <2>4. /\ obj'[t] = o /\ lag'[t] = IF lag[t] = "waking" THEN "waking" ELSE "quiet"
        /\ \A u \in Targets : u # t => obj'[u] = obj[u] /\ lag'[u] = lag[u]
    BY <2>1, WriteEffect
  <2> QED
    BY <1>2, <1>4, <2>1, <2>2, <2>3, <2>4
<1> QED
  BY <1>3, <1>4

\* A reconcile that begins, in the terms of CancelSafe.
LEMMA BeginEffect ==
    ASSUME TypeInv, NEW t \in Targets, Begin(t)
    PROVE  /\ cache' = cache /\ job[t].pc = "idle"
           /\ obj'[t].cancelled = obj[t].cancelled
           /\ obj'[t].cancelledPhase = obj[t].cancelledPhase
           /\ obj'[t].status = obj[t].status
           /\ lag'[t] = lag[t] \/ (lag[t] # "waking" /\ lag'[t] = "quiet")
           /\ \A u \in Targets : u # t => /\ obj'[u] = obj[u] /\ lag'[u] = lag[u]
                                          /\ job'[u] = job[u] /\ queued'[u] = queued[u]
           /\ \/ /\ job'[t] = job[t] /\ ~cache[t].cancelled
                 /\ cache[t].status.phase \in Terminal
              \/ job'[t] = job[t] /\ suspended[RunOf[t]]
              \/ /\ job'[t].pc = "cancel" /\ obj' = obj /\ lag' = lag /\ cache[t].cancelled
                 /\ job'[t].cancelledPhase = cache[t].cancelledPhase
              \/ /\ job'[t].pc = "fsm" /\ obj' = obj /\ lag' = lag /\ ~cache[t].cancelled
                 /\ ~job'[t].behind => lag[t] = "none"
                 /\ job'[t].status.phase \notin Terminal
<1>1. obj[t] \in Object /\ lag[t] \in Lag
  BY DEF TypeInv, ObjectsOK
<1> DEFINE Others == \A u \in Targets : u # t =>
                      /\ obj'[u] = obj[u] /\ lag'[u] = lag[u]
                      /\ job'[u] = job[u] /\ queued'[u] = queued[u]
<1> DEFINE Way ==
      \/ job'[t] = job[t] /\ ~cache[t].cancelled /\ cache[t].status.phase \in Terminal
      \/ job'[t] = job[t] /\ suspended[RunOf[t]]
      \/ /\ job'[t].pc = "cancel" /\ obj' = obj /\ lag' = lag /\ cache[t].cancelled
         /\ job'[t].cancelledPhase = cache[t].cancelledPhase
      \/ /\ job'[t].pc = "fsm" /\ obj' = obj /\ lag' = lag /\ ~cache[t].cancelled
         /\ ~job'[t].behind => lag[t] = "none"
         /\ job'[t].status.phase \notin Terminal
<1> DEFINE Kept ==
      /\ obj'[t].cancelled = obj[t].cancelled
      /\ obj'[t].cancelledPhase = obj[t].cancelledPhase
      /\ obj'[t].status = obj[t].status
      /\ lag'[t] = lag[t] \/ (lag[t] # "waking" /\ lag'[t] = "quiet")
<1>2. \A u \in Targets : u # t => queued'[u] = queued[u]
  BY DEF Begin, ReconcileTerminal, ReconcileSuspended, ReconcileCancelled, ReconcileFSM,
         Dequeue, TypeInv, OthersOK
<1>3. /\ cache' = cache /\ job[t].pc = "idle"
      /\ \A u \in Targets : u # t => job'[u] = job[u]
  BY DEF Begin, ReconcileTerminal, ReconcileSuspended, ReconcileCancelled, ReconcileFSM,
         Dequeue, objects, TypeInv, JobsOK
<1>4. Kept /\ Others
  <2>1. CASE UNCHANGED <<obj, lag>>
    BY <1>2, <1>3, <2>1
  <2>2. CASE WriteObject(t, [obj[t] EXCEPT !.label = "current"], "quiet")
    <3> DEFINE o == [obj[t] EXCEPT !.label = "current"]
    <3>1. /\ o.status = obj[t].status /\ o.cancelled = obj[t].cancelled
          /\ o.cancelledPhase = obj[t].cancelledPhase
      BY <1>1 DEF Object
    <3>2. WriteObject(t, o, "quiet")
      BY <2>2
    <3> HIDE DEF o
    <3>3. /\ obj'[t] = o /\ lag'[t] = IF lag[t] = "waking" THEN "waking" ELSE "quiet"
          /\ \A u \in Targets : u # t => obj'[u] = obj[u] /\ lag'[u] = lag[u]
      BY <3>2, WriteEffect
    <3> QED
      BY <1>2, <1>3, <3>1, <3>3
  <2> QED
    BY <2>1, <2>2 DEF Begin, ReconcileTerminal, ReconcileSuspended, ReconcileCancelled,
                      ReconcileFSM, objects
<1>5. Way
  <2>1. CASE ReconcileTerminal(t)
    BY <2>1 DEF ReconcileTerminal
  <2>2. CASE ReconcileSuspended(t)
    BY <2>2 DEF ReconcileSuspended
  <2>3. CASE ReconcileCancelled(t)
    BY <2>3 DEF ReconcileCancelled, objects, TypeInv, JobsOK
  <2>4. CASE ReconcileFSM(t)
    BY <2>4 DEF ReconcileFSM, objects, TypeInv, JobsOK
  <2> QED
    BY <2>1, <2>2, <2>3, <2>4 DEF Begin
<1> QED
  BY <1>3, <1>4, <1>5

\* CancelInv is an invariant.
LEMMA CancelStep ==
    /\ Init => CancelInv
    /\ TypeInv /\ SafeInv /\ CancelInv /\ [Next]_vars => CancelInv'
<1>1. ASSUME Init
      PROVE  CancelInv
  <2>1. "idle" \notin Busy \cup {"write"}
    BY DEF Busy
  <2>2. \A t \in Targets : cache[t] = obj[t] /\ job[t].pc = "idle"
    BY <1>1 DEF Init, Idle
  <2> QED
    BY <2>1, <2>2 DEF CancelInv, CancelSafe
<1>2. ASSUME TypeInv, SafeInv, CancelInv, NEW t \in Targets, Begin(t)
      PROVE  CancelInv'
  <2>1. CancelSafe(t) /\ "idle" \notin Busy \cup {"write"} /\ "cancel" \notin Busy \cup {"write"}
    BY <1>2 DEF CancelInv, Busy
  <2>2. CancelSafe(t)'
    <3>1. /\ cache'[t] = cache[t] /\ obj'[t].status = obj[t].status
          /\ obj'[t].cancelled = obj[t].cancelled
          /\ obj'[t].cancelledPhase = obj[t].cancelledPhase
          /\ lag'[t] # "waking" => lag[t] # "waking"
      BY <1>2, BeginEffect
    <3>2. ASSUME job'[t].pc \in Busy \cup {"write"}, ~job'[t].behind
          PROVE  /\ ~obj'[t].cancelled
                 /\ job'[t].status.phase = "Converged" => obj'[t].status.phase = "Applying"
      <4>1. /\ ~cache[t].cancelled /\ lag[t] = "none"
            /\ job'[t].status.phase \notin Terminal
        BY <1>2, <2>1, <3>2, BeginEffect
      <4> QED
        BY <2>1, <3>1, <4>1 DEF CancelSafe, Terminal
    <3> QED
      BY <2>1, <3>1, <3>2 DEF CancelSafe
  <2>3. ASSUME NEW u \in Targets, u # t
        PROVE  CancelSafe(u)'
    BY <1>2, <2>3, BeginEffect, CancelFrame DEF CancelInv
  <2> QED
    BY <2>2, <2>3 DEF CancelInv
<1>3. ASSUME TypeInv, SafeInv, CancelInv, NEW t \in Targets, Handle(t)
      PROVE  CancelInv'
  <2>1. ActingOK
    BY <1>3 DEF SafeInv, Safe, JobSafe, ActingOK
  <2>2. HandleEffect(t)
    BY <1>3, <2>1, HandlerEffect
  <2>3. ASSUME NEW u \in Targets, u # t
        PROVE  CancelSafe(u)'
    BY <1>3, <2>2, <2>3, CancelFrame DEF CancelInv, HandleEffect
  <2>4. /\ obj'[t] = obj[t] /\ cache'[t] = cache[t] /\ lag'[t] = lag[t]
        /\ job[t].pc \in Busy /\ job'[t].behind = job[t].behind
        /\ job'[t].status.phase = "Converged" => job[t].status.phase = "Applying"
    BY <2>2 DEF HandleEffect, Moved
  <2>5. ASSUME ~job[t].behind, job[t].status.phase = "Applying"
        PROVE  obj[t].status.phase = "Applying"
    <3>1. Safe(t) /\ job[t].pc # "idle"
      BY <1>3, <2>4 DEF SafeInv, Busy
    <3>2. obj[t].status.phase \in {"Applying"} \cup Terminal
      BY <2>4, <2>5, <3>1 DEF Safe, EntrySafe
    <3>3. \/ obj[t].status.phase = "Applying"
          \/ Forward(obj[t].status.phase, "Applying")
      BY <2>5, <3>1 DEF Safe, OrderSafe
    <3> QED
      BY <3>2, <3>3, ForwardLaws
  <2>6. CancelSafe(t)'
    BY <1>3, <2>4, <2>5 DEF CancelInv, CancelSafe
  <2> QED
    BY <2>3, <2>6 DEF CancelInv
<1>4. ASSUME TypeInv, SafeInv, CancelInv, NEW t \in Targets, NEW labelled \in BOOLEAN,
             writeStatus(t, labelled) \/ writeCancelled(t, labelled)
      PROVE  CancelInv'
  <2>1. CancelSafe(t) /\ Idle.pc \notin Busy \cup {"write"}
    BY <1>4 DEF CancelInv, Busy, Idle
  <2>2. CancelSafe(t)'
    BY <1>4, <2>1, FinishEffect DEF CancelSafe
  <2>3. ASSUME NEW u \in Targets, u # t
        PROVE  CancelSafe(u)'
    BY <1>4, <2>3, FinishEffect, CancelFrame DEF CancelInv
  <2> QED
    BY <2>2, <2>3 DEF CancelInv
<1>5. ASSUME TypeInv, SafeInv, CancelInv, NEW t \in Targets, abandon(t)
      PROVE  CancelInv'
  <2>1. Idle.pc \notin Busy \cup {"write"} /\ job' = [job EXCEPT ![t] = Idle]
        /\ UNCHANGED <<obj, cache, lag>>
    BY <1>5 DEF abandon, Busy, Idle, objects
  <2> QED
    BY <1>5, <2>1 DEF CancelInv, CancelSafe, TypeInv, JobsOK
<1>6. ASSUME TypeInv, SafeInv, CancelInv, NEW t \in Targets, syncTarget(t)
      PROVE  CancelInv'
  BY <1>6 DEF syncTarget, CancelInv, CancelSafe, TypeInv, ObjectsOK
<1>7. ASSUME TypeInv, SafeInv, CancelInv, NEW t \in Targets, Interfere(t), ~approve(t)
      PROVE  CancelInv'
  <2>1. CancelSafe(t) /\ "idle" \notin Busy \cup {"write"}
    BY <1>7 DEF CancelInv, Busy
  <2>2. OutdateJob(t) /\ cache' = cache
    BY <1>7, InterfereEffect
  <2>3. CancelSafe(t)'
    BY <1>7, <2>1, <2>2, InterfereEffect, OutdateEffect DEF CancelSafe
  <2>4. ASSUME NEW u \in Targets, u # t
        PROVE  CancelSafe(u)'
    BY <1>7, <2>2, <2>4, InterfereEffect, OutdateEffect, CancelFrame DEF CancelInv
  <2> QED
    BY <2>3, <2>4 DEF CancelInv
<1>8. ASSUME CancelInv, UNCHANGED <<obj, cache, lag, job>>
      PROVE  CancelInv'
  BY <1>8 DEF CancelInv, CancelSafe
<1>9. ASSUME \/ UNCHANGED vars \/ \E t \in Targets : approve(t)
             \/ \E r \in Runs : endRun(r) \/ suspendRun(r) \/ resumeRun(r)
             \/ \E r \in Runs, c \in Clusters : clearActivePromotionRun(r, c)
             \/ \E c \in Clusters : syncCluster(c)
      PROVE  UNCHANGED <<obj, cache, lag, job>>
  BY <1>9 DEF vars, approve, endRun, suspendRun, resumeRun, clearActivePromotionRun,
              syncCluster, objects
<1>10. SharedTargets \subseteq Targets
  BY ConstantsAssumption
<1> QED
  BY <1>1, <1>2, <1>3, <1>4, <1>5, <1>6, <1>7, <1>8, <1>9, <1>10 DEF Next, Write

-----------------------------------------------------------------------------
(* No target is forgotten.  The invariant follows a cancellation also      *)
(* while its reconcile is under way: what was read of it is what the       *)
(* object holds, or something will wake the reconciler again.              *)

\* Nothing is left to do for the target.
AtRest(t) ==
    /\ obj[t].status.phase \in Terminal
    /\ obj[t].cancelled => obj[t].status.phase = obj[t].cancelledPhase

WakeSafe(t) ==
    /\ \/ suspended[RunOf[t]]
       \/ job[t].pc # "idle" \/ queued[t] \/ lag[t] = "waking"
       \/ AtRest(t)
    /\ job[t].pc = "cancel" =>
         \/ queued[t] \/ lag[t] = "waking"
         \/ obj[t].cancelled => obj[t].cancelledPhase = job[t].cancelledPhase

WakeInv == \A t \in Targets : WakeSafe(t)

LEMMA WakeFrame ==
    ASSUME NEW t, WakeSafe(t), obj'[t] = obj[t], lag'[t] = lag[t], job'[t] = job[t],
           queued[t] => queued'[t], suspended[RunOf[t]] => suspended'[RunOf[t]]
    PROVE  WakeSafe(t)'
  BY DEF WakeSafe, AtRest

\* As long as runs are not resumed, every step leaves every target at rest or
\* about to be woken.
LEMMA WakeStep ==
    ASSUME ResumedRuns = {}
    PROVE  /\ Init => WakeInv
           /\ TypeInv /\ SafeInv /\ CancelInv /\ WakeInv /\ [Next]_vars => WakeInv'
<1>1. ASSUME Init
      PROVE  WakeInv
  BY <1>1 DEF Init, WakeInv, WakeSafe, Idle
<1>2. ASSUME TypeInv, SafeInv, CancelInv, WakeInv, NEW t \in Targets, Begin(t)
      PROVE  WakeInv'
  <2>1. suspended' = suspended
    BY <1>2 DEF Begin, ReconcileTerminal, ReconcileSuspended, ReconcileCancelled,
                ReconcileFSM, parents
  <2>2. CancelSafe(t)
    BY <1>2 DEF CancelInv
  <2>3. WakeSafe(t)'
    <3>1. CASE job'[t] = job[t] /\ ~cache[t].cancelled /\ cache[t].status.phase \in Terminal
      BY <1>2, <2>2, <3>1, BeginEffect DEF WakeSafe, AtRest, CancelSafe
    <3>2. CASE job'[t] = job[t] /\ suspended[RunOf[t]]
      BY <1>2, <2>1, <3>2, BeginEffect DEF WakeSafe
    <3>3. CASE /\ job'[t].pc = "cancel" /\ obj' = obj /\ lag' = lag
               /\ job'[t].cancelledPhase = cache[t].cancelledPhase
      BY <2>2, <3>3 DEF WakeSafe, CancelSafe
    <3>4. CASE job'[t].pc = "fsm"
      BY <3>4 DEF WakeSafe
    <3> QED
      BY <1>2, <3>1, <3>2, <3>3, <3>4, BeginEffect
  <2>4. ASSUME NEW u \in Targets, u # t
        PROVE  WakeSafe(u)'
    BY <1>2, <2>1, <2>4, BeginEffect, WakeFrame DEF WakeInv
  <2> QED
    BY <2>3, <2>4 DEF WakeInv
<1>3. ASSUME TypeInv, SafeInv, CancelInv, WakeInv, NEW t \in Targets, Handle(t)
      PROVE  WakeInv'
  <2>1. ActingOK
    BY <1>3 DEF SafeInv, Safe, JobSafe, ActingOK
  <2>2. HandleEffect(t)
    BY <1>3, <2>1, HandlerEffect
  <2>3. "idle" \notin Busy \cup {"write"} /\ "cancel" \notin Busy \cup {"write"}
    BY DEF Busy
  <2>4. ASSUME NEW u \in Targets
        PROVE  WakeSafe(u)'
    BY <1>3, <2>2, <2>3, <2>4 DEF WakeInv, WakeSafe, AtRest, HandleEffect
  <2> QED
    BY <2>4 DEF WakeInv
<1>4. ASSUME TypeInv, SafeInv, CancelInv, WakeInv, NEW t \in Targets,
             NEW labelled \in BOOLEAN, writeStatus(t, labelled) \/ writeCancelled(t, labelled)
      PROVE  WakeInv'
  <2>1. /\ suspended' = suspended /\ job[t] \in Job /\ obj[t] \in Object
        /\ \A u \in Targets : queued[u] => queued'[u]
    BY <1>4 DEF writeStatus, writeCancelled, parents, TypeInv, ObjectsOK, JobsOK, OthersOK
  <2>2. Idle.pc # "cancel"
    BY DEF Idle
  <2>3. CASE writeStatus(t, labelled)
    <3>1. queued'[t] \/ job[t].status.phase \in Terminal
      BY <1>4, <2>3 DEF writeStatus, TypeInv, OthersOK
    <3>2. obj'[t].status = job[t].status /\ ~obj'[t].cancelled /\ job'[t] = Idle
      BY <1>4, <2>3, FinishEffect DEF writeCancelled, writeStatus
    <3> QED
      BY <1>4, <2>1, <2>2, <3>1, <3>2, FinishEffect, WakeFrame DEF WakeInv, WakeSafe, AtRest
  <2>4. CASE writeCancelled(t, labelled)
    <3>1. job[t].cancelledPhase \in Terminal
      BY <2>1 DEF Job, Terminal
    <3>2. /\ obj'[t].status.phase = job[t].cancelledPhase /\ job'[t] = Idle
          /\ job[t].pc = "cancel"
          /\ obj'[t].cancelled = obj[t].cancelled
          /\ obj'[t].cancelledPhase = obj[t].cancelledPhase
          /\ lag[t] = "waking" => lag'[t] = "waking"
      BY <1>4, <2>4, FinishEffect DEF writeCancelled, writeStatus
    <3>3. WakeSafe(t)'
      BY <1>4, <2>1, <2>2, <3>1, <3>2 DEF WakeInv, WakeSafe, AtRest
    <3>4. ASSUME NEW u \in Targets, u # t
          PROVE  WakeSafe(u)'
      BY <1>4, <2>1, <3>4, FinishEffect, WakeFrame DEF WakeInv
    <3> QED
      BY <3>3, <3>4 DEF WakeInv
  <2> QED
    BY <1>4, <2>3, <2>4
<1>5. ASSUME TypeInv, SafeInv, CancelInv, WakeInv, NEW t \in Targets, abandon(t)
      PROVE  WakeInv'
  <2>1. /\ Idle.pc # "cancel" /\ job' = [job EXCEPT ![t] = Idle]
        /\ queued' = [queued EXCEPT ![t] = TRUE] /\ UNCHANGED <<obj, lag, suspended>>
    BY <1>5 DEF abandon, Idle, objects, parents, Enqueue
  <2> QED
    BY <1>5, <2>1 DEF WakeInv, WakeSafe, AtRest, TypeInv, JobsOK, OthersOK
<1>6. ASSUME TypeInv, SafeInv, CancelInv, WakeInv, NEW t \in Targets, syncTarget(t)
      PROVE  WakeInv'
  BY <1>6 DEF syncTarget, parents, WakeInv, WakeSafe, AtRest, TypeInv, ObjectsOK, OthersOK
<1>7. ASSUME TypeInv, SafeInv, CancelInv, WakeInv, NEW t \in Targets, Interfere(t), ~approve(t)
      PROVE  WakeInv'
  <2>1. suspended' = suspended
    BY <1>7 DEF Interfere, cancelTarget, markSkipped, persistTarget, reject, parents
  <2>2. OutdateJob(t) /\ queued' = queued
    BY <1>7, InterfereEffect
  <2>3. WakeSafe(t)'
    BY <1>7, <2>1, <2>2, InterfereEffect, OutdateEffect DEF WakeInv, WakeSafe, AtRest
  <2>4. ASSUME NEW u \in Targets, u # t
        PROVE  WakeSafe(u)'
    BY <1>7, <2>1, <2>2, <2>4, InterfereEffect, OutdateEffect, WakeFrame DEF WakeInv
  <2> QED
    BY <2>3, <2>4 DEF WakeInv
<1>8. ASSUME WakeInv, UNCHANGED <<obj, lag, job>>,
             \A t \in Targets : /\ queued[t] => queued'[t]
                                /\ suspended[RunOf[t]] => suspended'[RunOf[t]]
      PROVE  WakeInv'
  BY <1>8, WakeFrame DEF WakeInv
<1>9. ASSUME TypeInv, NEW t \in Targets, approve(t)
      PROVE  /\ UNCHANGED <<obj, lag, job>>
             /\ \A u \in Targets : /\ queued[u] => queued'[u]
                                   /\ suspended[RunOf[u]] => suspended'[RunOf[u]]
  BY <1>9 DEF approve, Enqueue, objects, TypeInv, OthersOK
<1>10. ASSUME TypeInv, \/ UNCHANGED vars
                       \/ \E r \in Runs : endRun(r) \/ suspendRun(r) \/ resumeRun(r)
                       \/ \E r \in Runs, c \in Clusters : clearActivePromotionRun(r, c)
                       \/ \E c \in Clusters : syncCluster(c)
       PROVE  /\ UNCHANGED <<obj, lag, job>>
              /\ \A u \in Targets : /\ queued[u] => queued'[u]
                                    /\ suspended[RunOf[u]] => suspended'[RunOf[u]]
  BY <1>10, ConstantsAssumption DEF vars, endRun, suspendRun, resumeRun,
     clearActivePromotionRun, syncCluster, objects, parents, TypeInv, OthersOK
<1>11. SharedTargets \subseteq Targets
  BY ConstantsAssumption
<1> QED
  BY <1>1, <1>2, <1>3, <1>4, <1>5, <1>6, <1>7, <1>8, <1>9, <1>10, <1>11 DEF Next, Write

\* The invariants hold throughout.
LEMMA CancelInvariance == Spec => [](TypeInv /\ SafeInv /\ CancelInv)
<1>1. Init => TypeInv /\ SafeInv /\ CancelInv
  BY TypeStep, SafeStep, CancelStep
<1>2. TypeInv /\ SafeInv /\ CancelInv /\ [Next]_vars => (TypeInv /\ SafeInv /\ CancelInv)'
  BY TypeStep, SafeStep, CancelStep
<1> QED
  BY <1>1, <1>2, PTL DEF Spec

\* No target with work left is ever forgotten, whatever writes, conflicts and
\* restarts its reconciles meet, provided nobody resumes a suspended run: the
\* reconciler drops the key of a target whose run is suspended, and does not
\* watch PromotionRuns.
THEOREM NeverForgotten ==
    ASSUME ResumedRuns = {}
    PROVE  Spec => []NoLostWakeup
<1>1. Init => WakeInv
  BY WakeStep
<1>2. TypeInv /\ SafeInv /\ CancelInv /\ WakeInv /\ [Next]_vars => WakeInv'
  BY WakeStep
<1>3. WakeInv => NoLostWakeup
  BY DEF WakeInv, WakeSafe, AtRest, NoLostWakeup
<1> QED
  BY <1>1, <1>2, <1>3, CancelInvariance, PTL DEF Spec

-----------------------------------------------------------------------------
(* Target implements TargetLife.                                           *)

\* Every cancellation the object carries, the cache shows or a reconcile obeys
\* has been asked for.
AskedInv ==
    /\ asked \in [Targets -> SUBSET {"Failed", "Skipped"}]
    /\ \A t \in Targets :
         /\ obj[t].cancelled => obj[t].cancelledPhase \in asked[t]
         /\ cache[t].cancelled => cache[t].cancelledPhase \in asked[t]
         /\ job[t].pc = "cancel" => job[t].cancelledPhase \in asked[t]

\* The history only grows, and holds what the object carries.
LEMMA RememberEffect ==
    ASSUME AskedInv, TypeInv', Remember
    PROVE  /\ asked' \in [Targets -> SUBSET {"Failed", "Skipped"}]
           /\ \A t \in Targets :
                /\ asked[t] \subseteq asked'[t]
                /\ asked'[t] = asked[t] \cup ({CancelOf(obj'[t])} \ {"no"})
                /\ obj'[t].cancelled => obj'[t].cancelledPhase \in asked'[t]
                /\ CancelOf(obj'[t]) = CancelOf(obj[t]) => asked'[t] = asked[t]
<1>1. \A t \in Targets : obj'[t].cancelledPhase \in {"Failed", "Skipped"}
  BY DEF TypeInv, ObjectsOK, Object
<1>2. \A t \in Targets : CancelOf(obj'[t]) \in {"no", "Failed", "Skipped"}
  BY <1>1 DEF CancelOf
<1>3. \A t \in Targets : asked'[t] = asked[t] \cup ({CancelOf(obj'[t])} \ {"no"})
  BY DEF Remember
<1>4. asked' \in [Targets -> SUBSET {"Failed", "Skipped"}]
  BY <1>2 DEF Remember, AskedInv
<1>5. ASSUME NEW t \in Targets
      PROVE  /\ obj'[t].cancelled => obj'[t].cancelledPhase \in asked'[t]
             /\ CancelOf(obj'[t]) = CancelOf(obj[t]) => asked'[t] = asked[t]
  <2>1. asked'[t] = asked[t] \cup ({CancelOf(obj'[t])} \ {"no"})
    BY <1>3
  <2>2. CancelOf(obj[t]) \in asked[t] \cup {"no"}
    BY DEF CancelOf, AskedInv
  <2>3. obj'[t].cancelled => CancelOf(obj'[t]) = obj'[t].cancelledPhase
    BY DEF CancelOf
  <2> QED
    BY <1>1, <2>1, <2>2, <2>3
<1> QED
  BY <1>3, <1>4, <1>5

\* The cache is what the object was, and a reconcile obeys the cancellation the
\* cache showed when it began.
CopyStep(u) ==
    /\ cache'[u] \in {cache[u], obj[u]}
    /\ job'[u].pc = "cancel" =>
         \/ job[u].pc = "cancel" /\ job'[u].cancelledPhase = job[u].cancelledPhase
         \/ cache[u].cancelled /\ job'[u].cancelledPhase = cache[u].cancelledPhase

LEMMA AskedStep ==
    /\ HInit => AskedInv
    /\ TypeInv /\ SafeInv /\ CancelInv /\ AskedInv /\ TypeInv' /\ [HNext]_<<vars, asked>>
         => AskedInv'
<1>1. ASSUME HInit
      PROVE  AskedInv
  <2>1. \A t \in Targets : ~obj[t].cancelled /\ ~cache[t].cancelled /\ job[t].pc = "idle"
    BY <1>1 DEF HInit, Init, NewObject, Idle
  <2> QED
    BY <1>1, <2>1 DEF HInit, AskedInv
<1>2. ASSUME AskedInv, UNCHANGED <<vars, asked>>
      PROVE  AskedInv'
  BY <1>2 DEF AskedInv, vars
<1>3. ASSUME TypeInv, SafeInv, CancelInv, AskedInv, TypeInv', HNext
      PROVE  AskedInv'
  <2>1. Next /\ Remember
    BY <1>3 DEF HNext
  <2>2. ASSUME NEW u \in Targets
        PROVE  CopyStep(u)
    <3>1. ASSUME NEW t \in Targets, Begin(t)
          PROVE  CopyStep(u)
      BY <1>3, <3>1, BeginEffect DEF CopyStep
    <3>2. ASSUME NEW t \in Targets, Handle(t)
          PROVE  CopyStep(u)
      <4>1. ActingOK
        BY <1>3 DEF SafeInv, Safe, JobSafe, ActingOK
      <4>2. HandleEffect(t) /\ "cancel" \notin Busy \cup {"write"}
        BY <1>3, <3>2, <4>1, HandlerEffect DEF Busy
      <4> QED
        BY <4>2 DEF HandleEffect, CopyStep
    <3>3. ASSUME NEW t \in Targets, NEW labelled \in BOOLEAN,
                 writeStatus(t, labelled) \/ writeCancelled(t, labelled)
          PROVE  CopyStep(u)
      <4>1. Idle.pc # "cancel"
        BY DEF Idle
      <4> QED
        BY <1>3, <3>3, <4>1, FinishEffect DEF CopyStep
    <3>4. ASSUME NEW t \in Targets, abandon(t) \/ syncTarget(t)
          PROVE  CopyStep(u)
      <4>1. Idle.pc # "cancel"
        BY DEF Idle
      <4> QED
        BY <1>3, <3>4, <4>1 DEF abandon, syncTarget, objects, TypeInv,
               JobsOK, ObjectsOK, CopyStep
    <3>5. ASSUME NEW t \in Targets, Interfere(t), ~approve(t)
          PROVE  CopyStep(u)
      BY <1>3, <3>5, InterfereEffect, OutdateEffect DEF CopyStep
    <3>6. CASE UNCHANGED <<cache, job>>
      BY <3>6 DEF CopyStep
    <3>7. ASSUME \/ \E t \in Targets : approve(t)
                 \/ \E r \in Runs : endRun(r) \/ suspendRun(r) \/ resumeRun(r)
                 \/ \E r \in Runs, c \in Clusters : clearActivePromotionRun(r, c)
                 \/ \E c \in Clusters : syncCluster(c)
          PROVE  UNCHANGED <<cache, job>>
      BY <3>7 DEF approve, endRun, suspendRun, resumeRun, clearActivePromotionRun,
                  syncCluster, objects
    <3>8. SharedTargets \subseteq Targets
      BY ConstantsAssumption
    <3>9. CASE \E t \in Targets : Begin(t) \/ Handle(t) \/ Write(t) \/ abandon(t) \/ syncTarget(t)
      BY <3>1, <3>2, <3>3, <3>4, <3>9 DEF Write
    <3>10. CASE \E t \in SharedTargets : Interfere(t)
      BY <3>5, <3>6, <3>7, <3>8, <3>10
    <3> QED
      BY <2>1, <3>6, <3>7, <3>9, <3>10 DEF Next
  <2> QED
    BY <1>3, <2>1, <2>2, RememberEffect DEF AskedInv, CopyStep
<1> QED
  BY <1>1, <1>2, <1>3

\* The life of a target that does not change.
LEMMA LifeStutter ==
    ASSUME AskedInv, TypeInv', Remember,
           \A u \in Targets : /\ LifeOf(obj'[u]) = LifeOf(obj[u])
                              /\ CancelOf(obj'[u]) = CancelOf(obj[u])
    PROVE  UNCHANGED Child!lifeVars
<1>1. asked' = asked
  BY RememberEffect DEF AskedInv
<1>2. [t \in Targets |-> LifeOf(obj'[t])] = [t \in Targets |-> LifeOf(obj[t])]
  OBVIOUS
<1>3. [t \in Targets |-> CancelOf(obj'[t])] = [t \in Targets |-> CancelOf(obj[t])]
  OBVIOUS
<1> QED
  BY <1>1, <1>2, <1>3 DEF Child!lifeVars

\* A change of one target's life, seen in the functions that TargetLife is
\* about.
LEMMA LifeChange ==
    ASSUME NEW t \in Targets, NEW p, LifeOf(obj'[t]) = p,
           \A u \in Targets : u # t => LifeOf(obj'[u]) = LifeOf(obj[u])
    PROVE  [u \in Targets |-> LifeOf(obj'[u])]
             = [[u \in Targets |-> LifeOf(obj[u])] EXCEPT ![t] = p]
  OBVIOUS

LEMMA CancelSame ==
    ASSUME \A u \in Targets : CancelOf(obj'[u]) = CancelOf(obj[u])
    PROVE  [u \in Targets |-> CancelOf(obj'[u])] = [u \in Targets |-> CancelOf(obj[u])]
  OBVIOUS

LEMMA LifeSame ==
    ASSUME \A u \in Targets : LifeOf(obj'[u]) = LifeOf(obj[u])
    PROVE  [u \in Targets |-> LifeOf(obj'[u])] = [u \in Targets |-> LifeOf(obj[u])]
  OBVIOUS

\* Where the phases stand in a life.
LEMMA LifeValues ==
    ASSUME NEW o
    PROVE  /\ o.status.phase \in Terminal => LifeOf(o) = o.status.phase
           /\ o.status.phase = "Applying" => LifeOf(o) = "applying"
           /\ o.status.phase \notin {"Applying"} \cup Terminal => LifeOf(o) = "waiting"
           /\ LifeOf(o) # "none"
  BY DEF LifeOf, Terminal

\* The end of a reconcile is a step of the child's own, or does not show.
LEMMA FinishImplements ==
    ASSUME TypeInv, SafeInv, CancelInv, AskedInv, TypeInv', Remember,
           NEW t \in Targets, NEW labelled \in BOOLEAN,
           writeStatus(t, labelled) \/ writeCancelled(t, labelled)
    PROVE  Child!ChildStep(t) \/ UNCHANGED Child!lifeVars
<1>1. \A u \in Targets : CancelOf(obj'[u]) = CancelOf(obj[u])
  BY FinishEffect DEF CancelOf
<1>2. /\ asked' = asked
      /\ [u \in Targets |-> CancelOf(obj'[u])] = [u \in Targets |-> CancelOf(obj[u])]
  BY <1>1, RememberEffect, CancelSame DEF AskedInv
<1>3. \A u \in Targets : u # t => LifeOf(obj'[u]) = LifeOf(obj[u])
  BY FinishEffect
<1>4. CASE LifeOf(obj'[t]) = LifeOf(obj[t])
  BY <1>1, <1>3, <1>4, LifeStutter
<1>5. CASE LifeOf(obj'[t]) # LifeOf(obj[t]) /\ writeStatus(t, labelled) /\ job[t].pc = "write"
  <2> DEFINE p == obj[t].status.phase
  <2> DEFINE q == job[t].status.phase
  <2>1. /\ obj'[t].status = job[t].status /\ ~obj[t].cancelled
        /\ q = "Converged" => p = "Applying"
        /\ q = p \/ Forward(p, q)
    BY <1>5, FinishEffect
  <2>2. p \in Phase /\ q \in Phase
    BY DEF TypeInv, ObjectsOK, JobsOK, Object, Job, Status
  <2>3. obj'[t].status.phase = q /\ CancelOf(obj[t]) = "no"
    BY <2>1 DEF CancelOf
  <2>4. q # p
    BY <1>5, <2>3, LifeValues
  <2>5. p \notin Terminal /\ (p = "Applying" => q \in Terminal)
    BY <2>1, <2>2, <2>4, ForwardLaws
  <2>6. LifeOf(obj[t]) \in {"waiting", "applying"}
    BY <2>5, LifeValues
  <2>7. CASE q = "Applying"
    <3>1. LifeOf(obj[t]) = "waiting" /\ LifeOf(obj'[t]) = "applying"
      BY <2>3, <2>4, <2>5, <2>7, LifeValues
    <3> QED
      BY <1>2, <1>3, <2>3, <3>1, LifeChange DEF Child!ChildStep, Child!Start
  <2>8. CASE q = "Converged"
    <3>1. LifeOf(obj[t]) = "applying" /\ LifeOf(obj'[t]) = "Converged"
      BY <2>1, <2>3, <2>8, LifeValues DEF Terminal
    <3> QED
      BY <1>2, <1>3, <2>3, <3>1, LifeChange DEF Child!ChildStep, Child!Finish
  <2>9. CASE q \in {"Failed", "Skipped"}
    <3>1. LifeOf(obj'[t]) = q
      BY <2>3, <2>9, LifeValues DEF Terminal
    <3>2. [u \in Targets |-> LifeOf(obj'[u])]
            = [[u \in Targets |-> LifeOf(obj[u])] EXCEPT ![t] = q]
      BY <1>3, <3>1, LifeChange
    <3> QED
      BY <1>2, <2>3, <2>6, <2>9, <3>2 DEF Child!ChildStep, Child!GiveUp
  <2>10. CASE q \notin {"Applying"} \cup Terminal
    <3>1. p \notin {"Applying"} \cup Terminal
      BY <2>5, <2>10
    <3> QED
      BY <1>5, <2>3, <2>10, <3>1, LifeValues
  <2> QED
    BY <2>7, <2>8, <2>9, <2>10 DEF Terminal
<1>6. CASE writeCancelled(t, labelled) /\ job[t].pc = "cancel"
  <2> DEFINE p == job[t].cancelledPhase
  <2>1. obj'[t].status.phase = p
    BY <1>6, FinishEffect
  <2>2. p \in {"Failed", "Skipped"} /\ p \in asked[t]
    BY <1>6 DEF AskedInv, TypeInv, JobsOK, Job
  <2>3. LifeOf(obj'[t]) = p /\ LifeOf(obj[t]) # "none"
    BY <2>1, <2>2, LifeValues DEF Terminal
  <2>4. Child!Flip(t, p)
    BY <1>2, <1>3, <2>2, <2>3, LifeChange DEF Child!Flip
  <2> QED
    BY <2>2, <2>4 DEF Child!ChildStep
<1> QED
  BY <1>4, <1>5, <1>6, FinishEffect

\* A write by another actor is a request of the parent, or does not show.
LEMMA InterfereImplements ==
    ASSUME TypeInv, SafeInv, CancelInv, AskedInv, TypeInv', Remember,
           NEW t \in Targets, Interfere(t), ~approve(t)
    PROVE  \/ \E p \in {"Failed", "Skipped"} : Child!Ask({t}, p)
           \/ Child!Keep({}, {t})
           \/ UNCHANGED Child!lifeVars
<1>1. \A u \in Targets : u # t => obj'[u] = obj[u]
  BY InterfereEffect
<1>2. \A u \in Targets : LifeOf(obj'[u]) = LifeOf(obj[u])
  BY <1>1, InterfereEffect DEF LifeOf
<1>3. obj[t] \in Object
  BY DEF TypeInv, ObjectsOK
<1>4. ASSUME NEW p \in {"Failed", "Skipped"}, obj'[t].cancelled, obj'[t].cancelledPhase = p
      PROVE  Child!Ask({t}, p)
  <2>1. CancelOf(obj'[t]) = p
    BY <1>4 DEF CancelOf
  <2>2. [u \in Targets |-> CancelOf(obj'[u])]
          = [u \in Targets |-> IF u \in {t} THEN p ELSE [v \in Targets |-> CancelOf(obj[v])][u]]
    BY <1>1, <2>1
  <2>3. \A u \in Targets : asked'[u] = IF u \in {t} THEN asked[u] \cup {p} ELSE asked[u]
    BY <1>1, <1>4, <2>1, RememberEffect
  <2>4. asked' = [u \in Targets |-> IF u \in {t} THEN asked[u] \cup {p} ELSE asked[u]]
    BY <2>3, RememberEffect
  <2> QED
    BY <1>2, <2>2, <2>4, LifeSame DEF Child!Ask
<1>5. CASE cancelTarget(t)
  <2> DEFINE o == [obj[t] EXCEPT !.cancelled = TRUE, !.cancelledPhase = "Failed"]
  <2>1. obj'[t] = o
    BY <1>5, WriteEffect DEF cancelTarget
  <2>2. o.cancelled /\ o.cancelledPhase = "Failed"
    BY <1>3 DEF Object
  <2> QED
    BY <1>4, <2>1, <2>2
<1>6. CASE markSkipped(t)
  <2> DEFINE o == [obj[t] EXCEPT !.cancelled = TRUE, !.cancelledPhase = "Skipped"]
  <2>1. obj'[t] = o
    BY <1>6, WriteEffect DEF markSkipped
  <2>2. o.cancelled /\ o.cancelledPhase = "Skipped"
    BY <1>3 DEF Object
  <2> QED
    BY <1>4, <2>1, <2>2
<1>7. ASSUME CancelOf(obj'[t]) = CancelOf(obj[t])
      PROVE  UNCHANGED Child!lifeVars
  BY <1>1, <1>2, <1>7, LifeStutter
<1>8. CASE reject(t)
  <2>1. obj'[t].cancelled = obj[t].cancelled /\ obj'[t].cancelledPhase = obj[t].cancelledPhase
    <3> DEFINE o == [obj[t] EXCEPT !.status = [@ EXCEPT !.rejected = TRUE]]
    <3>1. obj'[t] = o
      BY <1>8, WriteEffect DEF reject
    <3>2. o.cancelled = obj[t].cancelled /\ o.cancelledPhase = obj[t].cancelledPhase
      BY <1>3 DEF Object
    <3> QED
      BY <3>1, <3>2
  <2> QED
    BY <1>7, <2>1 DEF CancelOf
<1>9. CASE persistTarget(t)
  <2> DEFINE o == [obj[t] EXCEPT !.cancelled = ~cache[t].cancelled /\ @,
                     !.cancelledPhase = IF cache[t].cancelled THEN "Failed" ELSE @,
                     !.label = IF cache[t].label # "none" THEN "none" ELSE @]
  <2>1. obj'[t] = o
    BY <1>9, WriteEffect DEF persistTarget
  <2>2. CASE cache[t].cancelled
    <3>1. ~o.cancelled
      BY <1>3, <2>2 DEF Object
    <3>2. CancelOf(obj'[t]) = "no"
      BY <2>1, <3>1 DEF CancelOf
    <3>3. [u \in Targets |-> CancelOf(obj'[u])]
            = [u \in Targets |-> IF u \in {t} THEN "no"
                                ELSE [v \in Targets |-> CancelOf(obj[v])][u]]
      BY <1>1, <3>2
    <3>4. \A u \in Targets : asked'[u] = asked[u]
      BY <1>1, <3>2, RememberEffect
    <3>5. asked' = asked
      BY <3>4, RememberEffect DEF AskedInv
    <3>6. [u \in Targets |-> LifeOf(obj'[u])]
            = [u \in Targets |-> IF u \in {} /\ [v \in Targets |-> LifeOf(obj[v])][u] = "none"
                                THEN "waiting" ELSE [v \in Targets |-> LifeOf(obj[v])][u]]
      BY <1>2
    <3> QED
      BY <3>3, <3>5, <3>6 DEF Child!Keep
  <2>3. CASE ~cache[t].cancelled
    <3>1. o.cancelled = obj[t].cancelled /\ o.cancelledPhase = obj[t].cancelledPhase
      BY <1>3, <2>3 DEF Object
    <3> QED
      BY <1>7, <2>1, <3>1 DEF CancelOf
  <2> QED
    BY <2>2, <2>3
<1> QED
  BY <1>5, <1>6, <1>8, <1>9 DEF Interfere

\* Every step of a target is a step of TargetLife.
LEMMA LifeStep ==
    /\ HInit => Child!LifeInit
    /\ TypeInv /\ SafeInv /\ CancelInv /\ AskedInv /\ TypeInv' /\ [HNext]_<<vars, asked>>
         => [Child!LifeNext]_(Child!lifeVars)
<1>1. ASSUME HInit
      PROVE  Child!LifeInit
  <2>1. \A t \in Targets : LifeOf(obj[t]) = "waiting" /\ CancelOf(obj[t]) = "no"
    <3>1. \A t \in Targets : obj[t].status.phase = "" /\ ~obj[t].cancelled
      BY <1>1 DEF HInit, Init, NewObject, EmptyStatus
    <3> QED
      BY <3>1, LifeValues DEF CancelOf, Terminal
  <2> QED
    BY <1>1, <2>1 DEF HInit, Child!LifeInit
<1>2. ASSUME UNCHANGED <<vars, asked>>
      PROVE  UNCHANGED Child!lifeVars
  BY <1>2 DEF vars, Child!lifeVars
<1>3. ASSUME TypeInv, SafeInv, CancelInv, AskedInv, TypeInv', HNext
      PROVE  Child!LifeNext \/ UNCHANGED Child!lifeVars
  <2>1. Next /\ Remember
    BY <1>3 DEF HNext
  <2>2. ASSUME \A u \in Targets : /\ obj'[u].status = obj[u].status
                                  /\ obj'[u].cancelled = obj[u].cancelled
                                  /\ obj'[u].cancelledPhase = obj[u].cancelledPhase
        PROVE  UNCHANGED Child!lifeVars
    <3>1. \A u \in Targets : /\ LifeOf(obj'[u]) = LifeOf(obj[u])
                             /\ CancelOf(obj'[u]) = CancelOf(obj[u])
      BY <2>2 DEF LifeOf, CancelOf
    <3> QED
      BY <1>3, <2>1, <3>1, LifeStutter
  <2>3. ASSUME NEW t \in Targets, Begin(t)
        PROVE  UNCHANGED Child!lifeVars
    <3>1. \A u \in Targets : /\ obj'[u].status = obj[u].status
                             /\ obj'[u].cancelled = obj[u].cancelled
                             /\ obj'[u].cancelledPhase = obj[u].cancelledPhase
      BY <1>3, <2>3, BeginEffect
    <3> QED
      BY <2>2, <3>1
  <2>4. ASSUME NEW t \in Targets, Handle(t)
        PROVE  UNCHANGED Child!lifeVars
    <3>1. ActingOK
      BY <1>3 DEF SafeInv, Safe, JobSafe, ActingOK
    <3>2. obj' = obj
      BY <1>3, <2>4, <3>1, HandlerEffect DEF HandleEffect
    <3> QED
      BY <2>2, <3>2
  <2>5. ASSUME NEW t \in Targets, Write(t)
        PROVE  Child!LifeNext \/ UNCHANGED Child!lifeVars
    BY <1>3, <2>1, <2>5, FinishImplements DEF Write, Child!LifeNext
  <2>6. ASSUME NEW t \in Targets, Interfere(t), ~approve(t)
        PROVE  Child!LifeNext \/ UNCHANGED Child!lifeVars
    <3>1. {t} \in SUBSET Targets /\ {} \in SUBSET Targets
      OBVIOUS
    <3> QED
      BY <1>3, <2>1, <2>6, <3>1, InterfereImplements DEF Child!LifeNext
  <2>7. ASSUME \/ \E t \in Targets : abandon(t) \/ syncTarget(t) \/ approve(t)
               \/ \E r \in Runs : endRun(r) \/ suspendRun(r) \/ resumeRun(r)
               \/ \E r \in Runs, c \in Clusters : clearActivePromotionRun(r, c)
               \/ \E c \in Clusters : syncCluster(c)
        PROVE  UNCHANGED Child!lifeVars
    <3>1. obj' = obj
      BY <2>7 DEF abandon, syncTarget, approve, endRun, suspendRun, resumeRun,
                  clearActivePromotionRun, syncCluster, objects
    <3> QED
      BY <2>2, <3>1
  <2>8. SharedTargets \subseteq Targets
    BY ConstantsAssumption
  <2>9. CASE \E t \in Targets : Begin(t) \/ Handle(t) \/ Write(t) \/ abandon(t) \/ syncTarget(t)
    BY <2>3, <2>4, <2>5, <2>7, <2>9
  <2>10. CASE \E t \in SharedTargets : Interfere(t)
    BY <2>6, <2>7, <2>8, <2>10
  <2> QED
    BY <2>1, <2>7, <2>9, <2>10 DEF Next
<1> QED
  BY <1>1, <1>2, <1>3

\* Target implements TargetLife, on which PromotionRun is built: a target
\* starts, converges or gives up only while it is not cancelled, and leaves an
\* end only for one that some cancellation has named, for any number of targets
\* and any gate policy.
THEOREM TargetImplementsLife == HSpec => ImplementsLife
<1>1. HInit => TypeInv /\ SafeInv /\ CancelInv /\ AskedInv
  BY TypeStep, SafeStep, CancelStep, AskedStep DEF HInit
<1>2. [HNext]_<<vars, asked>> => [Next]_vars
  BY DEF HNext, vars
<1>3. TypeInv /\ SafeInv /\ CancelInv /\ AskedInv /\ [HNext]_<<vars, asked>>
        => (TypeInv /\ SafeInv /\ CancelInv /\ AskedInv)'
  BY <1>2, TypeStep, SafeStep, CancelStep, AskedStep
<1>4. HInit => Child!LifeInit
  BY LifeStep
<1>5. TypeInv /\ SafeInv /\ CancelInv /\ AskedInv /\ TypeInv' /\ [HNext]_<<vars, asked>>
        => [Child!LifeNext]_(Child!lifeVars)
  BY LifeStep
<1> QED
  BY <1>1, <1>3, <1>4, <1>5, PTL DEF HSpec, ImplementsLife, Child!LifeSpec
=============================================================================

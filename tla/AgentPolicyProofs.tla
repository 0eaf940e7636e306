-------------------------- MODULE AgentPolicyProofs --------------------------
(* Proofs about AgentPolicy: the limits of an agent hold for every number  *)
(* of requests that reserve and release slots at the same time.            *)
EXTENDS AgentPolicy, FiniteSetTheorems, TLAPS

\* The limits that are set, a clock, and retries; None is an empty field.
LimitsAssumption ==
    /\ IsFiniteSet(Requests)
    /\ MaxConcurrent \in Nat /\ MaxPerDay \in Nat /\ Cooldown \in Nat
    /\ DayLength \in Nat \ {0} /\ MaxRetries \in Nat \ {0}
    /\ MaxClock \in Nat /\ MaxFaults \in Nat
    /\ None \notin Nat /\ None \notin Policy

\* A copy of the Policy p is an old one, or else it is p itself.
Copy(q, p) == q.ver <= p.ver /\ (q.ver = p.ver => q = p)

\* Copies are copies, the first attempt of a reservation has one, and a loop
\* that goes on has attempts left.
Working ==
    /\ Copy(seen, policy)
    /\ \A r \in Requests :
          /\ req[r].copy # None => Copy(req[r].copy, policy)
          /\ req[r].pc = "reserve" /\ req[r].tries = 0 => req[r].copy # None
          /\ req[r].pc \in {"reserve", "release", "defer"} => req[r].tries < MaxRetries

\* What a request becomes.
Becomes(r, q) ==
    /\ q \in Request
    /\ q.copy # None => Copy(q.copy, policy')
    /\ q.pc = "reserve" /\ q.tries = 0 => q.copy # None
    /\ q.pc \in {"reserve", "release", "defer"} => q.tries < MaxRetries

LEMMA AtType ==
    ASSUME LimitsAssumption,
           NEW pc \in {"new", "reserve", "hold", "unlimited", "release", "defer", "done"}
    PROVE  /\ At(pc) \in Request /\ At(pc).pc = pc /\ At(pc).copy = None
           /\ At(pc).tries = 0 /\ At(pc).tries < MaxRetries
  BY DEF At, NewRequest, Request, Optional, LimitsAssumption

\* The Policy keeps its type and what it writes is new, so no copy in hand
\* becomes a false one.
LEMMA CopiesStay ==
    ASSUME LimitsAssumption, TypeOK, Working,
           \/ UNCHANGED <<policy, seen>>
           \/ seen' = policy /\ UNCHANGED policy
           \/ UNCHANGED seen /\ policy' \in Policy /\ policy'.ver > policy.ver
    PROVE  /\ Copy(seen', policy') /\ policy' \in Policy /\ seen' \in Policy
           /\ \A q \in Policy : Copy(q, policy) => Copy(q, policy')
  BY DEF TypeOK, Working, Copy, Policy

\* The write of a reservation is of the type of a Policy.
LEMMA ReservedType ==
    ASSUME LimitsAssumption, TypeOK, NEW now \in Time
    PROVE  /\ Rolled(policy, now) \in Policy
           /\ Rolled(policy, now).active = policy.active
           /\ Rolled(policy, now).last = policy.last
           /\ [active |-> Rolled(policy, now).active + 1, today |-> Rolled(policy, now).today + 1,
               last |-> now, ver |-> policy.ver + 1] \in Policy
<1>1. Rolled(policy, now) \in Policy /\ Rolled(policy, now).active = policy.active
      /\ Rolled(policy, now).last = policy.last
  BY DEF TypeOK, Rolled, Policy
<1> QED
  BY <1>1 DEF TypeOK, Policy, Optional

\* The Policy that an attempt of a reservation writes.
Reserved(now) ==
    [active |-> Rolled(policy, now).active + 1, today |-> Rolled(policy, now).today + 1,
     last |-> now, ver |-> policy.ver + 1]

\* A reservation takes a slot of the Policy as it is now, within its limits, or
\* changes nothing but the request.
LEMMA ReserveEffect ==
    ASSUME LimitsAssumption, TypeOK, Working, NEW r \in Requests, reserveAgentPolicySlot(r)
    PROVE  /\ UNCHANGED <<seen, clock, open, recorded, faults>> /\ req[r].pc = "reserve"
           /\ \/ /\ UNCHANGED <<policy, slot>>
                 /\ \E q : /\ req' = [req EXCEPT ![r] = q] /\ Becomes(r, q)
                           /\ q.pc \in {"reserve", "done"}
              \/ \E now \in Time :
                    /\ WithinLimits(Rolled(policy, now), now)
                    /\ policy' = Reserved(now) /\ policy' \in Policy
                    /\ slot' = [slot EXCEPT ![r] = Day(now)]
                    /\ req' = [req EXCEPT ![r] = At("hold")] /\ Becomes(r, At("hold"))
<1> DEFINE now == NowOf(r)
           again == [pc |-> "reserve", copy |-> None, now |-> now, tries |-> req[r].tries + 1]
<1>0. req[r] \in Request /\ req[r].pc = "reserve" /\ req[r].tries < MaxRetries
  BY DEF TypeOK, Working, reserveAgentPolicySlot
<1>1. now \in Time
  BY <1>0 DEF TypeOK, NowOf, Request, Optional
<1>2. PolicyOf(r) \in Policy /\ Copy(PolicyOf(r), policy)
  <2>1. CASE req[r].tries = 0
    <3>1. req[r].copy # None /\ req[r].copy \in Policy
      BY <1>0, <2>1 DEF Working, Request, Optional
    <3> QED
      BY <2>1, <3>1 DEF PolicyOf, Working
  <2>2. CASE req[r].tries # 0
    BY <2>2 DEF PolicyOf, Working, TypeOK
  <2> QED
    BY <2>1, <2>2
<1>3. UNCHANGED <<seen, clock, open, recorded, faults>> /\ Attempt(r, PolicyOf(r), now, PolicyOf(r).ver = policy.ver)
  BY DEF reserveAgentPolicySlot
<1>4. CASE UNCHANGED <<policy, slot>> /\ req' = [req EXCEPT ![r] = At("done")]
  BY <1>0, <1>3, <1>4, AtType DEF Becomes
<1>5. CASE /\ PolicyOf(r).ver = policy.ver
           /\ WithinLimits(Rolled(PolicyOf(r), now), now)
           /\ policy' = [active |-> Rolled(PolicyOf(r), now).active + 1,
                         today |-> Rolled(PolicyOf(r), now).today + 1,
                         last |-> now, ver |-> policy.ver + 1]
           /\ slot' = [slot EXCEPT ![r] = Day(now)]
           /\ req' = [req EXCEPT ![r] = At("hold")]
  <2>1. PolicyOf(r) = policy
    BY <1>2, <1>5 DEF Copy
  <2>2. policy' = Reserved(now) /\ WithinLimits(Rolled(policy, now), now)
    BY <1>5, <2>1 DEF Reserved
  <2>3. policy' \in Policy /\ Becomes(r, At("hold"))
    BY <1>1, <2>2, ReservedType, AtType DEF Reserved, Becomes
  <2> QED
    <3> HIDE DEF now
    <3> QED
      BY <1>0, <1>1, <1>3, <1>5, <2>2, <2>3
<1>6. CASE /\ UNCHANGED <<policy, slot>>
           /\ req' = [req EXCEPT ![r] = again] /\ req[r].tries + 1 # MaxRetries
  <2>1. /\ again \in Request /\ again.copy = None /\ again.pc = "reserve"
        /\ again.tries # 0 /\ again.tries < MaxRetries
    <3>1. req[r].tries \in 0..MaxRetries
      BY <1>0 DEF Request
    <3>2. req[r].tries + 1 \in 0..MaxRetries /\ req[r].tries + 1 < MaxRetries
          /\ req[r].tries + 1 # 0
      BY <1>0, <1>6, <3>1 DEF LimitsAssumption
    <3> HIDE DEF now
    <3> QED
      BY <1>1, <3>2 DEF Request, Optional
  <2>2. Becomes(r, again)
    <3> HIDE DEF again
    <3> QED
      BY <2>1 DEF Becomes
  <2> QED
    <3> HIDE DEF again
    <3> QED
      BY <1>0, <1>3, <1>6, <2>1, <2>2
<1> QED
  BY <1>0, <1>3, <1>4, <1>5, <1>6 DEF Attempt

\* A release gives one slot back, and the request ends with it; or it leaves
\* the Policy as it is.
LEMMA ReleaseEffect ==
    ASSUME LimitsAssumption, TypeOK, Working, NEW r \in Requests, releaseAgentPolicySlot(r)
    PROVE  /\ UNCHANGED <<seen, clock, history, faults>>
           /\ r \in Holders
           /\ \E q : req' = [req EXCEPT ![r] = q] /\ Becomes(r, q) /\ q.pc \in {"release", "defer", "done"}
           /\ \/ UNCHANGED policy
              \/ /\ policy' = [policy EXCEPT !.active = @ - 1, !.ver = @ + 1]
                 /\ policy.active > 0
                 /\ req' = [req EXCEPT ![r] = At("done")]
<1>0. /\ req[r] \in Request /\ req[r].pc \in {"release", "defer"} /\ req[r].tries < MaxRetries
      /\ req[r].copy # None => Copy(req[r].copy, policy)
  BY DEF TypeOK, Working, releaseAgentPolicySlot
<1>1. UNCHANGED <<seen, clock, history, faults>> /\ r \in Holders
  BY <1>0 DEF releaseAgentPolicySlot, Holders
<1>2. CASE req' = [req EXCEPT ![r] = At("done")] /\ UNCHANGED policy
  BY <1>1, <1>2, AtType DEF Becomes
<1>3. CASE /\ seen.active > 0 /\ seen.ver = policy.ver
           /\ policy' = [policy EXCEPT !.active = @ - 1, !.ver = @ + 1]
           /\ req' = [req EXCEPT ![r] = At("done")]
  <2>1. policy.active > 0
    BY <1>3 DEF Working, Copy
  <2> QED
    BY <1>1, <1>3, <2>1, AtType DEF Becomes
<1>4. CASE /\ UNCHANGED policy
           /\ req' = [req EXCEPT ![r] = IF req[r].tries + 1 = MaxRetries THEN GiveUp(r)
                                        ELSE [req[r] EXCEPT !.tries = req[r].tries + 1]]
  <2>1. CASE req[r].tries + 1 = MaxRetries
    <3>1. GiveUp(r) \in {At("defer"), At("done")}
      BY DEF GiveUp
    <3> QED
      BY <1>1, <1>4, <2>1, <3>1, AtType DEF Becomes
  <2>2. CASE req[r].tries + 1 # MaxRetries
    <3> DEFINE q == [req[r] EXCEPT !.tries = req[r].tries + 1]
    <3>1. req[r].tries \in 0..MaxRetries
      BY <1>0 DEF Request
    <3>2. req[r].tries + 1 \in 0..MaxRetries /\ req[r].tries + 1 < MaxRetries
      BY <1>0, <2>2, <3>1 DEF LimitsAssumption
    <3>3. /\ q \in Request /\ q.pc = req[r].pc /\ q.copy = req[r].copy
          /\ q.tries = req[r].tries + 1
      BY <1>0, <3>2 DEF Request
    <3>4. q.copy # None => Copy(q.copy, policy')
      BY <1>0, <1>1, <1>4, <3>3 DEF Copy
    <3>5. req' = [req EXCEPT ![r] = q]
      BY <1>4, <2>2
    <3> HIDE DEF q
    <3>6. Becomes(r, q)
      BY <1>0, <3>2, <3>3, <3>4 DEF Becomes
    <3> QED
      BY <1>0, <1>1, <1>4, <3>3, <3>5, <3>6
  <2> QED
    BY <2>1, <2>2
<1>5. seen.active \in Nat
  BY DEF TypeOK, Policy
<1>6. CASE seen.active <= 0
  BY <1>2, <1>6 DEF releaseAgentPolicySlot
<1>7. CASE seen.active > 0 /\ seen.ver = policy.ver
  <2>1. ~(seen.active <= 0)
    BY <1>5, <1>7
  <2> QED
    BY <1>3, <1>7, <2>1 DEF releaseAgentPolicySlot
<1>8. CASE seen.active > 0 /\ seen.ver # policy.ver
  <2>1. ~(seen.active <= 0)
    BY <1>5, <1>8
  <2>2. UNCHANGED policy
    BY <1>8, <2>1 DEF releaseAgentPolicySlot
  <2>3. req' = [req EXCEPT ![r] = IF req[r].tries + 1 = MaxRetries THEN GiveUp(r)
                                  ELSE [req[r] EXCEPT !.tries = req[r].tries + 1]]
    BY <1>8, <2>1 DEF releaseAgentPolicySlot
  <2> QED
    BY <1>4, <2>2, <2>3
<1> QED
  BY <1>5, <1>6, <1>7, <1>8

-----------------------------------------------------------------------------
(* Types, copies and retries.                                              *)

\* A request that becomes q leaves the others as they are.
LEMMA RequestStep ==
    ASSUME LimitsAssumption, TypeOK, Working, NEW r \in Requests, NEW q,
           Becomes(r, q), req' = [req EXCEPT ![r] = q],
           Copy(seen', policy'), \A p \in Policy : Copy(p, policy) => Copy(p, policy')
    PROVE  req' \in [Requests -> Request] /\ Working'
<1>1. req' \in [Requests -> Request]
  BY DEF TypeOK, Becomes
<1>2. \A t \in Requests : req'[t] = IF t = r THEN q ELSE req[t]
  BY DEF TypeOK
<1>3. \A t \in Requests : req[t].copy # None => req[t].copy \in Policy
  BY DEF TypeOK, Request, Optional
<1> QED
  BY <1>1, <1>2, <1>3 DEF Working, Becomes

LEMMA WorkingStep ==
    ASSUME LimitsAssumption, TypeOK, Working, [Next]_vars
    PROVE  TypeOK' /\ Working'
<1>0. /\ policy \in Policy /\ seen \in Policy /\ clock \in Time /\ faults \in 0..MaxFaults
      /\ req \in [Requests -> Request] /\ slot \in [Requests -> Optional(Days)]
      /\ open \subseteq Requests /\ recorded \subseteq Requests
  BY DEF TypeOK
<1> USE DEF history
<1>1. Fault => faults' \in 0..MaxFaults
  BY DEF TypeOK, Fault, LimitsAssumption
<1>2. ASSUME NEW r \in Requests, resolveAgentPolicy(r)
      PROVE  TypeOK' /\ Working'
  <2> DEFINE q == [At("reserve") EXCEPT !.copy = policy]
  <2>1. /\ \/ req' = [req EXCEPT ![r] = q] /\ UNCHANGED <<open, faults>>
           \/ req' = [req EXCEPT ![r] = At("unlimited")] /\ open' = open \cup {r} /\ Fault
        /\ UNCHANGED <<policy, seen, clock, slot, recorded>>
    BY <1>2 DEF resolveAgentPolicy
  <2>2. q \in Request /\ q.copy = policy /\ q.pc = "reserve" /\ q.tries < MaxRetries
    BY <1>0, AtType DEF Request, Optional
  <2>3. Copy(policy, policy') /\ policy # None
    BY <1>0, <2>1 DEF Copy, LimitsAssumption, Policy
  <2> HIDE DEF q
  <2>4. Becomes(r, q)
    BY <2>2, <2>3 DEF Becomes
  <2>5. Becomes(r, At("unlimited"))
    BY AtType DEF Becomes
  <2>6. faults' \in 0..MaxFaults /\ open' \subseteq Requests
    BY <1>0, <1>1, <2>1
  <2> QED
    BY <1>0, <2>1, <2>4, <2>5, <2>6, RequestStep, CopiesStay DEF TypeOK
<1>3. ASSUME NEW r \in Requests, reserveAgentPolicySlot(r)
      PROVE  TypeOK' /\ Working'
  <2>1. /\ UNCHANGED <<seen, clock, open, recorded, faults>>
        /\ UNCHANGED policy \/ (policy' \in Policy /\ policy'.ver > policy.ver)
    <3>1. \A now \in Time : policy' = Reserved(now) => policy'.ver > policy.ver
      BY <1>0 DEF Reserved, Policy
    <3> QED
      BY <1>3, <3>1, ReserveEffect
  <2>2. slot' \in [Requests -> Optional(Days)]
    <3>1. \A now \in Time : [slot EXCEPT ![r] = Day(now)] \in [Requests -> Optional(Days)]
      BY <1>0 DEF Days, Optional
    <3> QED
      BY <1>0, <1>3, <3>1, ReserveEffect
  <2>3. \E q : req' = [req EXCEPT ![r] = q] /\ Becomes(r, q)
    BY <1>3, ReserveEffect
  <2>4. Copy(seen', policy') /\ \A p \in Policy : Copy(p, policy) => Copy(p, policy')
    BY <2>1, CopiesStay
  <2> QED
    BY <1>0, <2>1, <2>2, <2>3, <2>4, RequestStep DEF TypeOK
<1>4. ASSUME NEW r \in Requests, recordDecision(r)
      PROVE  TypeOK' /\ Working'
  <2>1. /\ \E pc \in {"release", "defer", "done"} : req' = [req EXCEPT ![r] = At(pc)]
        /\ UNCHANGED <<policy, seen, clock, slot, open>>
        /\ faults' \in 0..MaxFaults /\ recorded' \subseteq Requests
    BY <1>0, <1>1, <1>4 DEF recordDecision
  <2>2. \A pc \in {"release", "defer", "done"} : Becomes(r, At(pc))
    BY AtType DEF Becomes
  <2> QED
    BY <1>0, <2>1, <2>2, RequestStep, CopiesStay DEF TypeOK
<1>5. ASSUME NEW r \in Requests, releaseAgentPolicySlot(r)
      PROVE  TypeOK' /\ Working'
  <2>1. /\ UNCHANGED <<seen, clock, history, faults>>
        /\ UNCHANGED policy \/ (policy' \in Policy /\ policy'.ver > policy.ver)
        /\ \E q : req' = [req EXCEPT ![r] = q] /\ Becomes(r, q)
    <3> DEFINE given == [policy EXCEPT !.active = @ - 1, !.ver = @ + 1]
    <3>1. policy.active > 0 => given \in Policy /\ given.ver > policy.ver
      <4>1. policy.active \in Nat /\ policy.ver \in Nat
        BY <1>0 DEF Policy
      <4>2. policy.active > 0 => policy.active - 1 \in Nat
        BY <4>1
      <4>3. given.ver = policy.ver + 1
        BY <1>0 DEF Policy
      <4>4. ASSUME policy.active - 1 \in Nat
            PROVE  given \in Policy
        <5>1. PICK n \in Nat, v \in Nat : n = policy.active - 1 /\ v = policy.ver + 1
          BY <4>1, <4>4
        <5>2. given = [policy EXCEPT !.active = n, !.ver = v]
          BY <1>0, <5>1 DEF Policy
        <5>3. [policy EXCEPT !.active = n, !.ver = v] \in Policy
          BY <1>0 DEF Policy
        <5> QED
          BY <5>2, <5>3
      <4> HIDE DEF given
      <4> QED
        BY <4>1, <4>2, <4>3, <4>4
    <3>2. /\ UNCHANGED <<seen, clock, history, faults>>
          /\ UNCHANGED policy \/ (policy' = given /\ policy.active > 0)
          /\ \E q : req' = [req EXCEPT ![r] = q] /\ Becomes(r, q)
      BY <1>5, ReleaseEffect
    <3> HIDE DEF given
    <3> QED
      BY <3>1, <3>2
  <2>2. Copy(seen', policy') /\ \A p \in Policy : Copy(p, policy) => Copy(p, policy')
    BY <2>1, CopiesStay
  <2> QED
    BY <1>0, <2>1, <2>2, RequestStep DEF TypeOK
<1>6. ASSUME NEW r \in Requests, failCall(r)
      PROVE  TypeOK' /\ Working'
  <2>1. /\ req' = [req EXCEPT ![r] = At("done")] \/ req' = [req EXCEPT ![r] = At("defer")]
        /\ UNCHANGED <<policy, seen, clock, history>> /\ faults' \in 0..MaxFaults
    BY <1>1, <1>6 DEF failCall, GiveUp
  <2>2. Becomes(r, At("done")) /\ Becomes(r, At("defer"))
    BY AtType DEF Becomes
  <2> QED
    BY <1>0, <2>1, <2>2, RequestStep, CopiesStay DEF TypeOK
<1>7. CASE restart
  <2>1. /\ req' = [r \in Requests |-> IF req[r].pc = "new" THEN req[r] ELSE At("done")]
        /\ UNCHANGED <<policy, seen, clock, history>> /\ faults' \in 0..MaxFaults
    BY <1>1, <1>7 DEF restart
  <2>2. req' \in [Requests -> Request]
    BY <1>0, <2>1, AtType
  <2>3. \A r \in Requests : req'[r] = IF req[r].pc = "new" THEN req[r] ELSE At("done")
    BY <2>1
  <2> QED
    BY <1>0, <2>1, <2>2, <2>3, AtType DEF TypeOK, Working
<1>8. CASE syncPolicy \/ tick \/ UNCHANGED vars
  <2>1. clock' \in Time
    BY <1>0, <1>8 DEF syncPolicy, tick, vars, Time, LimitsAssumption
  <2>2. /\ UNCHANGED <<policy, req, history, faults>>
        /\ seen' = seen \/ seen' = policy
    BY <1>8 DEF syncPolicy, tick, vars
  <2> QED
    BY <1>0, <2>1, <2>2, CopiesStay DEF TypeOK, Working
<1> QED
  BY <1>2, <1>3, <1>4, <1>5, <1>6, <1>7, <1>8 DEF Next

\* Every variable stays in its type, for every number of requests: no counter
\* becomes negative, as a release takes from the counter what is there now.
THEOREM AgentPolicyTypeCorrect ==
    ASSUME LimitsAssumption
    PROVE  Spec => [](TypeOK /\ Working)
<1>1. Init => TypeOK /\ Working
  <2> SUFFICES ASSUME Init
               PROVE  TypeOK /\ Working
    OBVIOUS
  <2>1. NewPolicy \in Policy
    BY DEF NewPolicy, Policy, Optional
  <2>2. NewRequest \in Request /\ NewRequest.pc = "new" /\ NewRequest.copy = None
    BY DEF NewRequest, Request, Optional, LimitsAssumption
  <2>3. policy \in Policy /\ seen \in Policy /\ Copy(seen, policy)
    BY <2>1 DEF Init, Copy, Policy
  <2>4. /\ req \in [Requests -> Request] /\ slot \in [Requests -> Optional(Days)]
        /\ open \subseteq Requests /\ recorded \subseteq Requests
    BY <2>2 DEF Init, Optional
  <2>5. clock \in Time /\ faults \in 0..MaxFaults
    BY DEF Init, Time, LimitsAssumption
  <2> QED
    BY <2>2, <2>3, <2>4, <2>5 DEF TypeOK, Working, Init
<1>2. TypeOK /\ Working /\ [Next]_vars => TypeOK' /\ Working'
  BY WorkingStep
<1> QED
  BY <1>1, <1>2, PTL DEF Spec

-----------------------------------------------------------------------------
(* Slots.                                                                  *)

LEMMA HoldersFinite ==
    ASSUME LimitsAssumption
    PROVE  IsFiniteSet(Holders) /\ Cardinality(Holders) \in Nat
<1>1. Holders \subseteq Requests
  BY DEF Holders
<1> QED
  BY <1>1, FS_Subset, FS_CardinalityType DEF LimitsAssumption

\* No step but a reservation adds a holder, and none but a release takes from
\* the counter.
LEMMA SlotsStep ==
    ASSUME LimitsAssumption, TypeOK, Working, SlotsCovered, [Next]_vars
    PROVE  SlotsCovered'
<1> USE DEF SlotsCovered
<1>0. /\ IsFiniteSet(Holders) /\ Cardinality(Holders) \in Nat /\ policy.active \in Nat
      /\ req \in [Requests -> Request] /\ MaxConcurrent \in Nat
  BY HoldersFinite DEF TypeOK, Policy, LimitsAssumption
<1>1. ASSUME Holders' \subseteq Holders, UNCHANGED policy
      PROVE  SlotsCovered'
  <2>1. Cardinality(Holders') <= Cardinality(Holders) /\ Cardinality(Holders') \in Nat
    BY <1>0, <1>1, FS_Subset, FS_CardinalityType
  <2> QED
    BY <1>0, <1>1, <2>1
<1>2. ASSUME NEW r \in Requests, NEW now \in Time, WithinLimits(Rolled(policy, now), now),
             policy' = Reserved(now), req' = [req EXCEPT ![r] = At("hold")]
      PROVE  SlotsCovered'
  <2>1. Holders' \subseteq Holders \cup {r}
    BY <1>0, <1>2 DEF Holders
  <2>2. IsFiniteSet(Holders \cup {r}) /\ Cardinality(Holders \cup {r}) <= Cardinality(Holders) + 1
    BY <1>0, FS_AddElement
  <2>3. Cardinality(Holders') <= Cardinality(Holders) + 1
    <3>1. Cardinality(Holders') <= Cardinality(Holders \cup {r})
      BY <2>1, <2>2, FS_Subset
    <3>2. Cardinality(Holders') \in Nat /\ Cardinality(Holders \cup {r}) \in Nat
      BY <2>1, <2>2, FS_Subset, FS_CardinalityType
    <3> QED
      BY <1>0, <2>2, <3>1, <3>2
  <2>4. policy'.active = policy.active + 1 /\ policy.active < MaxConcurrent
    BY <1>2, ReservedType DEF Reserved, WithinLimits
  <2>5. Cardinality(Holders') \in Nat
    BY <2>1, <2>2, FS_Subset, FS_CardinalityType
  <2> QED
    BY <1>0, <2>3, <2>4, <2>5
<1>3. ASSUME NEW r \in Requests, r \in Holders, policy.active > 0,
             policy' = [policy EXCEPT !.active = @ - 1, !.ver = @ + 1],
             req' = [req EXCEPT ![r] = At("done")]
      PROVE  SlotsCovered'
  <2>1. Holders' = Holders \ {r}
    BY <1>0, <1>3, AtType DEF Holders
  <2>2. Cardinality(Holders') = Cardinality(Holders) - 1
    BY <1>0, <1>3, <2>1, FS_RemoveElement
  <2>3. policy'.active = policy.active - 1
    BY <1>3 DEF TypeOK, Policy
  <2> QED
    BY <1>0, <2>2, <2>3
<1>4. ASSUME NEW r \in Requests, NEW q, req' = [req EXCEPT ![r] = q], UNCHANGED policy,
             r \in Holders \/ q.pc \notin {"hold", "release", "defer"}
      PROVE  SlotsCovered'
  BY <1>0, <1>1, <1>4 DEF Holders
<1>5. ASSUME NEW r \in Requests, resolveAgentPolicy(r)
      PROVE  SlotsCovered'
  <2>1. [At("reserve") EXCEPT !.copy = policy].pc = "reserve" /\ At("unlimited").pc = "unlimited"
    BY AtType DEF Request
  <2> QED
    BY <1>4, <1>5, <2>1 DEF resolveAgentPolicy
<1>6. ASSUME NEW r \in Requests, reserveAgentPolicySlot(r)
      PROVE  SlotsCovered'
  <2>1. CASE UNCHANGED policy /\ \E q : req' = [req EXCEPT ![r] = q] /\ q.pc \in {"reserve", "done"}
    BY <1>4, <2>1
  <2>2. CASE \E now \in Time : /\ WithinLimits(Rolled(policy, now), now)
                               /\ policy' = Reserved(now)
                               /\ req' = [req EXCEPT ![r] = At("hold")]
    BY <1>2, <2>2
  <2> QED
    BY <1>6, <2>1, <2>2, ReserveEffect
<1>7. ASSUME NEW r \in Requests, recordDecision(r)
      PROVE  SlotsCovered'
  <2>1. /\ UNCHANGED policy
        /\ \E q : req' = [req EXCEPT ![r] = q] /\ (r \in Holders \/ q = At("done"))
    BY <1>7 DEF recordDecision, Holders
  <2>2. At("done").pc = "done"
    BY AtType
  <2> QED
    BY <1>4, <2>1, <2>2
<1>8. ASSUME NEW r \in Requests, releaseAgentPolicySlot(r)
      PROVE  SlotsCovered'
  <2>1. r \in Holders /\ \E q : req' = [req EXCEPT ![r] = q]
    BY <1>8, ReleaseEffect
  <2>2. CASE UNCHANGED policy
    BY <1>4, <2>1, <2>2
  <2>3. CASE ~UNCHANGED policy
    BY <1>3, <1>8, <2>1, <2>3, ReleaseEffect
  <2> QED
    BY <2>2, <2>3
<1>9. ASSUME NEW r \in Requests, failCall(r)
      PROVE  SlotsCovered'
  <2>1. CASE req[r].pc = "reserve" /\ req' = [req EXCEPT ![r] = At("done")]
    BY <1>4, <1>9, <2>1, AtType DEF failCall
  <2>2. CASE req[r].pc \in {"release", "defer"} /\ req' = [req EXCEPT ![r] = GiveUp(r)]
    BY <1>4, <1>9, <2>2 DEF failCall, Holders
  <2> QED
    BY <1>9, <2>1, <2>2 DEF failCall
<1>10. CASE restart
  <2>1. Holders' \subseteq Holders
    BY <1>10, AtType DEF restart, Holders
  <2> QED
    BY <1>1, <1>10, <2>1 DEF restart
<1>11. CASE syncPolicy \/ tick \/ UNCHANGED vars
  BY <1>1, <1>11 DEF syncPolicy, tick, vars, Holders
<1> QED
  BY <1>5, <1>6, <1>7, <1>8, <1>9, <1>10, <1>11 DEF Next

\* The counter never says less than is in flight, and no more than the limit is
\* in flight, whatever requests fail, restart or reserve from stale copies.
THEOREM SlotsAlwaysCovered ==
    ASSUME LimitsAssumption
    PROVE  Spec => []SlotsCovered
<1>1. Init => SlotsCovered
  <2> SUFFICES ASSUME Init
               PROVE  SlotsCovered
    OBVIOUS
  <2>1. policy.active = 0 /\ Holders = {}
    BY DEF Init, NewPolicy, NewRequest, Holders
  <2> QED
    BY <2>1, FS_EmptySet DEF SlotsCovered, LimitsAssumption
<1>2. TypeOK /\ Working /\ SlotsCovered /\ [Next]_vars => SlotsCovered'
  BY SlotsStep
<1> QED
  BY <1>1, <1>2, AgentPolicyTypeCorrect, PTL DEF Spec

-----------------------------------------------------------------------------
(* Days.                                                                   *)

\* Of two times the later one is on no earlier day.
LEMMA DaysGoOn ==
    ASSUME LimitsAssumption, NEW a \in Nat, NEW b \in Nat, a <= b
    PROVE  Day(a) \in Nat /\ Day(b) \in Nat /\ Day(a) <= Day(b)
<1>1. /\ a = DayLength * (a \div DayLength) + (a % DayLength)
      /\ b = DayLength * (b \div DayLength) + (b % DayLength)
      /\ a % DayLength \in 0..(DayLength - 1) /\ b % DayLength \in 0..(DayLength - 1)
      /\ a \div DayLength \in Int /\ b \div DayLength \in Int
  BY DEF LimitsAssumption
<1> QED
  BY <1>1 DEF Day, LimitsAssumption

\* What a request did: it reserves at most one slot, holds one while it works
\* under a Policy, and works without one when the list failed.
Served ==
    /\ \A r \in Requests : /\ req[r].pc \in {"new", "reserve"} => slot[r] = None
                           /\ req[r].pc = "hold" => slot[r] # None
                           /\ req[r].pc = "unlimited" => r \in open
    /\ DecisionsAreLimited

\* No step records a decision of a request that neither reserved a slot nor met
\* a list that failed.
LEMMA ServedStep ==
    ASSUME LimitsAssumption, TypeOK, Working, Served, [Next]_vars
    PROVE  Served'
<1> USE DEF Served, DecisionsAreLimited
<1>0. /\ req \in [Requests -> Request] /\ slot \in [Requests -> Optional(Days)]
      /\ open \subseteq Requests /\ recorded \subseteq Requests
  BY DEF TypeOK
<1> USE DEF history
<1>1. ASSUME NEW r \in Requests, NEW q, req' = [req EXCEPT ![r] = q], UNCHANGED history,
             q.pc \in {"reserve", "hold"} => q.pc = req[r].pc, q.pc \notin {"new", "unlimited"}
      PROVE  Served'
  BY <1>0, <1>1
<1>2. ASSUME NEW r \in Requests, resolveAgentPolicy(r)
      PROVE  Served'
  <2> DEFINE q == [At("reserve") EXCEPT !.copy = policy]
  <2>1. q.pc = "reserve" /\ At("unlimited").pc = "unlimited"
    BY AtType DEF Request
  <2>2. /\ req[r].pc = "new" /\ UNCHANGED <<slot, recorded>>
        /\ \/ req' = [req EXCEPT ![r] = q] /\ UNCHANGED open
           \/ req' = [req EXCEPT ![r] = At("unlimited")] /\ open' = open \cup {r}
    BY <1>2 DEF resolveAgentPolicy
  <2> HIDE DEF q
  <2> QED
    BY <1>0, <2>1, <2>2
<1>3. ASSUME NEW r \in Requests, reserveAgentPolicySlot(r)
      PROVE  Served'
  <2>1. /\ UNCHANGED <<open, recorded>> /\ req[r].pc = "reserve"
        /\ \/ /\ UNCHANGED slot
              /\ \E q : req' = [req EXCEPT ![r] = q] /\ q.pc \in {"reserve", "done"}
           \/ /\ \E now \in Time : slot' = [slot EXCEPT ![r] = Day(now)]
              /\ req' = [req EXCEPT ![r] = At("hold")]
    BY <1>3, ReserveEffect
  <2>2. CASE UNCHANGED slot /\ \E q : req' = [req EXCEPT ![r] = q] /\ q.pc \in {"reserve", "done"}
    BY <1>1, <2>1, <2>2
  <2>3. ASSUME NEW now \in Time, slot' = [slot EXCEPT ![r] = Day(now)],
               req' = [req EXCEPT ![r] = At("hold")]
        PROVE  Served'
    <3>1. Day(now) # None
      <4>1. now \in Nat
        BY DEF Time, LimitsAssumption
      <4> QED
        BY <4>1, DaysGoOn DEF LimitsAssumption
    <3>2. At("hold").pc = "hold"
      BY AtType
    <3> QED
      BY <1>0, <2>1, <2>3, <3>1, <3>2
  <2> QED
    BY <2>1, <2>2, <2>3
<1>4. ASSUME NEW r \in Requests, recordDecision(r)
      PROVE  Served'
  <2>1. PICK pc \in {"release", "defer", "done"} : req' = [req EXCEPT ![r] = At(pc)]
    BY <1>4 DEF recordDecision
  <2>2. At(pc).pc = pc
    BY AtType
  <2>3. /\ slot[r] # None \/ r \in open
        /\ UNCHANGED <<slot, open>> /\ recorded' \subseteq recorded \cup {r}
    BY <1>4 DEF recordDecision
  <2> QED
    BY <1>0, <2>1, <2>2, <2>3
<1>5. ASSUME NEW r \in Requests, releaseAgentPolicySlot(r)
      PROVE  Served'
  BY <1>1, <1>5, ReleaseEffect
<1>6. ASSUME NEW r \in Requests, failCall(r)
      PROVE  Served'
  <2>1. PICK pc \in {"defer", "done"} : req' = [req EXCEPT ![r] = At(pc)]
    BY <1>6 DEF failCall, GiveUp
  <2>2. At(pc).pc = pc
    BY AtType
  <2> QED
    BY <1>1, <1>6, <2>1, <2>2 DEF failCall
<1>7. CASE restart
  BY <1>0, <1>7, AtType DEF restart
<1>8. CASE syncPolicy \/ tick \/ UNCHANGED vars
  BY <1>8 DEF syncPolicy, tick, vars
<1> QED
  BY <1>2, <1>3, <1>4, <1>5, <1>6, <1>7, <1>8 DEF Next

\* Every recorded decision took a slot, unless the list failed for its request.
THEOREM DecisionsAlwaysLimited ==
    ASSUME LimitsAssumption
    PROVE  Spec => []Served
<1>1. Init => Served
  <2> SUFFICES ASSUME Init
               PROVE  Served
    OBVIOUS
  <2>1. \A r \in Requests : req[r].pc = "new" /\ slot[r] = None
    BY DEF Init, NewRequest
  <2> QED
    BY <2>1 DEF Init, Served, DecisionsAreLimited
<1>2. TypeOK /\ Working /\ Served /\ [Next]_vars => Served'
  BY ServedStep
<1> QED
  BY <1>1, <1>2, AgentPolicyTypeCorrect, PTL DEF Spec

-----------------------------------------------------------------------------
(* The daily limit.                                                        *)

\* How many slots were reserved for day d.
granted(d) == Cardinality(OfDay(d))

\* Slots are counted by a number; no day has one if no request has.
LEMMA GrantedType ==
    ASSUME LimitsAssumption, NEW d
    PROVE  IsFiniteSet(OfDay(d)) /\ granted(d) \in Nat
<1>1. OfDay(d) \subseteq Requests
  BY DEF OfDay
<1> QED
  BY <1>1, FS_Subset, FS_CardinalityType DEF LimitsAssumption, granted

\* The first slot of a request counts for its day and for no other.
LEMMA GrantedStep ==
    ASSUME LimitsAssumption, TypeOK, NEW r \in Requests, slot[r] = None, NEW n \in Days,
           Days \subseteq Nat, slot' = [slot EXCEPT ![r] = n]
    PROVE  \A d \in Days : granted(d)' = IF d = n THEN granted(n) + 1 ELSE granted(d)
<1>1. slot \in [Requests -> Optional(Days)]
  BY DEF TypeOK
<1>2. \A d \in Days : OfDay(d)' = IF d = n THEN OfDay(n) \cup {r} ELSE OfDay(d)
  BY <1>1 DEF OfDay, LimitsAssumption
<1>3. r \notin OfDay(n)
  BY DEF OfDay, LimitsAssumption
<1>4. Cardinality(OfDay(n) \cup {r}) = Cardinality(OfDay(n)) + 1
  BY <1>3, GrantedType, FS_AddElement
<1> QED
  BY <1>2, <1>4 DEF granted

\* The counter of the day says what was granted on the day of the last decision,
\* and nothing has been granted on a later day.
DayInv ==
    /\ policy.today <= MaxPerDay
    /\ \A d \in Days : granted(d) <= MaxPerDay
    /\ policy.last = None => \A d \in Days : granted(d) = 0
    /\ policy.last # None =>
          /\ granted(Day(policy.last)) <= policy.today
          /\ \A d \in Days : d > Day(policy.last) => granted(d) = 0

\* With a cooldown, a reservation whose time was taken before the last decision
\* is refused; so the day it counts for is the last one or a new one.
LEMMA DayStep ==
    ASSUME LimitsAssumption, Cooldown > 0, TypeOK, Working, Served, DayInv, [Next]_vars
    PROVE  DayInv'
<1> USE DEF DayInv
<1>0. /\ policy \in Policy /\ MaxPerDay \in Nat /\ None \notin Nat
      /\ \A d : granted(d) \in Nat
  BY GrantedType DEF TypeOK, LimitsAssumption
<1>1. ASSUME UNCHANGED slot, policy'.today = policy.today, policy'.last = policy.last
      PROVE  DayInv'
  <2>1. \A d : granted(d)' = granted(d)
    BY <1>1 DEF granted, OfDay
  <2> QED
    BY <1>1, <2>1
<1>2. ASSUME NEW now \in Time, WithinLimits(Rolled(policy, now), now), policy' = Reserved(now),
             NEW r \in Requests, slot[r] = None, slot' = [slot EXCEPT ![r] = Day(now)]
      PROVE  DayInv'
  <2> DEFINE n == Day(now)
  <2>1. n \in Days /\ n \in Nat /\ now \in Nat /\ now # None /\ Days \subseteq Nat
    BY <1>0, DaysGoOn DEF Days, Time, LimitsAssumption
  <2>2. policy'.last = now /\ policy'.today = Rolled(policy, now).today + 1
    BY <1>2 DEF Reserved
  <2>3. Rolled(policy, now).today \in Nat /\ Rolled(policy, now).today < MaxPerDay
    BY <1>2, ReservedType DEF WithinLimits, Policy
  <2>4. granted(n) <= Rolled(policy, now).today /\ \A d \in Days : d > n => granted(d) = 0
    <3>1. CASE policy.last = None
      BY <1>0, <2>1, <2>3, <3>1
    <3>2. CASE policy.last # None
      <4>1. policy.last \in Time /\ policy.last \in Nat
        BY <1>0, <3>2 DEF Policy, Optional, Time
      <4>2. now - policy.last >= Cooldown
        BY <1>2, <3>2, ReservedType DEF WithinLimits
      <4>3. policy.last <= now
        BY <2>1, <4>1, <4>2 DEF LimitsAssumption
      <4>4. Day(policy.last) <= n /\ Day(policy.last) \in Nat
        BY <2>1, <4>1, <4>3, DaysGoOn
      <4>5. CASE Day(policy.last) = n
        <5>1. Rolled(policy, now) = policy
          BY <4>5 DEF Rolled, sameUTCDay
        <5> QED
          BY <3>2, <4>5, <5>1
      <4>6. CASE Day(policy.last) # n
        <5>1. n > Day(policy.last) /\ granted(n) = 0
          BY <2>1, <3>2, <4>4, <4>6
        <5>2. \A d \in Days : d > n => d > Day(policy.last)
          BY <2>1, <4>4
        <5> QED
          BY <2>3, <3>2, <5>1, <5>2
      <4> QED
        BY <4>5, <4>6
    <3> QED
      BY <3>1, <3>2
  <2>5. \A d \in Days : granted(d)' = IF d = n THEN granted(n) + 1 ELSE granted(d)
    BY <1>2, <2>1, GrantedStep
  <2>6. granted(n) \in Nat
    BY <1>0, <2>1
  <2> HIDE DEF n
  <2>7. policy'.today <= MaxPerDay /\ granted(n)' <= policy'.today
    BY <1>0, <2>1, <2>2, <2>3, <2>4, <2>5, <2>6
  <2>8. granted(n)' <= MaxPerDay
    BY <1>0, <2>1, <2>2, <2>3, <2>4, <2>5, <2>6
  <2>9. \A d \in Days : granted(d)' <= MaxPerDay
    BY <2>5, <2>8
  <2>10. \A d \in Days : d > n => granted(d)' = 0
    BY <2>1, <2>4, <2>5
  <2>11. Day(policy'.last) = n /\ policy'.last # None
    BY <2>1, <2>2 DEF n
  <2> QED
    BY <2>7, <2>9, <2>10, <2>11
<1>3. ASSUME NEW r \in Requests, reserveAgentPolicySlot(r)
      PROVE  DayInv'
  <2>1. CASE UNCHANGED <<policy, slot>>
    BY <1>1, <2>1
  <2>2. CASE ~UNCHANGED <<policy, slot>>
    <3>1. slot[r] = None
      BY <1>3, ReserveEffect DEF Served
    <3> QED
      BY <1>2, <1>3, <2>2, <3>1, ReserveEffect
  <2> QED
    BY <2>1, <2>2
<1>4. ASSUME NEW r \in Requests, releaseAgentPolicySlot(r)
      PROVE  DayInv'
  <2>1. UNCHANGED slot
    BY <1>4, ReleaseEffect DEF history
  <2>2. policy'.today = policy.today /\ policy'.last = policy.last
    <3>1. policy' = policy \/ policy' = [policy EXCEPT !.active = @ - 1, !.ver = @ + 1]
      BY <1>4, ReleaseEffect
    <3> QED
      BY <1>0, <3>1 DEF Policy
  <2> QED
    BY <1>1, <2>1, <2>2
<1>5. ASSUME UNCHANGED <<policy, slot>>
      PROVE  DayInv'
  BY <1>1, <1>5
<1>6. (\E r \in Requests : resolveAgentPolicy(r) \/ recordDecision(r) \/ failCall(r))
         \/ restart \/ syncPolicy \/ tick \/ UNCHANGED vars => UNCHANGED <<policy, slot>>
  BY DEF resolveAgentPolicy, recordDecision, failCall, restart, syncPolicy, tick, vars, history
<1> QED
  BY <1>3, <1>4, <1>5, <1>6 DEF Next

\* On no UTC day are more slots reserved than the daily limit allows, if the
\* Policy has a cooldown.  Without one the limit does not hold: a reservation
\* that loses a race before midnight and is repeated after another one after
\* midnight counts for the day before with a counter that starts again.
THEOREM DailyCapKept ==
    ASSUME LimitsAssumption, Cooldown > 0
    PROVE  Spec => []DailyCap
<1>1. Init => DayInv
  <2> SUFFICES ASSUME Init
               PROVE  DayInv
    OBVIOUS
  <2>1. policy.today = 0 /\ policy.last = None
    BY DEF Init, NewPolicy
  <2>2. \A d \in Days : granted(d) = 0
    <3>1. Days \subseteq Nat
      BY DaysGoOn DEF Days, Time, LimitsAssumption
    <3>2. \A d \in Days : OfDay(d) = {}
      BY <3>1 DEF Init, OfDay, LimitsAssumption
    <3> QED
      BY <3>2, FS_EmptySet DEF granted
  <2> QED
    BY <2>1, <2>2 DEF DayInv, LimitsAssumption
<1>2. TypeOK /\ Working /\ Served /\ DayInv /\ [Next]_vars => DayInv'
  BY DayStep
<1>3. DayInv => DailyCap
  BY DEF DayInv, DailyCap, granted
<1> QED
  BY <1>1, <1>2, <1>3, AgentPolicyTypeCorrect, DecisionsAlwaysLimited, PTL DEF Spec

\* Agents stay within both limits (reserveAgentPolicySlot), if there is a
\* cooldown; a request for which the list of Policies failed decides without
\* them (resolveAgentPolicy).
THEOREM AgentsStayWithinLimits ==
    ASSUME LimitsAssumption, Cooldown > 0
    PROVE  Spec => []AgentLimits
<1>1. SlotsCovered /\ DailyCap /\ Served => AgentLimits
  BY DEF AgentLimits, Served
<1> QED
  BY <1>1, SlotsAlwaysCovered, DailyCapKept, DecisionsAlwaysLimited, PTL

=============================================================================

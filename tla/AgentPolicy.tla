---------------------------- MODULE AgentPolicy -----------------------------
(***************************************************************************)
(* The rate limits of one agent's Policy                                   *)
(* (internal/webhook/agentpolicy_enforcer.go): every decide request        *)
(* resolves the Policy from the API server, reserves a slot with a         *)
(* conditional update, records its decision and releases the slot.         *)
(* Refetches come from the informer cache.  What the request records is in *)
(* Decision; here it succeeds or fails.  A list of Policies that fails is  *)
(* only logged: the request goes on as if the agent had no Policy.         *)
(***************************************************************************)
EXTENDS Integers, FiniteSets

CONSTANTS
    Requests,       \* decide requests of the agent, on any targets
    MaxConcurrent,  \* rateLimits.maxConcurrent
    MaxPerDay,      \* rateLimits.maxApprovalsPerDay
    Cooldown,       \* rateLimits.cooldown in ticks, 0 if there is none
    DayLength,      \* ticks of a UTC day
    MaxRetries,     \* attempts of a reservation, and of a release
    None,           \* an empty field
    MaxClock,       \* bound: last tick
    MaxFaults       \* bound: failed calls and restarts

VARIABLES
    policy,   \* the Policy's status, with its resource version
    seen,     \* the cached copy
    clock,    \* time.Now()
    req,      \* the handler of each request
    slot,     \* history: the UTC day for which each request reserved a slot
    open,     \* history: requests for which the Policies could not be listed
    recorded, \* history: requests whose decision was recorded
    faults    \* how many of the bounded events have happened

history == <<slot, open, recorded>>
vars == <<policy, seen, clock, req, history, faults>>

-----------------------------------------------------------------------------
Time == 0..MaxClock
Day(t) == t \div DayLength
Days == {Day(t) : t \in Time}
Optional(S) == S \cup {None}

Policy == [active : Nat,             \* status.activeDecisions
           today  : Nat,             \* status.decisionsToday
           last   : Optional(Time),  \* status.lastDecisionAt
           ver    : Nat]             \* metadata.resourceVersion
NewPolicy == [active |-> 0, today |-> 0, last |-> None, ver |-> 0]

\* A request: "hold" has a slot and is at work, "unlimited" is at work without
\* one, "release" gives the slot back after the decision was recorded, "defer"
\* when the handler returns.
Request == [pc    : {"new", "reserve", "hold", "unlimited", "release", "defer", "done"},
            copy  : Optional(Policy),  \* the Policy in hand
            now   : Optional(Time),    \* when the reservation began
            tries : 0..MaxRetries]     \* attempts made of the current loop
NewRequest == [pc |-> "new", copy |-> None, now |-> None, tries |-> 0]
At(pc) == [NewRequest EXCEPT !.pc = pc]

\* Every variable stays in its type, and no counter is negative.
TypeOK ==
    /\ policy \in Policy /\ seen \in Policy
    /\ clock \in Time
    /\ req \in [Requests -> Request]
    /\ slot \in [Requests -> Optional(Days)]
    /\ open \subseteq Requests /\ recorded \subseteq Requests
    /\ faults \in 0..MaxFaults

Init ==
    /\ policy = NewPolicy /\ seen = NewPolicy
    /\ clock = 0
    /\ req = [r \in Requests |-> NewRequest]
    /\ slot = [r \in Requests |-> None]
    /\ open = {} /\ recorded = {}
    /\ faults = 0

Fault ==
    /\ faults < MaxFaults
    /\ faults' = faults + 1

sameUTCDay(a, b) == Day(a) = Day(b)

-----------------------------------------------------------------------------
\* The Policy is listed from the API server, not from the cache.  When the list
\* fails handleDecide goes on without a Policy.
resolveAgentPolicy(r) ==
    /\ req[r].pc = "new"
    /\ \/ /\ req' = [req EXCEPT ![r] = [At("reserve") EXCEPT !.copy = policy]]
          /\ UNCHANGED <<open, faults>>
       \/ /\ req' = [req EXCEPT ![r] = At("unlimited")]
          /\ open' = open \cup {r}
          /\ Fault
    /\ UNCHANGED <<policy, seen, clock, slot, recorded>>

\* The count of the day starts again when the last decision was on another.
Rolled(p, now) ==
    IF p.last # None /\ ~sameUTCDay(p.last, now) THEN [p EXCEPT !.today = 0] ELSE p

WithinLimits(p, now) ==
    /\ p.today < MaxPerDay
    /\ p.active < MaxConcurrent
    /\ Cooldown > 0 /\ p.last # None => now - p.last >= Cooldown

\* One attempt of a reservation that began at now with the Policy p: refused
\* by the limits, written when p is the current version, or tried again.
Attempt(r, p, now, written) ==
    IF ~WithinLimits(Rolled(p, now), now)
    THEN /\ req' = [req EXCEPT ![r] = At("done")]
         /\ UNCHANGED <<policy, slot>>
    ELSE IF written
    THEN /\ policy' = [active |-> Rolled(p, now).active + 1, today |-> Rolled(p, now).today + 1,
                       last |-> now, ver |-> policy.ver + 1]
         /\ slot' = [slot EXCEPT ![r] = Day(now)]
         /\ req' = [req EXCEPT ![r] = At("hold")]
    ELSE /\ req' = [req EXCEPT ![r] =
               IF req[r].tries + 1 = MaxRetries THEN At("done")
               ELSE [pc |-> "reserve", copy |-> None, now |-> now, tries |-> req[r].tries + 1]]
         /\ UNCHANGED <<policy, slot>>

PolicyOf(r) == IF req[r].tries = 0 THEN req[r].copy ELSE seen
NowOf(r) == IF req[r].now = None THEN clock ELSE req[r].now

\* Fault: the counters are written without the resource version.
ReserveUnconditionally(r) ==
    /\ req[r].pc = "reserve"
    /\ Attempt(r, PolicyOf(r), NowOf(r), TRUE)
    /\ UNCHANGED <<seen, clock, open, recorded, faults>>

\* The first attempt uses the Policy that was resolved, later ones refetch it
\* from the cache; the time is taken once, before the first.
reserveAgentPolicySlot(r) ==
    /\ req[r].pc = "reserve"
    /\ Attempt(r, PolicyOf(r), NowOf(r), PolicyOf(r).ver = policy.ver)
    /\ UNCHANGED <<seen, clock, open, recorded, faults>>

\* The rest of handleDecide: the decision is recorded and the slot released
\* at once, or some call fails and the slot is released by the deferred call.
\* Without a Policy there is no slot to release.
recordDecision(r) ==
    /\ req[r].pc \in {"hold", "unlimited"}
    /\ \/ /\ req' = [req EXCEPT ![r] = At(IF req[r].pc = "hold" THEN "release" ELSE "done")]
          /\ recorded' = recorded \cup {r}
          /\ UNCHANGED faults
       \/ /\ req' = [req EXCEPT ![r] = At(IF req[r].pc = "hold" THEN "defer" ELSE "done")]
          /\ Fault
          /\ UNCHANGED recorded
    /\ UNCHANGED <<policy, seen, clock, slot, open>>

\* A release that gives up after it recorded the decision is repeated by the
\* deferred call; the deferred call only logs.
GiveUp(r) == IF req[r].pc = "release" THEN At("defer") ELSE At("done")

\* Fault: a release that lost a race counts as done although it wrote nothing,
\* and the deferred call writes the counter without a version.
ReleaseUnconditionally(r) ==
    /\ req[r].pc \in {"release", "defer"}
    /\ policy' = [policy EXCEPT !.active = seen.active - 1, !.ver = @ + 1]
    /\ req' = [req EXCEPT ![r] = At("done")]
    /\ UNCHANGED <<seen, clock, history, faults>>

\* Every attempt refetches the Policy from the cache.  A copy whose counter is
\* zero ends the release with success; otherwise the counter goes down with a
\* conditional update.
releaseAgentPolicySlot(r) ==
    /\ req[r].pc \in {"release", "defer"}
    /\ IF seen.active <= 0
       THEN /\ req' = [req EXCEPT ![r] = At("done")]
            /\ UNCHANGED policy
       ELSE IF seen.ver = policy.ver
       THEN /\ policy' = [policy EXCEPT !.active = @ - 1, !.ver = @ + 1]
            /\ req' = [req EXCEPT ![r] = At("done")]
       ELSE /\ req' = [req EXCEPT ![r] =
                  IF req[r].tries + 1 = MaxRetries THEN GiveUp(r)
                  ELSE [req[r] EXCEPT !.tries = req[r].tries + 1]]
            /\ UNCHANGED policy
    /\ UNCHANGED <<seen, clock, history, faults>>

\* The call of a reservation or a release fails, or the operator restarts.
failCall(r) ==
    /\ Fault
    /\ \/ req[r].pc = "reserve" /\ req' = [req EXCEPT ![r] = At("done")]
       \/ req[r].pc \in {"release", "defer"} /\ req' = [req EXCEPT ![r] = GiveUp(r)]
    /\ UNCHANGED <<policy, seen, clock, history>>

restart ==
    /\ Fault
    /\ \E r \in Requests : req[r].pc \notin {"new", "done"}
    /\ req' = [r \in Requests |-> IF req[r].pc = "new" THEN req[r] ELSE At("done")]
    /\ UNCHANGED <<policy, seen, clock, history>>

syncPolicy ==
    /\ seen # policy
    /\ seen' = policy
    /\ UNCHANGED <<policy, clock, req, history, faults>>

tick ==
    /\ clock < MaxClock
    /\ clock' = clock + 1
    /\ UNCHANGED <<policy, seen, req, history, faults>>

Next ==
    \/ \E r \in Requests : \/ resolveAgentPolicy(r) \/ reserveAgentPolicySlot(r)
                           \/ recordDecision(r) \/ releaseAgentPolicySlot(r)
                           \/ failCall(r)
    \/ restart \/ syncPolicy \/ tick

Spec == Init /\ [][Next]_vars

-----------------------------------------------------------------------------
(* Properties.                                                             *)

Holders == {r \in Requests : req[r].pc \in {"hold", "release", "defer"}}

\* The counter never says less than is in flight, and no more than the limit
\* is in flight: check and increment are one conditional write, and no request
\* gives a slot back twice (reserveAgentPolicySlot, releaseAgentPolicySlot).
SlotsCovered ==
    /\ Cardinality(Holders) <= policy.active
    /\ policy.active <= MaxConcurrent

\* The requests that reserved a slot for UTC day d.
OfDay(d) == {r \in Requests : slot[r] = d}

\* On no UTC day are more slots reserved than the daily limit allows: the
\* counter rolls over inside the conditional write (reserveAgentPolicySlot says
\* "concurrent first-request-of-day racers all observe the reset coherently").
DailyCap == \A d \in Days : Cardinality(OfDay(d)) <= MaxPerDay

\* Every decision that is recorded has taken a slot, unless the Policies could
\* not be listed for its request: then handleDecide logs the error and decides
\* without limits (resolveAgentPolicy, reserveAgentPolicySlot).
DecisionsAreLimited == \A r \in recorded : slot[r] # None \/ r \in open

\* Agents stay within both limits, except in requests for which the list of
\* Policies failed.
AgentLimits == SlotsCovered /\ DailyCap /\ DecisionsAreLimited

=============================================================================

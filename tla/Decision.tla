------------------------------ MODULE Decision ------------------------------
(***************************************************************************)
(* The decision on one Target that waits for approval                      *)
(* (internal/webhook): the signed approve and reject links of the          *)
(* notification, the Decision API's decide, and the human override.  Each  *)
(* request is a handler of its own that reads the Target from the          *)
(* informer cache and then makes one write per step; a client repeats a    *)
(* request that failed, and none that was accepted.                        *)
(*                                                                         *)
(* Of the copy that a link's handler has read it matters only whether it   *)
(* is still current, that is, whether its resource version is.  No value   *)
(* of a Target comes back once it has changed.  The rate limit of the      *)
(* agent's policy is in AgentPolicy; here the policy is the effective      *)
(* decision it allows.                                                     *)
(***************************************************************************)
EXTENDS Naturals, FiniteSets

CONSTANTS
    Decides,     \* requests of the Decision API, each with its idempotency key
    DecisionOf,  \* what each of them asks for: "Approve", "Reject" or "Defer"
    Overrides,   \* human overrides whose action is Approve
    None,        \* an empty field
    MaxFaults    \* bound: failed calls and restarts

VARIABLES
    target,     \* the Target
    seen,       \* the webhook server's cached copy of it
    approval,   \* who made the Approval of (run, target), None if nobody has
    link,       \* the handler of each link
    decide,     \* the handler of each decide request
    override,   \* the handler of each override
    accepted,   \* decide requests that were answered "accepted"
    faults      \* how many of the bounded events have happened

handlers == <<link, decide, override, accepted>>
vars == <<target, seen, approval, handlers, faults>>

-----------------------------------------------------------------------------
Optional(S) == S \cup {None}

\* The two links of a notification.  Each has a JTI of its own, so the link
\* stands for the pair of JTI and action.
Links == {"approve", "reject"}

Effects == {"Approve", "Reject", "Defer", "Recommended", "PendingHumanConfirm"}

Trace == [id : Decides, effective : Effects]  \* decisionTrace.current

Target == [phase     : {"WaitingApproval", "Applying", "Failed"},
           jti       : Optional(Links),    \* annotation: the link redeemed
           rejected  : BOOLEAN,
           trace     : Optional(Trace),
           overrides : SUBSET Overrides]

NewTarget == [phase |-> "WaitingApproval", jti |-> None, rejected |-> FALSE,
              trace |-> None, overrides |-> {}]

Handler == [pc : {"idle", "claim", "patch", "create"},
            current : BOOLEAN]  \* the copy read by claimDecisionToken is current
Idle == [pc |-> "idle", current |-> FALSE]

\* Every variable stays in its type.
TypeOK ==
    /\ target \in Target /\ seen \in Target
    /\ approval \in Optional({"link", "agent", "human"})
    /\ link \in [Links -> Handler]
    /\ decide \in [Decides -> [pc : {"idle", "patch", "create"},
                               effective : Optional(Effects)]]
    /\ override \in [Overrides -> [pc : {"idle", "patch", "create"},
                                   list : SUBSET Overrides]]
    /\ accepted \in SUBSET Decides
    /\ faults \in 0..MaxFaults

NoDecide == [pc |-> "idle", effective |-> None]
NoOverride == [pc |-> "idle", list |-> {}]

Init ==
    /\ target = NewTarget /\ seen = NewTarget
    /\ approval = None
    /\ link = [l \in Links |-> Idle]
    /\ decide = [d \in Decides |-> NoDecide]
    /\ override = [o \in Overrides |-> NoOverride]
    /\ accepted = {}
    /\ faults = 0

\* A write of the Target makes every copy in hand an old one.
Outdated == [l \in Links |-> [link[l] EXCEPT !.current = FALSE]]

Fault ==
    /\ faults < MaxFaults
    /\ faults' = faults + 1

-----------------------------------------------------------------------------
(* The links.  Signature, expiry, action and the run's UID have been       *)
(* verified; a request that fails one of them changes nothing.             *)

\* Fault: a redeemed link is refused even to the client that redeemed it.
ReadClaimOnce(l) ==
    /\ link[l].pc = "idle"
    /\ seen.jti = None
    /\ link' = [link EXCEPT ![l] = [pc |-> "claim", current |-> seen = target]]
    /\ UNCHANGED <<target, seen, approval, decide, override, accepted, faults>>

\* claimDecisionToken reads the Target.  The same link passes again, the
\* other one is answered token_already_redeemed.
readClaim(l) ==
    /\ link[l].pc = "idle"
    /\ seen.jti \in {None, l}
    /\ link' = [link EXCEPT ![l] =
          IF seen.jti = None     THEN [pc |-> "claim", current |-> seen = target]
          ELSE IF l = "approve"  THEN [Idle EXCEPT !.pc = "create"]
          ELSE IF ~seen.rejected THEN [Idle EXCEPT !.pc = "patch"]
          ELSE Idle]
    /\ UNCHANGED <<target, seen, approval, decide, override, accepted, faults>>

\* What follows the claim: the Approval, or the rejection unless the Target
\* the update returned has it already.
AfterClaim(l) ==
    IF l = "approve"         THEN [Idle EXCEPT !.pc = "create"]
    ELSE IF ~target.rejected THEN [Idle EXCEPT !.pc = "patch"]
    ELSE Idle

\* The update that redeems the link carries the resource version of the
\* copy.  A conflict is retried from the read; when the retries are used up
\* the request fails, and the client's next one begins with the same read.
claimDecisionToken(l) ==
    /\ link[l].pc = "claim"
    /\ IF link[l].current
       THEN /\ target' = [target EXCEPT !.jti = l]
            /\ link' = [Outdated EXCEPT ![l] = AfterClaim(l)]
       ELSE /\ link' = [link EXCEPT ![l] = Idle]
            /\ UNCHANGED target
    /\ UNCHANGED <<seen, approval, decide, override, accepted, faults>>

\* handleApprove creates the Approval, whose name is that of run and target:
\* one that exists already is left as it is.
handleApprove ==
    /\ link["approve"].pc = "create"
    /\ approval' = IF approval = None THEN "link" ELSE approval
    /\ link' = [link EXCEPT !["approve"] = Idle]
    /\ UNCHANGED <<target, seen, decide, override, accepted, faults>>

\* handleReject patches the rejection into the Target's status.
handleReject ==
    /\ link["reject"].pc = "patch"
    /\ target' = [target EXCEPT !.rejected = TRUE]
    /\ link' = [Outdated EXCEPT !["reject"] = Idle]
    /\ UNCHANGED <<seen, approval, decide, override, accepted, faults>>

-----------------------------------------------------------------------------
(* The Decision API.                                                       *)

\* What enforceAgentPolicy makes of a decision: itself, a recommendation, or
\* an approval that a human has to confirm.
EffectiveOf(d) ==
    {DecisionOf[d], "Recommended"}
       \cup (IF DecisionOf[d] = "Approve" THEN {"PendingHumanConfirm"} ELSE {})

\* handleDecide up to the writes: the run is not suspended, the
\* Target waits for approval and has no decision yet, the policy and the caller's rights
\* allow the decision.  Any other answer of these checks changes nothing, so
\* whether the run is suspended is not part of the state.
readDecide(d) ==
    /\ decide[d].pc = "idle" /\ d \notin accepted
    /\ seen.phase = "WaitingApproval"
    /\ seen.trace = None
    /\ \E e \in EffectiveOf(d) :
          decide' = [decide EXCEPT ![d] = [pc |-> "patch", effective |-> e]]
    /\ UNCHANGED <<target, seen, approval, link, override, accepted, faults>>

\* The idempotent replay: the decision with this key is on the Target.
replayDecide(d) ==
    /\ decide[d].pc = "idle" /\ d \notin accepted
    /\ seen.phase = "WaitingApproval"
    /\ seen.trace # None /\ seen.trace.id = d
    /\ accepted' = accepted \cup {d}
    /\ UNCHANGED <<target, seen, approval, link, decide, override, faults>>

\* Only an Approve that is effective makes an Approval.
Approves(d) == DecisionOf[d] = "Approve" /\ decide[d].effective = "Approve"

\* The copy in hand has no decision, so the merge patch writes the entry over
\* whatever the Target has by now.
patchDecisionTrace(d) ==
    /\ decide[d].pc = "patch"
    /\ target' = [target EXCEPT !.trace = [id |-> d, effective |-> decide[d].effective]]
    /\ IF Approves(d)
       THEN /\ decide' = [decide EXCEPT ![d].pc = "create"]
            /\ UNCHANGED accepted
       ELSE /\ decide' = [decide EXCEPT ![d] = NoDecide]
            /\ accepted' = accepted \cup {d}
    /\ link' = Outdated
    /\ UNCHANGED <<seen, approval, override, faults>>

\* The Approval of the decision.  One that exists is fine.
createApproval(d) ==
    /\ decide[d].pc = "create"
    /\ approval' = IF approval = None THEN "agent" ELSE approval
    /\ decide' = [decide EXCEPT ![d] = NoDecide]
    /\ accepted' = accepted \cup {d}
    /\ UNCHANGED <<target, seen, link, override, faults>>

-----------------------------------------------------------------------------
(* The override.                                                           *)

readOverride(o) ==
    /\ override[o].pc = "idle" /\ o \notin target.overrides
    /\ override' = [override EXCEPT ![o] = [pc |-> "patch", list |-> seen.overrides]]
    /\ UNCHANGED <<target, seen, approval, link, decide, accepted, faults>>

\* The patch replaces the list of overrides by the copy's and the new one.
patchOverride(o) ==
    /\ override[o].pc = "patch"
    /\ target' = [target EXCEPT !.overrides = override[o].list \cup {o}]
    /\ override' = [override EXCEPT ![o] = [pc |-> "create", list |-> {}]]
    /\ link' = Outdated
    /\ UNCHANGED <<seen, approval, decide, accepted, faults>>

\* An error of this create is logged and the request answered as recorded.
approveOverride(o) ==
    /\ override[o].pc = "create"
    /\ \/ /\ approval' = IF approval = None THEN "human" ELSE approval
          /\ UNCHANGED faults
       \/ Fault /\ UNCHANGED approval
    /\ override' = [override EXCEPT ![o] = NoOverride]
    /\ UNCHANGED <<target, seen, link, decide, accepted>>

-----------------------------------------------------------------------------
(* The rest of the system.                                                 *)

\* A call fails and its request with it, or the operator restarts under it.
failRequest ==
    /\ Fault
    /\ \/ \E l \in Links : link[l] # Idle /\ link' = [link EXCEPT ![l] = Idle]
                           /\ UNCHANGED <<decide, override>>
       \/ \E d \in Decides : decide[d] # NoDecide /\ decide' = [decide EXCEPT ![d] = NoDecide]
                             /\ UNCHANGED <<link, override>>
       \/ \E o \in Overrides : override[o] # NoOverride /\ override' = [override EXCEPT ![o] = NoOverride]
                               /\ UNCHANGED <<link, decide>>
    /\ UNCHANGED <<target, seen, approval, accepted>>

\* The informer brings the Target.
syncTarget ==
    /\ seen # target
    /\ seen' = target
    /\ UNCHANGED <<target, approval, handlers, faults>>

\* handleWaitingApproval of the TargetReconciler: a rejection fails the
\* Target, an Approval lets it apply.
handleWaitingApproval ==
    /\ target.phase = "WaitingApproval"
    /\ target.rejected \/ approval # None
    /\ target' = [target EXCEPT !.phase = IF target.rejected THEN "Failed" ELSE "Applying"]
    /\ link' = Outdated
    /\ UNCHANGED <<seen, approval, decide, override, accepted, faults>>

Handle(l) == readClaim(l) \/ claimDecisionToken(l)

Next ==
    \/ \E l \in Links : Handle(l)
    \/ handleApprove \/ handleReject
    \/ \E d \in Decides : readDecide(d) \/ replayDecide(d) \/ patchDecisionTrace(d)
                          \/ createApproval(d)
    \/ \E o \in Overrides : readOverride(o) \/ patchOverride(o) \/ approveOverride(o)
    \/ failRequest \/ syncTarget \/ handleWaitingApproval

Spec == Init /\ [][Next]_vars

-----------------------------------------------------------------------------
(* Properties.                                                             *)

\* Of the two links one takes effect: the update that redeems a link carries
\* a resource version, so the Approval of the approve link and the rejection
\* of the reject link never both exist (claimDecisionToken,
\* internal/webhook/server.go).
OneLinkTakesEffect == ~(approval = "link" /\ target.rejected)

\* A link that is redeemed takes effect in the end, although the redemption
\* and the effect are two writes and the second may fail: the same link passes
\* the claim again, so its next post completes the decision (handleApprove,
\* handleReject).
RedeemedTakesEffect ==
    <>[](/\ target.jti = "approve" => approval # None
         /\ target.jti = "reject" => target.rejected)

=============================================================================

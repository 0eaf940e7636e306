---------------------------- MODULE DecisionProofs ----------------------------
(* Proofs about Decision: of the two links of a notification one takes     *)
(* effect, for every number of decide requests and overrides, whatever     *)
(* fails in between.                                                       *)
EXTENDS Decision, TLAPS

\* What the requests ask for; None is an empty field.
DecisionAssumption ==
    /\ DecisionOf \in [Decides -> {"Approve", "Reject", "Defer"}]
    /\ None \notin Links \cup Effects \cup {"link", "agent", "human"}
    /\ MaxFaults \in Nat

-----------------------------------------------------------------------------
(* Type correctness.                                                       *)

\* The handlers' records, and the writes of the Target.
LEMMA RecordTypes ==
    ASSUME DecisionAssumption
    PROVE  /\ Idle \in Handler /\ [Idle EXCEPT !.pc = "create"] \in Handler
           /\ [Idle EXCEPT !.pc = "patch"] \in Handler
           /\ NoDecide \in [pc : {"idle", "patch", "create"}, effective : Optional(Effects)]
           /\ NoOverride \in [pc : {"idle", "patch", "create"}, list : SUBSET Overrides]
           /\ NewTarget \in Target
  BY DEF Idle, Handler, NoDecide, NoOverride, NewTarget, Target, Optional

LEMMA OutdatedType ==
    ASSUME TypeOK
    PROVE  /\ Outdated \in [Links -> Handler]
           /\ \A l \in Links : Outdated[l].pc = link[l].pc /\ Outdated[l].current = FALSE
  BY DEF TypeOK, Outdated, Handler

LEMMA LinkType ==
    ASSUME DecisionAssumption, TypeOK,
           NEW l \in Links, readClaim(l) \/ claimDecisionToken(l)
    PROVE  TypeOK'
<1>0. Idle \in Handler /\ [Idle EXCEPT !.pc = "create"] \in Handler
      /\ [Idle EXCEPT !.pc = "patch"] \in Handler
  BY RecordTypes
<1>1. CASE readClaim(l)
  <2>1. \A b \in BOOLEAN : [pc |-> "claim", current |-> b] \in Handler
    BY DEF Handler
  <2>2. link' \in [Links -> Handler]
    BY <1>0, <1>1, <2>1 DEF readClaim, TypeOK
  <2> QED
    BY <1>1, <2>2 DEF readClaim, TypeOK
<1>2. CASE claimDecisionToken(l)
  <2>1. target' \in Target
    BY <1>2 DEF claimDecisionToken, TypeOK, Target, Optional
  <2>2. link' \in [Links -> Handler]
    BY <1>0, <1>2, OutdatedType DEF claimDecisionToken, AfterClaim, TypeOK
  <2> QED
    BY <1>2, <2>1, <2>2 DEF claimDecisionToken, TypeOK
<1> QED
  BY <1>1, <1>2

LEMMA EffectType ==
    ASSUME DecisionAssumption, TypeOK,
           handleApprove \/ handleReject \/ handleWaitingApproval
    PROVE  TypeOK'
<1>0. Idle \in Handler
  BY RecordTypes
<1>1. CASE handleApprove
  BY <1>0, <1>1 DEF handleApprove, TypeOK, Optional
<1>2. CASE handleReject
  <2>1. target' \in Target
    BY <1>2 DEF handleReject, TypeOK, Target
  <2> QED
    BY <1>0, <1>2, <2>1, OutdatedType DEF handleReject, TypeOK
<1>3. CASE handleWaitingApproval
  <2>1. target' \in Target
    BY <1>3 DEF handleWaitingApproval, TypeOK, Target
  <2> QED
    BY <1>3, <2>1, OutdatedType DEF handleWaitingApproval, TypeOK
<1> QED
  BY <1>1, <1>2, <1>3

\* A decide request that is about to write has its effective decision.
Decided == \A d \in Decides : decide[d].pc = "patch" => decide[d].effective \in Effects

LEMMA DecideType ==
    ASSUME DecisionAssumption, TypeOK, Decided, NEW d \in Decides,
           readDecide(d) \/ replayDecide(d) \/ patchDecisionTrace(d) \/ createApproval(d)
    PROVE  TypeOK' /\ Decided'
<1> DEFINE Call == [pc : {"idle", "patch", "create"}, effective : Optional(Effects)]
<1>0. NoDecide \in Call /\ NoDecide.pc = "idle" /\ decide \in [Decides -> Call]
  BY RecordTypes DEF TypeOK, NoDecide
<1>1. CASE readDecide(d)
  <2>1. PICK e \in Effects : decide' = [decide EXCEPT ![d] = [pc |-> "patch", effective |-> e]]
    BY <1>1 DEF readDecide, EffectiveOf, Effects, DecisionAssumption
  <2>2. decide' \in [Decides -> Call] /\ Decided'
    BY <1>0, <2>1 DEF Optional, Decided
  <2> QED
    BY <1>1, <2>2 DEF readDecide, TypeOK
<1>2. CASE replayDecide(d)
  BY <1>2 DEF replayDecide, TypeOK, Decided
<1>3. CASE createApproval(d)
  <2>1. decide' \in [Decides -> Call] /\ Decided'
    BY <1>0, <1>3 DEF createApproval, Decided
  <2> QED
    BY <1>3, <2>1 DEF createApproval, TypeOK, Optional
<1>4. CASE patchDecisionTrace(d)
  <2>1. [id |-> d, effective |-> decide[d].effective] \in Trace
    BY <1>4 DEF patchDecisionTrace, Decided, Trace
  <2>2. target' \in Target
    BY <1>4, <2>1 DEF patchDecisionTrace, TypeOK, Target, Optional
  <2>3. [decide EXCEPT ![d].pc = "create"] \in [Decides -> Call]
    BY <1>0
  <2>4. /\ decide' = [decide EXCEPT ![d].pc = "create"] \/ decide' = [decide EXCEPT ![d] = NoDecide]
        /\ accepted' \in SUBSET Decides /\ link' = Outdated
        /\ UNCHANGED <<seen, approval, override, faults>>
    BY <1>4 DEF patchDecisionTrace, TypeOK
  <2>5. decide' \in [Decides -> Call] /\ Decided'
    <3>1. CASE decide' = [decide EXCEPT ![d].pc = "create"]
      BY <1>0, <2>3, <3>1 DEF Decided
    <3>2. CASE decide' = [decide EXCEPT ![d] = NoDecide]
      BY <1>0, <3>2 DEF Decided
    <3> QED
      BY <2>4, <3>1, <3>2
  <2>6. link' \in [Links -> Handler]
    BY <2>4, OutdatedType
  <2> QED
    BY <2>2, <2>4, <2>5, <2>6 DEF TypeOK
<1> QED
  BY <1>1, <1>2, <1>3, <1>4

LEMMA OverrideType ==
    ASSUME DecisionAssumption, TypeOK, NEW o \in Overrides,
           readOverride(o) \/ patchOverride(o) \/ approveOverride(o)
    PROVE  TypeOK'
<1> DEFINE Call == [pc : {"idle", "patch", "create"}, list : SUBSET Overrides]
<1>0. NoOverride \in Call /\ override \in [Overrides -> Call]
  BY RecordTypes DEF TypeOK
<1>1. CASE readOverride(o)
  <2>1. [pc |-> "patch", list |-> seen.overrides] \in Call
    BY DEF TypeOK, Target
  <2> QED
    BY <1>0, <1>1, <2>1 DEF readOverride, TypeOK
<1>2. CASE patchOverride(o)
  <2>1. override[o].list \cup {o} \in SUBSET Overrides
    BY <1>0
  <2>2. target' \in Target
    BY <1>2, <2>1 DEF patchOverride, TypeOK, Target
  <2>3. [pc |-> "create", list |-> {}] \in Call
    OBVIOUS
  <2> QED
    BY <1>0, <1>2, <2>2, <2>3, OutdatedType DEF patchOverride, TypeOK
<1>3. CASE approveOverride(o)
  <2>1. faults' \in 0..MaxFaults
    BY <1>3 DEF approveOverride, Fault, TypeOK, DecisionAssumption
  <2>2. approval' \in Optional({"link", "agent", "human"})
    BY <1>3 DEF approveOverride, TypeOK, Optional
  <2> QED
    BY <1>0, <1>3, <2>1, <2>2 DEF approveOverride, TypeOK
<1> QED
  BY <1>1, <1>2, <1>3

\* A step of the requests, the informer or the reconciler keeps every variable
\* in its type.
LEMMA TypeStep ==
    ASSUME DecisionAssumption, TypeOK, Decided, [Next]_vars
    PROVE  TypeOK' /\ Decided'
<1>1. ASSUME UNCHANGED decide, TypeOK'
      PROVE  TypeOK' /\ Decided'
  BY <1>1 DEF Decided
<1>2. CASE \E l \in Links : Handle(l)
  <2>1. UNCHANGED decide
    BY <1>2 DEF Handle, readClaim, claimDecisionToken
  <2> QED
    BY <1>1, <1>2, <2>1, LinkType DEF Handle
<1>3. CASE handleApprove \/ handleReject \/ handleWaitingApproval
  <2>1. UNCHANGED decide
    BY <1>3 DEF handleApprove, handleReject, handleWaitingApproval
  <2> QED
    BY <1>1, <1>3, <2>1, EffectType
<1>4. CASE \E d \in Decides : readDecide(d) \/ replayDecide(d) \/ patchDecisionTrace(d)
                              \/ createApproval(d)
  BY <1>4, DecideType
<1>5. CASE \E o \in Overrides : readOverride(o) \/ patchOverride(o) \/ approveOverride(o)
  <2>1. UNCHANGED decide
    BY <1>5 DEF readOverride, patchOverride, approveOverride
  <2> QED
    BY <1>1, <1>5, <2>1, OverrideType
<1>6. CASE failRequest
  <2>1. faults' \in 0..MaxFaults /\ UNCHANGED <<target, seen, approval, accepted>>
    BY <1>6 DEF failRequest, Fault, TypeOK, DecisionAssumption
  <2>2. /\ link' \in [Links -> Handler]
        /\ override' \in [Overrides -> [pc : {"idle", "patch", "create"}, list : SUBSET Overrides]]
    BY <1>6, RecordTypes DEF failRequest, TypeOK
  <2>3. /\ decide' \in [Decides -> [pc : {"idle", "patch", "create"}, effective : Optional(Effects)]]
        /\ Decided'
    <3>1. NoDecide.pc = "idle"
      BY DEF NoDecide
    <3> QED
      BY <1>6, <3>1, RecordTypes DEF failRequest, TypeOK, Decided
  <2> QED
    BY <2>1, <2>2, <2>3 DEF TypeOK
<1>7. CASE syncTarget \/ UNCHANGED vars
  BY <1>7 DEF syncTarget, vars, handlers, TypeOK, Decided
<1> QED
  BY <1>2, <1>3, <1>4, <1>5, <1>6, <1>7 DEF Next

\* Every variable stays in its type, for every number of requests.
THEOREM DecisionTypeCorrect ==
    ASSUME DecisionAssumption
    PROVE  Spec => [](TypeOK /\ Decided)
<1>1. Init => TypeOK /\ Decided
  <2> SUFFICES ASSUME Init
               PROVE  TypeOK /\ Decided
    OBVIOUS
  <2>1. target \in Target /\ seen \in Target /\ link \in [Links -> Handler]
    BY RecordTypes DEF Init
  <2>2. /\ decide \in [Decides -> [pc : {"idle", "patch", "create"}, effective : Optional(Effects)]]
        /\ override \in [Overrides -> [pc : {"idle", "patch", "create"}, list : SUBSET Overrides]]
    BY RecordTypes DEF Init
  <2>3. approval \in Optional({"link", "agent", "human"}) /\ accepted \in SUBSET Decides
        /\ faults \in 0..MaxFaults
    BY DEF Init, Optional, DecisionAssumption
  <2>4. Decided
    BY DEF Init, Decided, NoDecide
  <2> QED
    BY <2>1, <2>2, <2>3, <2>4 DEF TypeOK
<1>2. TypeOK /\ Decided /\ [Next]_vars => TypeOK' /\ Decided'
  BY TypeStep
<1> QED
  BY <1>1, <1>2, PTL DEF Spec

-----------------------------------------------------------------------------
(* One link takes effect.                                                  *)

\* The redeemed link is on the Target before it has any effect, and never
\* changes; a copy in hand that is current is one of a Target without it.
ClaimInv ==
    /\ \A l \in Links : link[l].pc = "claim" /\ link[l].current => target.jti = None
    /\ link["approve"].pc # "patch" /\ link["reject"].pc # "create"
    /\ link["approve"].pc = "create" => target.jti = "approve"
    /\ link["reject"].pc = "patch" => target.jti = "reject"
    /\ approval = "link" => target.jti = "approve"
    /\ target.rejected => target.jti = "reject"
    /\ seen.jti # None => seen.jti = target.jti

LEMMA ClaimStep ==
    ASSUME DecisionAssumption, TypeOK, ClaimInv, [Next]_vars
    PROVE  ClaimInv'
<1> USE DEF ClaimInv
<1>0. /\ link \in [Links -> Handler] /\ target \in Target /\ seen \in Target
      /\ None \notin Links /\ None # "link" /\ "approve" \in Links /\ "reject" \in Links
  BY DEF TypeOK, DecisionAssumption, Links
<1>1. Idle.pc = "idle" /\ [Idle EXCEPT !.pc = "create"].pc = "create"
      /\ [Idle EXCEPT !.pc = "patch"].pc = "patch"
  BY DEF Idle
<1>2. ASSUME NEW l \in Links, readClaim(l)
      PROVE  ClaimInv'
  <2>1. UNCHANGED <<target, seen, approval>>
    BY <1>2 DEF readClaim
  <2>2. CASE seen.jti = None
    <3>1. link' = [link EXCEPT ![l] = [pc |-> "claim", current |-> seen = target]]
      BY <1>2, <2>2 DEF readClaim
    <3> QED
      BY <1>0, <2>1, <2>2, <3>1
  <2>3. CASE seen.jti = l /\ target.jti = l
    <3>1. CASE l = "approve"
      <4>1. link' = [link EXCEPT !["approve"] = [Idle EXCEPT !.pc = "create"]]
        BY <1>0, <1>2, <2>3, <3>1 DEF readClaim
      <4> QED
        BY <1>0, <1>1, <2>1, <2>3, <3>1, <4>1
    <3>2. CASE l = "reject"
      <4>1. \/ link' = [link EXCEPT !["reject"] = [Idle EXCEPT !.pc = "patch"]]
            \/ link' = [link EXCEPT !["reject"] = Idle]
        BY <1>0, <1>2, <2>3, <3>2 DEF readClaim
      <4> QED
        BY <1>0, <1>1, <2>1, <2>3, <3>2, <4>1
    <3> QED
      BY <3>1, <3>2 DEF Links
  <2> QED
    BY <1>2, <2>2, <2>3 DEF readClaim
<1>3. ASSUME NEW l \in Links, claimDecisionToken(l)
      PROVE  ClaimInv'
  <2>1. CASE link[l].current
    <3>1. target' = [target EXCEPT !.jti = l] /\ link' = [Outdated EXCEPT ![l] = AfterClaim(l)]
          /\ UNCHANGED <<seen, approval>>
      BY <1>3, <2>1 DEF claimDecisionToken
    <3>2. target.jti = None /\ approval # "link" /\ ~target.rejected /\ seen.jti = None
          /\ link["approve"].pc # "create" /\ link["reject"].pc # "patch"
      BY <1>0, <1>3, <2>1 DEF claimDecisionToken
    <3>3. target'.jti = l /\ target'.rejected = target.rejected
      BY <1>0, <3>1 DEF Target
    <3>4. \A m \in Links : link'[m] = IF m = l THEN AfterClaim(l) ELSE Outdated[m]
      BY <3>1, OutdatedType
    <3>5. AfterClaim("approve").pc = "create" /\ AfterClaim("reject").pc = "patch"
      BY <1>1, <3>2 DEF AfterClaim
    <3>6. \A m \in Links : link'[m].pc = "claim" => link'[m].current = FALSE
      BY <3>4, <3>5, OutdatedType DEF Links
    <3> QED
      BY <1>0, <3>1, <3>2, <3>3, <3>4, <3>5, <3>6, OutdatedType DEF Links
  <2>2. CASE ~link[l].current
    <3>1. link' = [link EXCEPT ![l] = Idle] /\ UNCHANGED <<target, seen, approval>>
      BY <1>3, <2>2 DEF claimDecisionToken
    <3> QED
      BY <1>0, <1>1, <3>1
  <2> QED
    BY <2>1, <2>2
<1>4. CASE handleApprove
  BY <1>0, <1>1, <1>4 DEF handleApprove
<1>5. ASSUME \A l \in Links : link'[l].pc \in {link[l].pc, "idle"} /\ link'[l].current = FALSE,
             target'.jti = target.jti, target'.rejected => target.rejected \/ target.jti = "reject",
             approval' = "link" => approval = "link", UNCHANGED seen
      PROVE  ClaimInv'
  BY <1>0, <1>5
<1>6. CASE handleReject
  <2>1. target'.jti = target.jti /\ target.jti = "reject"
    BY <1>0, <1>6 DEF handleReject, Target
  <2>2. \A l \in Links : link'[l].pc \in {link[l].pc, "idle"} /\ link'[l].current = FALSE
    BY <1>6, OutdatedType DEF handleReject, Idle
  <2> QED
    BY <1>5, <1>6, <2>1, <2>2 DEF handleReject
<1>7. ASSUME link' = Outdated, target'.jti = target.jti, target'.rejected = target.rejected,
             UNCHANGED <<seen, approval>>
      PROVE  ClaimInv'
  BY <1>5, <1>7, OutdatedType
<1>8. CASE handleWaitingApproval
  BY <1>0, <1>7, <1>8 DEF handleWaitingApproval, Target
<1>9. ASSUME NEW d \in Decides, patchDecisionTrace(d)
      PROVE  ClaimInv'
  BY <1>0, <1>7, <1>9 DEF patchDecisionTrace, Target
<1>10. ASSUME NEW o \in Overrides, patchOverride(o)
       PROVE  ClaimInv'
  BY <1>0, <1>7, <1>10 DEF patchOverride, Target
<1>11. ASSUME UNCHANGED <<target, seen, link>>, approval' = "link" => approval = "link"
       PROVE  ClaimInv'
  BY <1>11
<1>12. ASSUME NEW d \in Decides, readDecide(d) \/ replayDecide(d) \/ createApproval(d)
       PROVE  ClaimInv'
  BY <1>11, <1>12 DEF readDecide, replayDecide, createApproval
<1>13. ASSUME NEW o \in Overrides, readOverride(o) \/ approveOverride(o)
       PROVE  ClaimInv'
  BY <1>11, <1>13 DEF readOverride, approveOverride
<1>14. CASE failRequest
  <2>1. /\ UNCHANGED <<target, seen, approval>>
        /\ link' = link \/ \E l \in Links : link' = [link EXCEPT ![l] = Idle]
    BY <1>14 DEF failRequest
  <2> QED
    BY <1>0, <1>1, <2>1
<1>15. CASE syncTarget \/ UNCHANGED vars
  BY <1>15 DEF syncTarget, vars, handlers
<1> QED
  BY <1>2, <1>3, <1>4, <1>6, <1>8, <1>9, <1>10, <1>12, <1>13, <1>14, <1>15 DEF Next, Handle

\* Of the two links one takes effect: the Approval of the approve link and the
\* rejection of the reject link never both exist, since the update that redeems
\* a link carries the resource version of a copy without one
\* (claimDecisionToken), whatever requests race, fail or are repeated.
THEOREM OnlyOneLinkTakesEffect ==
    ASSUME DecisionAssumption
    PROVE  Spec => []OneLinkTakesEffect
<1>1. Init => ClaimInv
  <2> SUFFICES ASSUME Init
               PROVE  ClaimInv
    OBVIOUS
  <2>1. target.jti = None /\ seen.jti = None /\ target.rejected = FALSE /\ approval = None
    BY DEF Init, NewTarget
  <2>2. \A l \in Links : link[l].pc = "idle"
    BY DEF Init, Idle
  <2> QED
    BY <2>1, <2>2 DEF ClaimInv, Links, DecisionAssumption
<1>2. TypeOK /\ ClaimInv /\ [Next]_vars => ClaimInv'
  BY ClaimStep
<1>3. ClaimInv => OneLinkTakesEffect
  BY DEF ClaimInv, OneLinkTakesEffect
<1> QED
  BY <1>1, <1>2, <1>3, DecisionTypeCorrect, PTL DEF Spec

=============================================================================

------------------------------ MODULE Retention ------------------------------
(***************************************************************************)
(* Retention of the attempts of one Promotion: PromotionRunGCReconciler     *)
(* (promotionrun_gc_controller.go), which lists the PromotionRuns from the  *)
(* cache and deletes the oldest ones that have ended.  An attempt has the   *)
(* name of its spec's hash (promotion_controller.go), so one that is        *)
(* deleted leaves its name to a later one, and what is deleted is a name.   *)
(***************************************************************************)
EXTENDS Naturals, Sequences, FiniteSets, FiniteSetsExt

CONSTANTS
    MaxRuns,                  \* bound: attempts the Promotion makes
    MaxRetainedPerPromotion,
    MinRetainedPerOutcome,
    MaxDeletesPerReconcile,
    MaxLag,                   \* bound: changes the cache is behind
    MaxRevived                \* bound: attempts that go on after they were superseded

VARIABLES
    phase,    \* of each attempt; it keeps the last one when it is deleted
    name,     \* of each attempt: its own, or that of an earlier one
    gone,     \* the attempts that were deleted
    revived,  \* attempts that went on after they were superseded
    mistaken, \* attempts that were deleted for an earlier one of their name
    log,      \* changes the cache has not seen, in order
    cache,    \* the attempts in the cache, with their phases
    victims,  \* left to delete in the reconcile in progress
    forced    \* some reconcile had to go below the floor

vars == <<phase, name, gone, revived, mistaken, log, cache, victims, forced>>

-----------------------------------------------------------------------------
\* Attempts are numbered in the order of their sorting: by the second of their
\* creation, and in one second by name, which is a hash.
Runs == 1..MaxRuns
Outcomes == {"Complete", "Failed", "Superseded"}
Phases == {"none", "active"} \union Outcomes

\* Every variable stays in its type.
TypeOK ==
    /\ phase \in [Runs -> Phases] /\ name \in [Runs -> Runs]
    /\ gone \subseteq Runs /\ revived \subseteq Runs /\ mistaken \subseteq gone
    /\ cache \in [Runs -> Phases]
    /\ Len(log) <= MaxLag
    /\ victims \in Seq(Runs) /\ forced \in BOOLEAN

Init ==
    /\ phase = [r \in Runs |-> "none"] /\ name = [r \in Runs |-> r]
    /\ gone = {} /\ revived = {} /\ mistaken = {}
    /\ log = <<>> /\ cache = phase
    /\ victims = <<>> /\ forced = FALSE

-----------------------------------------------------------------------------
(* selectVictims, of a list of attempts.                                   *)

With(list, o) == {r \in Runs : list[r] = o}
IsTerminal(list) == {r \in Runs : list[r] \in Outcomes}
Oldest(S, n) == {r \in S : Cardinality({s \in S : s < r}) < n}
Less(a, b) == IF a > b THEN a - b ELSE 0

\* The attempts S, oldest first.
InOrder(S) == [i \in 1..Cardinality(S) |-> CHOOSE r \in S : Cardinality({s \in S : s <= r}) = i]

\* Active attempts use up the budget and are never candidates.
Excess(list) ==
    Less(Cardinality(IsTerminal(list)),
         Less(MaxRetainedPerPromotion, Cardinality(With(list, "active"))))

\* Fault: the newest ones are those above the floor.
NewestAboveFloor(list) ==
    UNION {With(list, o) \ Oldest(With(list, o), MinRetainedPerOutcome) : o \in Outcomes}

AboveFloor(list) ==
    UNION {Oldest(With(list, o), Less(Cardinality(With(list, o)), MinRetainedPerOutcome)) : o \in Outcomes}

\* First the oldest above the floor of their outcome; if that is not enough,
\* the oldest of the rest.
Forced(list) == Excess(list) > Cardinality(AboveFloor(list))
selectVictims(list) ==
    LET first == Oldest(AboveFloor(list), Excess(list))
        rest  == Oldest(IsTerminal(list) \ first, Less(Excess(list), Cardinality(first)))
    IN  InOrder(first) \o InOrder(rest)

-----------------------------------------------------------------------------
(* The reconcile.  An event of the Promotion starts it at any time.        *)

reconcile ==
    LET all == selectVictims(cache)
    IN  /\ victims = <<>> /\ all # <<>>
        /\ victims' = SubSeq(all, 1, Min({Len(all), MaxDeletesPerReconcile}))
        /\ forced' = (forced \/ Forced(cache))
        /\ UNCHANGED <<phase, name, gone, revived, mistaken, log, cache>>

\* The attempt there is under the name n, if there is one.
Holder(n) == {r \in Runs : name[r] = n /\ phase[r] # "none" /\ r \notin gone}

\* Whichever attempt has the name of the victim r goes.
Deleted(r, s) ==
    /\ Len(log) < MaxLag
    /\ gone' = gone \union {s}
    /\ mistaken' = IF s = r THEN mistaken ELSE mistaken \union {s}
    /\ log' = Append(log, <<s, "none">>)

\* A name that is gone, and one that may not be deleted, are skipped; any other
\* error ends the reconcile.
deleteVictim ==
    LET r == Head(victims)
    IN  /\ victims # <<>>
        /\ \/ /\ victims' = Tail(victims)
              /\ \/ \E s \in Holder(name[r]) : Deleted(r, s)
                 \/ Holder(name[r]) = {} /\ UNCHANGED <<gone, mistaken, log>>
           \/ /\ victims' \in {<<>>, Tail(victims)}
              /\ UNCHANGED <<gone, mistaken, log>>
        /\ UNCHANGED <<phase, name, revived, cache, forced>>

-----------------------------------------------------------------------------
(* The attempts, and the informer.                                         *)

Change(r, p) ==
    /\ Len(log) < MaxLag
    /\ phase' = [phase EXCEPT ![r] = p]
    /\ log' = Append(log, <<r, p>>)
    /\ UNCHANGED <<gone, mistaken, cache, victims, forced>>

\* Two attempts of one second sort in either order.  One has a name of its own,
\* or, when the spec returns to what it was and that attempt is gone, its name.
stampAttempt ==
    \E r \in Runs, n \in Runs :
        /\ phase[r] = "none" /\ Cardinality({s \in Runs : s > r /\ phase[s] # "none"}) <= 1
        /\ n = r \/ (n \in gone /\ Holder(n) = {})
        /\ name' = [name EXCEPT ![r] = n]
        /\ Change(r, "active") /\ UNCHANGED revived

finishAttempt ==
    \E r \in Runs \ gone, o \in Outcomes :
        phase[r] = "active" /\ Change(r, o) /\ UNCHANGED <<name, revived>>

\* A reconcile that starts the run works on a copy from before it was superseded
\* and patches the phase without looking.
restartAttempt ==
    \E r \in Runs \ (gone \union revived) :
        /\ phase[r] = "Superseded" /\ Cardinality(revived) < MaxRevived
        /\ Change(r, "active")
        /\ revived' = revived \union {r} /\ UNCHANGED name

syncRuns ==
    /\ log # <<>>
    /\ cache' = [cache EXCEPT ![Head(log)[1]] = Head(log)[2]]
    /\ log' = Tail(log)
    /\ UNCHANGED <<phase, name, gone, revived, mistaken, victims, forced>>

Next ==
    \/ reconcile \/ deleteVictim
    \/ stampAttempt \/ finishAttempt \/ restartAttempt
    \/ syncRuns

Spec == Init /\ [][Next]_vars

-----------------------------------------------------------------------------
(* Properties.                                                             *)

\* Those that have had the outcome o.
Ever(o) == With(phase, o) \union (IF o = "Superseded" THEN revived ELSE {})
Newest(S) == S \ Oldest(S, Less(Cardinality(S), MinRetainedPerOutcome))

\* An attempt that runs is not deleted, and, unless the cap was too small for
\* the floors, the newest attempts of every outcome stay, however old the list
\* is that a reconcile works from (selectVictims).  There are two exceptions,
\* against what promotionrun_gc_controller.go:15-17 says: an attempt that went
\* on after it was superseded may be deleted for what the list has of it, and
\* one that took the name of a victim that is gone is deleted in its place.
FloorKept ==
    /\ \A r \in gone \ (revived \union mistaken) : phase[r] \in Outcomes
    /\ forced \/ \A o \in Outcomes : gone \intersect Newest(Ever(o)) \subseteq revived \union mistaken

=============================================================================

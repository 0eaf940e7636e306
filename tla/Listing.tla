------------------------------- MODULE Listing -------------------------------
(***************************************************************************)
(* The reads of the Hub Gateway (GET /api/v1/graph) and of the Decision    *)
(* API (GET /api/v1/fleet and .../context): the objects of one resource    *)
(* after the other are listed page by page, those of the phase asked for   *)
(* are kept, and the answer says whether there were more than its limit,   *)
(* while the objects change.                                               *)
(*                                                                         *)
(* The Decision API reads from the API server, whose continue token names  *)
(* the state of the first page until it expires, and bounds the number of  *)
(* objects it looks at.  The Hub Gateway reads through the manager's       *)
(* client, that is from the informer cache, which gives some objects up to *)
(* the limit of the page and no token; the cache is taken to be current.   *)
(***************************************************************************)
EXTENDS Naturals, Sequences, FiniteSets, FiniteSetsExt

CONSTANTS
    Resources,   \* the sequence of resources the request lists
    Names,       \* names of objects, numbers in the order of listing
    Limit,       \* the limit of the request
    ScanFactor,  \* the Decision API looks at Limit times this many objects
    MaxChanges   \* bound: changes while the request runs

VARIABLES
    item,        \* whether each object exists and is of the phase asked for
    req,         \* the request
    always,      \* history: the objects asked for during the whole request
    ever,        \* history: the objects asked for at some time of it
    changes

vars == <<item, req, always, ever, changes>>

-----------------------------------------------------------------------------
wants == {Resources[i] : i \in DOMAIN Resources}
Items == wants \X Names
Asked == {x \in Items : item[x] = "asked"}

Request == [api : {"graph", "decision"}, at : 1..Len(Resources) + 1, pc : {"list", "answered", "failed"},
            from : Names \union {0},                \* the last name of the page before
            page : [Names -> {"absent", "asked", "other"}],  \* what the token names
            scanned : 0..Cardinality(Names),
            out : SUBSET Items, answer : SUBSET Items, truncated : BOOLEAN]

\* Every variable stays in its type.
TypeOK ==
    /\ item \in [Items -> {"absent", "asked", "other"}]
    /\ req \in Request
    /\ always \subseteq Items /\ ever \subseteq Items
    /\ changes \in 0..MaxChanges

Fresh == [from |-> 0, page |-> [n \in Names |-> "absent"], scanned |-> 0, out |-> {}]

Init ==
    /\ item \in [Items -> {"absent", "asked", "other"}]
    /\ \E api \in {"graph", "decision"} :
         req = [api |-> api, at |-> 1, pc |-> "list", answer |-> {}, truncated |-> FALSE,
                from |-> 0, page |-> Fresh.page, scanned |-> 0, out |-> {}]
    /\ always = Asked /\ ever = Asked
    /\ changes = 0

-----------------------------------------------------------------------------
Resource == Resources[req.at]
Current == [n \in Names |-> item[<<Resource, n>>]]

\* The state that a page is read from.
Snapshot == IF req.from = 0 THEN Current ELSE req.page

\* The names still to come, and those of the next page.
Rest == {n \in Names : n > req.from /\ Snapshot[n] # "absent"}
scanLimit == Max({Limit * ScanFactor, Limit + 1})
pageSize == Min({Limit + 1, scanLimit - req.scanned})
Page == {n \in Rest : Cardinality({k \in Rest : k <= n}) <= pageSize}
Kept(page) == {<<Resource, n>> : n \in {k \in page : Snapshot[k] = "asked"}}
First(out) == {x \in out : Cardinality({y \in out : y[2] <= x[2]}) <= Limit}

\* One resource is done: its objects go into the answer and the next one is
\* listed, or the answer is sent.
Done(out, truncated) ==
    req' = [req EXCEPT !.answer = @ \union out, !.truncated = @ \/ truncated,
                       !.at = @ + 1, !.pc = IF req.at = Len(Resources) THEN "answered" ELSE @,
                       !.from = Fresh.from, !.page = Fresh.page, !.scanned = Fresh.scanned,
                       !.out = Fresh.out]

listDecisionItems ==
    LET out == req.out \union Kept(Page)
        scanned == req.scanned + Cardinality(Page)
    IN  /\ req.pc = "list" /\ req.api = "decision"
        /\ IF Cardinality(out) > Limit THEN Done(First(out), TRUE)
           ELSE IF Rest = Page THEN Done(out, FALSE)
           ELSE IF scanned >= scanLimit THEN Done(out, TRUE)
           ELSE req' = [req EXCEPT !.page = Snapshot, !.from = Max(Page), !.out = out, !.scanned = scanned]
        /\ UNCHANGED <<item, always, ever, changes>>

\* The first page is the last one, and of no certain order.
listGraphItems ==
    /\ req.pc = "list" /\ req.api = "graph"
    /\ \E page \in kSubset(Min({Limit + 1, Cardinality(Rest)}), Rest) :
         Done(First(Kept(page)), Cardinality(Kept(page)) > Limit)
    /\ UNCHANGED <<item, always, ever, changes>>

\* The token has expired, or the call fails: the answer is an error.
failList ==
    /\ req.pc = "list" /\ req.from # 0
    /\ req' = [req EXCEPT !.pc = "failed"]
    /\ UNCHANGED <<item, always, ever, changes>>

\* An object is created or deleted or changes its phase.
changeItem(x) ==
    /\ req.pc = "list" /\ changes < MaxChanges /\ changes' = changes + 1
    /\ \E s \in {"absent", "asked", "other"} \ {item[x]} : item' = [item EXCEPT ![x] = s]
    /\ always' = always \intersect Asked' /\ ever' = ever \union Asked'
    /\ UNCHANGED req

Next ==
    \/ listDecisionItems \/ listGraphItems \/ failList
    \/ \E x \in Items : changeItem(x)

Spec == Init /\ [][Next]_vars

-----------------------------------------------------------------------------
(* Properties.                                                             *)

\* What the Decision API answers is honest: only objects that were asked for,
\* at most Limit of a resource and, where it does not say that it is truncated,
\* every object that was asked for all the time (listDecisionItems).
AnswerIsHonest ==
    req.pc = "answered" =>
       /\ req.answer \subseteq ever
       /\ \A i \in DOMAIN Resources :
            Cardinality({x \in req.answer : x[1] = Resources[i]}) <= Limit
       /\ req.api = "decision" /\ ~req.truncated => always \subseteq req.answer

=============================================================================

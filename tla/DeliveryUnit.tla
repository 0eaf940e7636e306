---------------------------- MODULE DeliveryUnit ----------------------------
(***************************************************************************)
(* The derivation of a DeliveryUnit (deliveryunit_controller.go): the      *)
(* Source that has its name, and one Trigger for each of its triggers.  A  *)
(* reconcile reads unit, Source and Triggers from caches that lag, makes   *)
(* one call per step and ends with a status patch; it is woken by events   *)
(* of the unit and of the objects that the unit owns.                      *)
(*                                                                         *)
(* Deletion of the unit itself is the garbage collector's work.            *)
(***************************************************************************)
EXTENDS Naturals, FiniteSets

CONSTANTS
    TriggerNames,  \* names that derived Triggers can have
    MaxGeneration, \* bound: edits of the unit
    MaxFaults      \* bound: failed calls, deletions and foreign objects

VARIABLES
    unit,     \* the DeliveryUnit
    useen,    \* the cached copy
    obj,      \* the Source and the Triggers
    oseen,    \* the cached copies
    events,   \* per object, the owners in its events that are on their way
    work,     \* the reconcile in progress
    queued,   \* the unit is in the work queue
    faults

objects == <<obj, oseen, events>>
vars == <<unit, useen, objects, work, queued, faults>>

-----------------------------------------------------------------------------
Objects == {"source"} \cup TriggerNames
Generation == 0..MaxGeneration

\* spec and status of the unit.  A unit is invalid when one of its triggers
\* has neither a fleet nor a default, or a name twice.
Unit == [generation : Generation, suspended : BOOLEAN, valid : BOOLEAN,
         triggers : SUBSET TriggerNames,
         ready : BOOLEAN, observed : Generation]

\* An object says whose it is and which spec of the unit it was derived from.
Object == [owner : {"none", "unit", "other"}, generation : Generation, suspended : BOOLEAN]
NoObject == [owner |-> "none", generation |-> 0, suspended |-> FALSE]

Work == [pc   : {"idle", "source", "triggers", "prune", "suspend", "status"},
         copy : Unit,
         todo : SUBSET TriggerNames,   \* Triggers of the current loop to come
         outcome : {"Derived", "Suspended", "Failed"}]

\* Every variable stays in its type.
TypeOK ==
    /\ unit \in Unit /\ useen \in Unit
    /\ obj \in [Objects -> Object] /\ oseen \in [Objects -> Object]
    /\ events \in [Objects -> SUBSET {"unit", "other"}]
    /\ work \in Work /\ queued \in BOOLEAN
    /\ faults \in 0..MaxFaults

NewUnit == [generation |-> 0, suspended |-> FALSE, valid |-> TRUE, triggers |-> {},
            ready |-> FALSE, observed |-> 0]
Idle == [pc |-> "idle", copy |-> NewUnit, todo |-> {}, outcome |-> "Derived"]

Init ==
    /\ unit = NewUnit /\ useen = NewUnit
    /\ obj = [o \in Objects |-> NoObject] /\ oseen = obj
    /\ events = [o \in Objects |-> {}]
    /\ work = Idle /\ queued = TRUE /\ faults = 0

Fault ==
    /\ faults < MaxFaults
    /\ faults' = faults + 1

\* A write of an object; one that changes nothing makes no event.
Write(o, new) ==
    /\ obj' = [obj EXCEPT ![o] = new]
    /\ events' = [events EXCEPT ![o] =
                    IF obj[o] = new THEN @ ELSE @ \cup ({obj[o].owner, new.owner} \ {"none"})]

-----------------------------------------------------------------------------
(* The reconcile.                                                          *)

\* suspendDerivedTriggers lists the Triggers that it will suspend.
Running == {t \in TriggerNames : oseen[t].owner = "unit" /\ ~oseen[t].suspended}

reconcile ==
    /\ work.pc = "idle" /\ queued
    /\ queued' = FALSE
    /\ work' = IF useen.suspended
               THEN [pc |-> "suspend", copy |-> useen, todo |-> Running, outcome |-> "Suspended"]
               ELSE [pc |-> "source", copy |-> useen, todo |-> {}, outcome |-> "Derived"]
    /\ UNCHANGED <<unit, useen, objects, faults>>

Failed == [work EXCEPT !.pc = "status", !.outcome = "Failed"]

\* Server-side apply with forced ownership, after a look at the cached object.
Apply(o, next) ==
    \/ /\ oseen[o].owner # "other"
       /\ Write(o, [owner |-> "unit", generation |-> work.copy.generation, suspended |-> FALSE])
       /\ work' = next
       /\ UNCHANGED faults
    \/ /\ oseen[o].owner = "other"
       /\ work' = Failed
       /\ UNCHANGED <<obj, events, faults>>
    \/ Fault /\ work' = Failed /\ UNCHANGED <<obj, events>>

\* The Triggers are derived, all of them, before the first is applied.
reconcileSource ==
    /\ work.pc = "source"
    /\ Apply("source", IF work.copy.valid
                       THEN [work EXCEPT !.pc = "triggers", !.todo = work.copy.triggers]
                       ELSE Failed)
    /\ UNCHANGED <<unit, useen, oseen, queued>>

reconcileTrigger(t) ==
    /\ work.pc = "triggers" /\ t \in work.todo
    /\ Apply(t, [work EXCEPT !.todo = @ \ {t}])
    /\ UNCHANGED <<unit, useen, oseen, queued>>

\* The list of what is to be pruned.
listStale ==
    /\ work.pc = "triggers" /\ work.todo = {}
    /\ work' = [work EXCEPT !.pc = "prune",
                  !.todo = {t \in TriggerNames \ work.copy.triggers : oseen[t].owner = "unit"}]
    /\ UNCHANGED <<unit, useen, objects, queued, faults>>

pruneStaleTrigger(t) ==
    /\ work.pc = "prune" /\ t \in work.todo
    /\ \/ /\ Write(t, NoObject)
          /\ work' = [work EXCEPT !.todo = @ \ {t}]
          /\ UNCHANGED faults
       \/ Fault /\ work' = Failed /\ UNCHANGED <<obj, events>>
    /\ UNCHANGED <<unit, useen, oseen, queued>>

\* The Trigger is applied as it was cached; one that has gone comes back.
suspendDerivedTrigger(t) ==
    /\ work.pc = "suspend" /\ t \in work.todo
    /\ \/ /\ Write(t, [owner |-> "unit", generation |-> oseen[t].generation, suspended |-> TRUE])
          /\ work' = [work EXCEPT !.todo = @ \ {t}]
          /\ UNCHANGED faults
       \/ Fault /\ work' = Failed /\ UNCHANGED <<obj, events>>
    /\ UNCHANGED <<unit, useen, oseen, queued>>

\* The merge patch has what differs from the copy.  Only success and a
\* suspension end without another reconcile.
patchStatus ==
    /\ work.pc = "status" \/ (work.pc \in {"prune", "suspend"} /\ work.todo = {})
    /\ LET ready == work.outcome = "Derived"
       IN  \/ /\ unit' = [unit EXCEPT
                    !.ready    = IF ready = work.copy.ready THEN @ ELSE ready,
                    !.observed = IF work.copy.generation = work.copy.observed THEN @
                                 ELSE work.copy.generation]
              /\ queued' = (queued \/ work.outcome = "Failed")
              /\ UNCHANGED faults
           \/ Fault /\ queued' = TRUE /\ UNCHANGED unit
    /\ work' = Idle
    /\ UNCHANGED <<useen, objects>>

-----------------------------------------------------------------------------
(* The others.                                                             *)

\* A user edits the unit.
editUnit ==
    /\ unit.generation < MaxGeneration
    /\ \E s \in BOOLEAN, v \in BOOLEAN, ts \in SUBSET TriggerNames :
          unit' = [unit EXCEPT !.generation = @ + 1, !.suspended = s, !.valid = v, !.triggers = ts]
    /\ UNCHANGED <<useen, objects, work, queued, faults>>

\* Somebody deletes an object, or makes one of his own under a free name.
meddle ==
    /\ Fault
    /\ \E o \in Objects :
          Write(o, IF obj[o].owner = "none" THEN [NoObject EXCEPT !.owner = "other"] ELSE NoObject)
    /\ UNCHANGED <<unit, useen, oseen, work, queued>>

\* The watch of the unit, which sees status updates too.
syncUnit ==
    /\ useen # unit
    /\ useen' = unit
    /\ queued' = TRUE
    /\ UNCHANGED <<unit, objects, work, faults>>

\* The watches of the objects: an event wakes the controller of the object's
\* owner, before or after the change.  Events on their way are delivered
\* together.
syncObject(o) ==
    /\ events[o] # {}
    /\ oseen' = [oseen EXCEPT ![o] = obj[o]]
    /\ events' = [events EXCEPT ![o] = {}]
    /\ queued' = (queued \/ "unit" \in events[o])
    /\ UNCHANGED <<unit, useen, obj, work, faults>>

Reconcile ==
    \/ reconcile \/ reconcileSource \/ listStale \/ patchStatus
    \/ \E t \in TriggerNames : reconcileTrigger(t) \/ pruneStaleTrigger(t) \/ suspendDerivedTrigger(t)

Next ==
    \/ Reconcile
    \/ editUnit \/ meddle \/ syncUnit
    \/ \E o \in Objects : syncObject(o)

Spec == Init /\ [][Next]_vars

-----------------------------------------------------------------------------
(* Properties.                                                             *)

Conflict == \E o \in {"source"} \cup unit.triggers : obj[o].owner = "other"

\* The objects are what the unit asks for.  While the unit is invalid or a name
\* is taken the derivation stands still and the unit is not ready.
Derived ==
    IF unit.suspended
    THEN \A t \in TriggerNames : obj[t].owner = "unit" => obj[t].suspended
    ELSE IF ~unit.valid \/ Conflict THEN ~unit.ready
    ELSE /\ \A t \in TriggerNames : obj[t].owner = "unit" <=> t \in unit.triggers
         /\ \A o \in {"source"} \cup unit.triggers :
               obj[o].generation = unit.generation /\ ~obj[o].suspended
         /\ unit.ready /\ unit.observed = unit.generation

\* Once the edits end, the Source and the Triggers come to what the unit asks
\* for and stay so: every one that the unit names exists, none that it does not
\* name survives, and all are suspended when the unit is, although lists come
\* from caches that miss a Trigger applied a moment ago and a suspended or
\* derived unit is not requeued (Reconcile, SetupWithManager's Owns).
DerivationFollows == <>[]Derived
=============================================================================

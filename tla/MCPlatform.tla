----------------------------- MODULE MCPlatform -----------------------------
(***************************************************************************)
(* What is around a rollout: where its versions come from (Trigger), what  *)
(* is derived from users' objects (DeliveryUnit, Plugin, Substrate), which *)
(* clusters come first (Planner), and what is kept, archived and listed of *)
(* it (Retention, Archive, Listing).                                       *)
(* They share no state, so a behaviour is one of any of them: part says of *)
(* which, and the others stay as they begin.                               *)
(***************************************************************************)
EXTENDS Integers, Sequences, TLC

CONSTANTS
    None,
    Parts   \* the modules that run

VARIABLES
    part, faults,
    registry, spec, status, tseen, promo, pseen, run, active, job, tqueued, timer, edits,
    unit, useen, obj, oseen, events, uwork, uqueued,
    plugin, plseen, up, adapter, operator, plwork, plqueued,
    class, cseen, substrate, sseen, policy, poseen, world, swork, squeued, sedits,
    plugins, cluster, cycle, target, stage, published, changes,
    phase, name, gone, revived, mistaken, log, cache, victims, forced,
    sink, files, publish, request,
    item, req, always, ever, lichanges

-----------------------------------------------------------------------------
\* A tag that is no version and one that is, each of which may be moved.
Tags == {"rc", "2.0"}
Parsed == ("rc" :> [sem |-> 0, name |-> 1]) @@ ("2.0" :> [sem |-> 2, name |-> 2])
Digests == {"good", "bad"}
Signed == {"good"}

T == INSTANCE Trigger WITH queued <- tqueued, Cooldown <- 1, MaxEdits <- 1, MaxFaults <- 1

U == INSTANCE DeliveryUnit WITH
        work <- uwork, queued <- uqueued, TriggerNames <- {"t1"}, MaxGeneration <- 2, MaxFaults <- 1

G == INSTANCE Plugin WITH
        seen <- plseen, work <- plwork, queued <- plqueued, Keys <- {"gate/a", "planner/a"},
        MaxGeneration <- 2, MaxFaults <- 2

\* A substrate that discovers objects and one that does not; the second
\* inventory is over the limit.
Substrate(kind, classRef, mode, config, discovery) ==
    [kind |-> kind, classRef |-> classRef, mode |-> mode, config |-> config, discovery |-> discovery,
     selectorValid |-> TRUE]

S == INSTANCE Substrate WITH
        pseen <- poseen, work <- swork, queued <- squeued, edits <- sedits, MaxEdits <- 1, MaxFaults <- 1,
        Specs <- {Substrate("argo", TRUE, "", "ArgoCDSubstrateConfig", TRUE),
                  Substrate("external", FALSE, "", "", FALSE)},
        ClassModes <- {"", "spoke-pull"},
        PolicySpecs <- {[expected |-> "argo", dryRun |-> TRUE, selector |-> FALSE]},
        Inventories <- {[argo |-> <<1, 1, -2>>, flux |-> <<0, 1, -2, 1, 0>>],
                        [argo |-> <<1, 3, 0>>, flux |-> <<0, 3, -1, 1, 0>>]},
        Limit <- 2

\* Two plugins whose scores add up to more than MaxScore; one place.
P == INSTANCE Planner WITH
        Clusters <- {1, 2}, Plugins <- {"p", "q"}, Scores <- {60}, MaxScore <- 100,
        MaxParallel <- 1, MaxChanges <- 1, MaxFaults <- 1

R == INSTANCE Retention WITH
        MaxRuns <- 3, MaxRetainedPerPromotion <- 1, MinRetainedPerOutcome <- 1,
        MaxDeletesPerReconcile <- 1, MaxLag <- 2, MaxRevived <- 1

A == INSTANCE Archive WITH Sinks <- {"file", "s3"}, MaxRetries <- 2, MaxFaults <- 3

\* The answer of one resource is cut before the next is listed.
I == INSTANCE Listing WITH
        changes <- lichanges, Resources <- <<"clusters", "targets">>, Names <- 1..3, Limit <- 1,
        ScanFactor <- 3, MaxChanges <- 1

-----------------------------------------------------------------------------
trigger == <<registry, spec, status, tseen, promo, pseen, run, active, job, tqueued, timer, edits>>
units == <<unit, useen, obj, oseen, events, uwork, uqueued>>
plug == <<plugin, plseen, up, adapter, operator, plwork, plqueued>>
sub == <<class, cseen, substrate, sseen, policy, poseen, world, swork, squeued, sedits>>
planner == <<plugins, cluster, cycle, target, stage, published, changes>>
retention == <<phase, name, gone, revived, mistaken, log, cache, victims, forced>>
archive == <<sink, files, publish, request>>
listing == <<item, req, always, ever, lichanges>>
vars == <<part, faults, trigger, units, plug, sub, planner, retention, archive, listing>>

Init ==
    /\ part \in Parts
    /\ faults = 0
    /\ T!Init /\ registry["rc"] = (IF spec.required THEN "good" ELSE None) /\ (part # "trigger" => spec.required)
    /\ U!Init /\ G!Init /\ plugin.key = "gate/a" /\ R!Init
    /\ S!Init /\ (part # "substrate" =>
                    class.exists /\ substrate.spec.kind = "argo" /\ world.lists.argo[2] = 1)
    /\ P!Init /\ (part # "planner" => plugins = {})
    /\ A!Init /\ (part # "archive" => sink = "s3")
    /\ I!Init /\ (part # "listing" => ever = {} /\ \A x \in I!Items : item[x] = "absent"
                                       /\ req.api = "graph")

Next ==
    /\ UNCHANGED part
    /\ \/ part = "trigger" /\ T!Next
          /\ UNCHANGED <<units, plug, sub, planner, retention, archive, listing>>
       \/ part = "unit" /\ U!Next
          /\ UNCHANGED <<trigger, plug, sub, planner, retention, archive, listing>>
       \/ part = "plugin" /\ G!Next
          /\ UNCHANGED <<trigger, units, sub, planner, retention, archive, listing>>
       \/ part = "substrate" /\ S!Next
          /\ UNCHANGED <<trigger, units, plug, planner, retention, archive, listing>>
       \/ part = "planner" /\ P!Next
          /\ UNCHANGED <<trigger, units, plug, sub, retention, archive, listing>>
       \/ part = "retention" /\ R!Next
          /\ UNCHANGED <<faults, trigger, units, plug, sub, planner, archive, listing>>
       \/ part = "archive" /\ A!Next
          /\ UNCHANGED <<trigger, units, plug, sub, planner, retention, listing>>
       \/ part = "listing" /\ I!Next
          /\ UNCHANGED <<faults, trigger, units, plug, sub, planner, retention, archive>>

\* Work queues hand out their keys and informers deliver.
\* Trigger: it polls, time passes and runs end.  Plugin: the start-up goes on.
\* Planner: the run is requeued, targets end.
Spec ==
    /\ Init /\ [][Next]_vars
    /\ WF_(T!vars)(part = "trigger" /\ T!Reconcile)
    /\ WF_(T!vars)(part = "trigger" /\ T!poll)
    /\ WF_(T!vars)(part = "trigger" /\ T!syncTrigger)
    /\ WF_(T!vars)(part = "trigger" /\ T!syncPromotion)
    /\ WF_(T!vars)(part = "trigger" /\ T!syncRuns)
    /\ WF_(T!vars)(part = "trigger" /\ T!tick)
    /\ WF_(T!vars)(part = "trigger" /\ T!endRun)
    /\ WF_(U!vars)(part = "unit" /\ U!Reconcile)
    /\ WF_(U!vars)(part = "unit" /\ U!syncUnit)
    /\ \A o \in U!Objects : WF_(U!vars)(part = "unit" /\ U!syncObject(o))
    /\ WF_(G!vars)(part = "plugin" /\ G!Reconcile)
    /\ WF_(G!vars)(part = "plugin" /\ G!syncPlugin)
    /\ WF_(G!vars)(part = "plugin" /\ G!RegisterReady)
    /\ WF_(S!vars)(part = "substrate" /\ S!reconcileClass)
    /\ WF_(S!vars)(part = "substrate" /\ (S!reconcileSubstrate \/ S!patchSubstrate))
    /\ WF_(S!vars)(part = "substrate" /\ S!reconcilePolicy)
    /\ WF_(S!vars)(part = "substrate" /\ S!syncClass)
    /\ WF_(S!vars)(part = "substrate" /\ S!syncConfig)
    /\ WF_(S!vars)(part = "substrate" /\ S!syncSubstrate)
    /\ WF_(S!vars)(part = "substrate" /\ S!syncPolicy)
    /\ WF_(P!vars)(part = "planner" /\ P!Reconcile)
    /\ \A c \in 1..2 : WF_(P!vars)(part = "planner" /\ P!endTarget(c))

-----------------------------------------------------------------------------
\* Every variable stays in its type.
TypeOK ==
    /\ part = "trigger" => T!TypeOK
    /\ part = "unit" => U!TypeOK
    /\ part = "plugin" => G!TypeOK
    /\ part = "substrate" => S!TypeOK
    /\ part = "planner" => P!TypeOK
    /\ part = "retention" => R!TypeOK
    /\ part = "archive" => A!TypeOK
    /\ part = "listing" => I!TypeOK

\* The behaviour is one of module p.
Runs(p) == []<>(part = p)

\* A Trigger that requires a signature promotes only what it has verified, a
\* Trigger promotes no sooner than its cooldown allows unless it is about to
\* create the Promotion, and the latest artifact in the end (Trigger).
TriggerPromotes ==
    /\ [](part = "trigger" => T!PromotedIsVerified)
    /\ [][T!PromotionIsSpaced]_(T!vars)
    /\ Runs("trigger") => T!LatestIsPromoted

\* What controllers derive follows what it is derived from: Sources and
\* Triggers (DeliveryUnit), the adapter of a plugin's key (Plugin), what is
\* discovered (Substrate).
DerivedFollows ==
    /\ Runs("unit") => U!DerivationFollows
    /\ Runs("plugin") => G!AdapterFollows
    /\ Runs("substrate") => S!StatusFollows

\* A plan is what the plugins of its cycle have agreed on, and the stage ends
\* (Planner).
StagesArePlanned ==
    /\ [](part = "planner" => P!PlanIsAgreed)
    /\ Runs("planner") => P!StageEnds

\* The newest attempts of every outcome are kept (Retention), what was taken for
\* archived is archived (Archive), what is listed without a mark of truncation
\* is all there is (Listing).
RecordsAreKept == R!FloorKept /\ A!DeliveredIsArchived /\ I!AnswerIsHonest
=============================================================================

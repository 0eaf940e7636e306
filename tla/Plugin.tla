------------------------------- MODULE Plugin -------------------------------
(***************************************************************************)
(* One external plugin and its runtime adapter: PluginReconciler           *)
(* (plugin_controller.go), which probes the endpoint of a Plugin, records  *)
(* its readiness and loads or unloads the adapter, and the registrar of    *)
(* internal/plugin/adapter, which also loads the ready plugins when the    *)
(* operator starts.  The plugin gateway is enabled.                        *)
(***************************************************************************)
EXTENDS Naturals

CONSTANTS
    Keys,           \* pairs of spec.type and spec.name, by which adapters are registered
    MaxGeneration,  \* bound: edits of the Plugin's spec
    MaxFaults       \* bound: changes of the endpoint, failed calls, restarts

VARIABLES
    plugin,    \* the Plugin, with its resource version
    seen,      \* the cached copy
    up,        \* the endpoint answers
    adapter,   \* the adapters in the registries
    operator,  \* the operator runs, or is still starting
    work,      \* the reconcile in progress
    queued,    \* the Plugin is in the work queue
    faults

vars == <<plugin, seen, up, adapter, operator, work, queued, faults>>

-----------------------------------------------------------------------------
Generation == 0..MaxGeneration

\* compatible stands for the spec: its type, protocol and timeout are valid,
\* its TLS material loads, and what is at its endpoint speaks a contract
\* version that is supported.
Plugin == [phase      : {"live", "deleting", "gone"},
           key        : Keys,
           generation : Generation, compatible : BOOLEAN,
           finalizer  : BOOLEAN,
           ready      : BOOLEAN, observed : Generation]
NewPlugin(k) == [phase |-> "live", key |-> k, generation |-> 0, compatible |-> TRUE,
                 finalizer |-> FALSE, ready |-> FALSE, observed |-> 0]

Work == [pc : {"idle", "finalizer", "probe", "patch", "runtime"},
         copy : Plugin, current : BOOLEAN,   \* the copy has the latest version
         result : BOOLEAN,                   \* what the probe found
         wasReady : BOOLEAN]
Idle == [pc |-> "idle", copy |-> NewPlugin(CHOOSE k \in Keys : TRUE), current |-> FALSE,
         result |-> FALSE, wasReady |-> FALSE]

Adapter == [on : BOOLEAN, generation : Generation]
NoAdapter == [on |-> FALSE, generation |-> 0]
Unloaded == [k \in Keys |-> NoAdapter]

\* Every variable stays in its type.
TypeOK ==
    /\ plugin \in Plugin /\ seen \in Plugin
    /\ up \in BOOLEAN /\ adapter \in [Keys -> Adapter]
    /\ operator \in {"running", "starting"}
    /\ work \in Work /\ queued \in BOOLEAN
    /\ faults \in 0..MaxFaults

Init ==
    /\ plugin \in {NewPlugin(k) : k \in Keys} /\ seen = plugin
    /\ up = TRUE /\ adapter = Unloaded /\ operator = "running"
    /\ work = Idle /\ queued = TRUE /\ faults = 0

Fault ==
    /\ faults < MaxFaults
    /\ faults' = faults + 1

\* A write of the Plugin by others outdates the copy in hand.
Outdated == [work EXCEPT !.current = FALSE]

isRuntimeReady(p) == p.ready /\ p.observed = p.generation

Probe(p) == up /\ p.compatible

-----------------------------------------------------------------------------
(* The reconcile.                                                          *)

\* A deleted Plugin is unloaded at once, by the key of the copy, and gives up
\* its finalizer; the update fails when the copy is old.
reconcileDeleted ==
    /\ work.pc = "idle" /\ operator = "running" /\ queued /\ seen.phase = "deleting"
    /\ adapter' = [adapter EXCEPT ![seen.key] = NoAdapter]
    /\ IF seen = plugin
       THEN plugin' = [plugin EXCEPT !.phase = "gone"] /\ queued' = FALSE
       ELSE UNCHANGED <<plugin, queued>>
    /\ UNCHANGED <<seen, up, operator, work, faults>>

reconcile ==
    /\ work.pc = "idle" /\ operator = "running" /\ queued
    /\ queued' = FALSE
    /\ \/ seen.phase = "gone" /\ UNCHANGED work
       \/ /\ seen.phase = "live"
          /\ work' = [Idle EXCEPT !.pc = IF seen.finalizer THEN "probe" ELSE "finalizer",
                                  !.copy = seen, !.current = seen = plugin]
    /\ UNCHANGED <<plugin, seen, up, adapter, operator, faults>>

\* The finalizer is added with a conditional update.
addFinalizer ==
    /\ work.pc = "finalizer"
    /\ IF work.current
       THEN /\ plugin' = [plugin EXCEPT !.finalizer = TRUE]
            /\ work' = [work EXCEPT !.pc = "probe", !.copy.finalizer = TRUE]
            /\ UNCHANGED queued
       ELSE work' = Idle /\ queued' = TRUE /\ UNCHANGED plugin
    /\ UNCHANGED <<seen, up, adapter, operator, faults>>

probe ==
    /\ work.pc = "probe"
    /\ work' = [work EXCEPT !.pc = "patch", !.result = Probe(work.copy),
                            !.wasReady = isRuntimeReady(work.copy)]
    /\ UNCHANGED <<plugin, seen, up, adapter, operator, queued, faults>>

\* The merge patch has what differs from the copy, and brings back the Plugin
\* as it is then.  A Plugin that is gone, and a failed call, end the reconcile.
patchStatus ==
    /\ work.pc = "patch"
    /\ LET patched == [plugin EXCEPT
             !.ready    = IF work.result = work.copy.ready THEN @ ELSE work.result,
             !.observed = IF work.copy.generation = work.copy.observed THEN @ ELSE work.copy.generation]
       IN  \/ /\ plugin.phase # "gone"
              /\ plugin' = patched
              /\ work' = [work EXCEPT !.pc = "runtime", !.copy = patched, !.current = TRUE]
              /\ UNCHANGED <<queued, faults>>
           \/ /\ plugin.phase = "gone"
              /\ work' = Idle /\ queued' = TRUE /\ UNCHANGED <<plugin, faults>>
           \/ Fault /\ work' = Idle /\ queued' = TRUE /\ UNCHANGED plugin
    /\ UNCHANGED <<seen, up, adapter, operator>>

\* The adapter is loaded when the Plugin is ready, over the one with its key; the
\* endpoint is dialled again for that.  It is unloaded when the Plugin was ready
\* before this reconcile and is no longer.  Nothing unloads the adapter of a key
\* that the Plugin had before.  The next probe is in five minutes.
updateRuntime ==
    /\ work.pc = "runtime"
    /\ adapter' = [adapter EXCEPT ![work.copy.key] =
          IF isRuntimeReady(work.copy)
          THEN IF up THEN [on |-> TRUE, generation |-> work.copy.generation] ELSE @
          ELSE IF work.wasReady THEN NoAdapter ELSE @]
    /\ work' = Idle /\ queued' = TRUE
    /\ UNCHANGED <<plugin, seen, up, operator, faults>>

-----------------------------------------------------------------------------
(* The operator's start.                                                   *)

restart ==
    /\ Fault /\ operator = "running"
    /\ operator' = "starting" /\ adapter' = Unloaded
    /\ work' = Idle
    /\ UNCHANGED <<plugin, seen, up, queued>>

\* RegisterReady reads the Plugins from the API server.  One that is recorded
\* as ready and does not answer fails the start, which is tried again.
RegisterReady ==
    /\ operator = "starting"
    /\ plugin.phase # "gone" /\ isRuntimeReady(plugin) => up
    /\ adapter' = IF plugin.phase # "gone" /\ isRuntimeReady(plugin)
                  THEN [Unloaded EXCEPT ![plugin.key] = [on |-> TRUE, generation |-> plugin.generation]]
                  ELSE Unloaded
    /\ operator' = "running" /\ queued' = TRUE
    /\ seen' = plugin
    /\ UNCHANGED <<plugin, up, work, faults>>

-----------------------------------------------------------------------------
(* The others.                                                             *)

editPlugin ==
    /\ plugin.phase = "live" /\ plugin.generation < MaxGeneration
    /\ \E c \in BOOLEAN, k \in Keys :
          plugin' = [plugin EXCEPT !.generation = @ + 1, !.compatible = c, !.key = k]
    /\ work' = Outdated
    /\ UNCHANGED <<seen, up, adapter, operator, queued, faults>>

deletePlugin ==
    /\ plugin.phase = "live"
    /\ plugin' = [plugin EXCEPT !.phase = IF plugin.finalizer THEN "deleting" ELSE "gone"]
    /\ work' = Outdated
    /\ UNCHANGED <<seen, up, adapter, operator, queued, faults>>

\* The endpoint goes down, or comes back.
flap ==
    /\ Fault
    /\ up' = ~up
    /\ UNCHANGED <<plugin, seen, adapter, operator, work, queued>>

syncPlugin ==
    /\ operator = "running" /\ seen # plugin
    /\ seen' = plugin /\ queued' = TRUE
    /\ UNCHANGED <<plugin, up, adapter, operator, work, faults>>

Reconcile == reconcileDeleted \/ reconcile \/ addFinalizer \/ probe \/ patchStatus \/ updateRuntime

Next ==
    \/ Reconcile \/ restart \/ RegisterReady
    \/ editPlugin \/ deletePlugin \/ flap \/ syncPlugin

Spec == Init /\ [][Next]_vars

-----------------------------------------------------------------------------
(* Properties.                                                             *)

\* A plugin that answers and is compatible ends up loaded from its latest spec,
\* also after edits, outages and restarts; a deleted one ends up unloaded, also
\* when the delete comes between a probe and the load (Reconcile,
\* RegisterReady).  This is about the key of the latest spec: what was loaded
\* under an earlier type or name stays until the operator restarts.
AdapterFollows ==
    <>[](/\ plugin.phase = "live" /\ Probe(plugin) =>
                adapter[plugin.key] = [on |-> TRUE, generation |-> plugin.generation]
         /\ plugin.phase = "gone" => ~adapter[plugin.key].on)

=============================================================================

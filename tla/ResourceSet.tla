----------------------------- MODULE ResourceSet -----------------------------
(***************************************************************************)
(* The ResourceSet of a push-mode Flux Fleet: buildResourceSet and the     *)
(* values it merges for every cluster (internal/controller/                *)
(* fleet_controller.go), applied with force at every reconcile of the      *)
(* Fleet, and the version a promotion writes into the same inputs          *)
(* (internal/actuator/fluxoperator).                                       *)
(*                                                                         *)
(* Values are JSON objects of two levels: a key is absent, a scalar, or an *)
(* object with subkeys.  The first level of the values has a key for each  *)
(* unit.  The races of the actuator's own patch are in Push.               *)
(***************************************************************************)
EXTENDS Naturals, Sequences, FiniteSets, FiniteSetsExt, SequencesExt

CONSTANTS
    Clusters,   \* clusters of the Fleet
    LabelsOf,   \* the labels of each cluster
    Keys,       \* keys of the first level
    Subkeys,    \* keys of the second level
    Scalars,    \* scalars, numbers above 0
    Versions,   \* versions, numbers above 0; 0 is an empty version
    Sources,    \* the Sources to start from
    MaxEdits    \* bound: edits of the Source and promotions

VARIABLES
    source,     \* the Source
    set,        \* the inputs of the ResourceSet, one for each cluster
    pass,       \* the Source that a reconcile of the Fleet has read
    promoted,   \* the version promoted last to each cluster, 0 for none
    edits

vars == <<source, set, pass, promoted, edits>>

-----------------------------------------------------------------------------
Value == [kind : {"absent", "scalar", "object"}, scalar : Scalars \cup {0},
          object : [Subkeys -> Scalars \cup {0}]]
Values == [Keys -> Value]

Blank == [s \in Subkeys |-> 0]
Absent == [kind |-> "absent", scalar |-> 0, object |-> Blank]
Object(f) == [kind |-> "object", scalar |-> 0, object |-> f]

\* A SourceOverride: its clusters, its selector, its unit, "" for none, and its
\* values, which are at the unit's key if it has a unit.
Override == [clusters : SUBSET Clusters, selector : SUBSET UNION {LabelsOf[c] : c \in Clusters},
             unit : Keys \cup {""}, values : Values]
Source == [units : Seq(Versions \cup {0}), defaults : Values, overrides : Seq(Override)]
Input == [version : Versions \cup {0}, values : Values]

NoSet == [none |-> TRUE]

\* Every variable stays in its type.
TypeOK ==
    /\ source \in Source
    /\ set = NoSet \/ set \in [Clusters -> Input]
    /\ pass = NoSet \/ pass \in Source
    /\ promoted \in [Clusters -> Versions \cup {0}]
    /\ edits \in 0..MaxEdits

Init ==
    /\ source \in Sources
    /\ set = NoSet /\ pass = NoSet
    /\ promoted = [c \in Clusters |-> 0]
    /\ edits = 0

-----------------------------------------------------------------------------
(* The values of a cluster.                                                *)

\* Nested objects are merged, everything else is replaced.
deepMerge(dst, src) ==
    [k \in Keys |->
        IF src[k].kind = "absent" THEN dst[k]
        ELSE IF src[k].kind = "object" /\ dst[k].kind = "object"
        THEN Object([s \in Subkeys |-> IF src[k].object[s] # 0 THEN src[k].object[s]
                                       ELSE dst[k].object[s]])
        ELSE src[k]]

\* Fault: one label of the selector is enough.
AnyLabelMatches(ov, c) ==
    IF ov.clusters # {} THEN c \in ov.clusters
    ELSE ov.selector = {} \/ ov.selector \cap LabelsOf[c] # {}

\* The list of clusters goes before the selector.
overrideMatches(ov, c) ==
    IF ov.clusters # {} THEN c \in ov.clusters ELSE ov.selector \subseteq LabelsOf[c]

\* The defaults, then every override that matches, in order; one with a unit
\* goes below the unit's key, unless a scalar is there.
mergeValues(src, c) ==
    FoldLeft(LAMBDA merged, ov :
               IF ~overrideMatches(ov, c) THEN merged
               ELSE IF ov.unit # "" /\ merged[ov.unit].kind = "scalar" THEN merged
               ELSE deepMerge(merged, ov.values),
             src.defaults, src.overrides)

\* The version of the first unit that has one.
promotionSourcePrimaryVersion(src) ==
    LET with == {i \in DOMAIN src.units : src.units[i] # 0}
    IN  IF with = {} THEN 0 ELSE src.units[Min(with)]

buildResourceSet(src) ==
    [c \in Clusters |-> [version |-> promotionSourcePrimaryVersion(src), values |-> mergeValues(src, c)]]

-----------------------------------------------------------------------------
(* The steps.                                                              *)

reconcileFleet ==
    /\ pass = NoSet
    /\ pass' = source
    /\ UNCHANGED <<source, set, promoted, edits>>

\* The ResourceSet is applied as a whole, whoever owns its fields.
applyResourceSet ==
    /\ pass # NoSet
    /\ set' = buildResourceSet(pass)
    /\ pass' = NoSet
    /\ UNCHANGED <<source, promoted, edits>>

Edit == edits < MaxEdits /\ edits' = edits + 1

\* A promotion has its version written into the cluster's input.
ApplyDelta(c, v) ==
    /\ Edit /\ set # NoSet /\ v # promoted[c]
    /\ set' = [set EXCEPT ![c].version = v]
    /\ promoted' = [promoted EXCEPT ![c] = v]
    /\ UNCHANGED <<source, pass>>

\* external: a user takes back the last override or changes the order of two,
\* or releases the units at another version.
editSource ==
    /\ Edit
    /\ \/ source.overrides # <<>> /\ source' = [source EXCEPT !.overrides = Front(@)]
       \/ Len(source.overrides) = 2 /\ source' = [source EXCEPT !.overrides = Reverse(@)]
       \/ \E i \in DOMAIN source.units, v \in Versions \cup {0} : source' = [source EXCEPT !.units[i] = v]
    /\ UNCHANGED <<set, pass, promoted>>

Next ==
    \/ reconcileFleet \/ applyResourceSet \/ editSource
    \/ \E c \in Clusters, v \in Versions : ApplyDelta(c, v)

Spec == Init /\ [][Next]_vars

-----------------------------------------------------------------------------
(* Properties.                                                             *)

\* What the layers say of a key, without merging them: the layers that matter
\* are those of the cluster, and a layer of a unit is void where the layer that
\* counts before it has a scalar.  The last layer without a unit that has a
\* scalar ends what was before it; of the objects after it, the last one that
\* has a subkey gives its value.
Layers(src, c) ==
    <<[unit |-> "", values |-> src.defaults]>>
       \o [i \in DOMAIN src.overrides |->
             LET ov == src.overrides[i] IN
             IF (ov.clusters = {} /\ \A l \in ov.selector : l \in LabelsOf[c]) \/ c \in ov.clusters
             THEN [unit |-> ov.unit, values |-> ov.values]
             ELSE [unit |-> "", values |-> [k \in Keys |-> Absent]]]

Effective(src, c, k) ==
    LET layers == Layers(src, c)
        kind(i) == layers[i].values[k].kind
        latest(S) == Max(S \cup {0})
        general == {i \in DOMAIN layers : layers[i].unit = "" /\ kind(i) # "absent"}
        onScalar(i) == \E g \in general : g < i /\ kind(g) = "scalar" /\ ~\E h \in general : g < h /\ h < i
        counting == {i \in DOMAIN layers : kind(i) # "absent" /\ (i \in general \/ ~onScalar(i))}
        base == latest({i \in counting : kind(i) = "scalar"})
        after == {i \in counting : i > base}
        last(s) == latest({i \in after : layers[i].values[k].object[s] # 0})
    IN  IF counting = {} THEN Absent
        ELSE IF after = {} THEN layers[base].values[k]
        ELSE Object([s \in Subkeys |-> IF last(s) = 0 THEN 0 ELSE layers[last(s)].values[k].object[s]])

\* In the end every cluster's input has the values that the Source gives it by
\* this reading, and those of no other cluster (mergeValues).
ValuesFollow ==
    <>[](set # NoSet /\ \A c \in Clusters, k \in Keys : set[c].values[k] = Effective(source, c, k))

\* Version of a Source's unit "is the package/catalog default; the per-rollout
\* target version comes from Promotion.spec.version" (source_types.go): what is
\* promoted to a cluster stays until something else is promoted there.
PromotedIsKept ==
    set # NoSet => \A c \in Clusters : promoted[c] # 0 => set[c].version = promoted[c]
=============================================================================

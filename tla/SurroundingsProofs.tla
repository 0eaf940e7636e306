------------------------- MODULE SurroundingsProofs -------------------------
(***************************************************************************)
(* Proofs about the modules around a rollout: Trigger, Heartbeat,          *)
(* Bootstrap, Trace, Lifecycle, Archive, Notification, Push, MetricsGate,  *)
(* Listing, Retention and Planner.  Each is instantiated here with its own *)
(* constants and variables; where two of them have a name in common no     *)
(* theorem is about both.                                                  *)
(***************************************************************************)
EXTENDS Integers, SequenceTheorems, FiniteSetTheorems, WellFoundedInduction, TLAPS

CONSTANTS
    None, MaxFaults,
    Tags, Parsed, Digests, Signed, Cooldown, MaxEdits,                      \* Trigger
    Threshold,                                                              \* Heartbeat
    MaxCSRs,                                                                \* Bootstrap
    Phases, Evidence, MaxTime,                                              \* Trace
    Handlers, On, MaxAttempts, MaxRetries, MaxResults, MaxPauses, MaxRestarts, \* Lifecycle
    Sinks,                                                                  \* Archive
    Channels, Events, NeedsApproval, MaxWrites,                             \* Notification
    Clusters, Units, Versions, MaxPromotions,                               \* Push
    Metrics, Values, MaxWindow,                                             \* MetricsGate
    Resources, Names, Limit, ScanFactor, MaxChanges,                        \* Listing
    MaxRuns, MaxRetainedPerPromotion, MinRetainedPerOutcome,
    MaxDeletesPerReconcile, MaxLag, MaxRevived,                             \* Retention
    Plugins, Scores, MaxScore, MaxParallel                                  \* Planner

VARIABLES
    faults, seen, job, queued, run, cluster,
    registry, spec, status, tseen, promo, pseen, active, timer, edits,
    mode, lease, up, hb, fleet, reg, noted, streak,
    current, csr, csrSeen, sa, token, rbac, slotOver, spoke, stored, lost,
    clock, trace, work,
    suspended, phase, results, tasks, entered, early, fired, pauses, restarts,
    sink, files, publish, request,
    target, cached, sending, told,
    kind, object, release, running, overtaken,
    metric, samples, result,
    item, req, always, ever, changes,
    name, gone, revived, mistaken, log, cache, victims, forced,
    plugins, cycle, stage, published

Trigger == INSTANCE Trigger
Heart == INSTANCE Heartbeat
Boot == INSTANCE Bootstrap
Tr == INSTANCE Trace
Life == INSTANCE Lifecycle
Arch == INSTANCE Archive
Note == INSTANCE Notification
Push == INSTANCE Push
Met == INSTANCE MetricsGate
Listing == INSTANCE Listing
Ret == INSTANCE Retention
Pl == INSTANCE Planner

-----------------------------------------------------------------------------
(* Numbers, sums and orders.  An induction is stated for a set instead of a *)
(* predicate; a sum is a recursive function, which exists because it does   *)
(* on ever larger sets.                                                     *)

\* A set of numbers that is not empty has a least one.
LEMMA LeastOf ==
    ASSUME NEW T \in SUBSET Nat, T # {}
    PROVE  \E n \in T : \A m \in T : n <= m
<1> DEFINE R == {ss \in Nat \X Nat : ss[1] < ss[2]}
<1>1. OpToRel(<, Nat) = R
  BY DEF OpToRel
<1>2. IsWellFoundedOn(R, Nat)
  BY NatLessThanWellFounded, <1>1, Zenon
<1>3. PICK n \in T : \A m \in T : <<m, n>> \notin R
  <2> HIDE DEF R
  <2> QED
    BY <1>2, WFMin
<1>4. n \in Nat /\ \A m \in T : m \in Nat /\ ~(m < n)
  BY <1>3
<1> QED
  BY <1>4

\* There are n numbers from 1 to n.
LEMMA CountOfInterval ==
    ASSUME NEW n \in Nat
    PROVE  IsFiniteSet(1..n) /\ Cardinality(1..n) = n
<1>1. 1 \in Int /\ n \in Int
  OBVIOUS
<1>2. IsFiniteSet(1..n) /\ Cardinality(1..n) = IF 1 > n THEN 0 ELSE n - 1 + 1
  BY <1>1, FS_Interval, Zenon
<1> QED
  BY <1>2

\* Induction over numbers: a set that has 0 and with each number the next has
\* them all.
LEMMA NumbersAreReached ==
    ASSUME NEW G, 0 \in G, \A n \in Nat : n \in G => n + 1 \in G
    PROVE  Nat \subseteq G
<1> DEFINE Left == Nat \ G
<1>1. SUFFICES ASSUME Left # {} PROVE FALSE
  OBVIOUS
<1>2. PICK n \in Left : \A m \in Left : n <= m
  BY <1>1, LeastOf
<1>3. n \in Nat /\ n # 0 /\ n - 1 \in Nat /\ (n - 1) + 1 = n
  BY <1>2
<1>4. n - 1 \in Left
  BY <1>2, <1>3
<1> QED
  BY <1>2, <1>3, <1>4

\* The element with which SumFunction begins.
Choice(s) == CHOOSE x \in s : TRUE

\* Induction over the subsets of a finite set: one that has the empty set, and
\* each set that it has without its chosen element, has them all.
LEMMA SubsetsAreReached ==
    ASSUME NEW D, IsFiniteSet(D), NEW G, {} \in G,
           \A s \in SUBSET D : s # {} /\ s \ {Choice(s)} \in G => s \in G
    PROVE  SUBSET D \subseteq G
<1> DEFINE Done == {n \in Nat : \A s \in SUBSET D : Cardinality(s) <= n => s \in G}
<1>1. \A s \in SUBSET D : IsFiniteSet(s) /\ Cardinality(s) \in Nat
  BY FS_Subset, FS_CardinalityType
<1>2. 0 \in Done
  <2>1. ASSUME NEW s \in SUBSET D, Cardinality(s) <= 0 PROVE s \in G
    <3>1. Cardinality(s) = 0
      BY <1>1, <2>1
    <3> QED
      BY <1>1, <3>1, FS_EmptySet
  <2> QED
    BY <2>1
<1>3. ASSUME NEW n \in Nat, n \in Done PROVE n + 1 \in Done
  <2>1. ASSUME NEW s \in SUBSET D, Cardinality(s) <= n + 1, s # {} PROVE s \in G
    <3>1. Choice(s) \in s
      BY <2>1 DEF Choice
    <3> DEFINE t == s \ {Choice(s)}
    <3>2. t \in SUBSET D /\ Cardinality(t) = Cardinality(s) - 1
      BY <1>1, <3>1, FS_RemoveElement
    <3>3. Cardinality(t) <= n
      BY <1>1, <2>1, <3>2
    <3>4. t \in G
      BY <1>3, <3>2, <3>3
    <3> QED
      BY <2>1, <3>4
  <2> QED
    BY <2>1
<1> HIDE DEF Done
<1>4. Nat \subseteq Done
  BY <1>2, <1>3, NumbersAreReached
<1>5. ASSUME NEW s \in SUBSET D PROVE s \in G
  <2>1. Cardinality(s) \in Done /\ Cardinality(s) <= Cardinality(s)
    BY <1>1, <1>4
  <2> QED
    BY <2>1 DEF Done
<1> QED
  BY <1>5

\* sum adds up f over the subsets of D.
IsSum(sum, f, D) ==
    sum = [s \in SUBSET D |-> IF s = {} THEN 0 ELSE f[Choice(s)] + sum[s \ {Choice(s)}]]

\* There is such a sum, for sets of any size.
LEMMA SumExists ==
    ASSUME NEW D, IsFiniteSet(D), NEW f
    PROVE  \E sum : IsSum(sum, f, D)
<1> DEFINE Small(n) == {s \in SUBSET D : Cardinality(s) <= n}
           Step(sum, s) == IF s = {} THEN 0 ELSE f[Choice(s)] + sum[s \ {Choice(s)}]
           Good == {n \in Nat : \E sum : sum = [s \in Small(n) |-> Step(sum, s)]}
<1>1. \A s \in SUBSET D : IsFiniteSet(s) /\ Cardinality(s) \in Nat
  BY FS_Subset, FS_CardinalityType
<1>2. 0 \in Good
  <2>1. \A s \in Small(0) : s = {}
    <3>1. SUFFICES ASSUME NEW s \in SUBSET D, Cardinality(s) <= 0 PROVE s = {}
      OBVIOUS
    <3>2. Cardinality(s) = 0
      BY <1>1, <3>1
    <3> QED
      BY <1>1, <3>2, FS_EmptySet
  <2> DEFINE z == [s \in Small(0) |-> 0]
  <2>2. z = [s \in Small(0) |-> Step(z, s)]
    BY <2>1
  <2> QED
    BY <2>2
<1>3. ASSUME NEW n \in Nat, n \in Good PROVE n + 1 \in Good
  <2>1. PICK sum : sum = [s \in Small(n) |-> Step(sum, s)]
    BY <1>3
  <2> DEFINE more == [s \in Small(n + 1) |-> Step(sum, s)]
  <2>2. \A s \in Small(n) : s \in Small(n + 1) /\ more[s] = sum[s]
    <3>1. SUFFICES ASSUME NEW s \in Small(n) PROVE s \in Small(n + 1) /\ more[s] = sum[s]
      OBVIOUS
    <3>2. s \in Small(n + 1)
      BY <1>1
    <3>3. sum[s] = Step(sum, s)
      BY <2>1
    <3> QED
      BY <3>2, <3>3
  <2>3. \A s \in Small(n + 1) : s # {} => s \ {Choice(s)} \in Small(n)
    <3>1. SUFFICES ASSUME NEW s \in SUBSET D, Cardinality(s) <= n + 1, s # {}
                   PROVE  Cardinality(s \ {Choice(s)}) <= n
      OBVIOUS
    <3>2. Choice(s) \in s
      BY <3>1 DEF Choice
    <3> QED
      BY <1>1, <3>1, <3>2, FS_RemoveElement
  <2>4. \A s \in Small(n + 1) : Step(more, s) = Step(sum, s)
    BY <2>2, <2>3
  <2> HIDE DEF Small, Step
  <2>5. more = [s \in Small(n + 1) |-> Step(more, s)]
    BY <2>4
  <2>6. n + 1 \in Nat
    OBVIOUS
  <2> HIDE DEF more
  <2> QED
    BY <2>5, <2>6, Zenon
<1>4. Cardinality(D) \in Good
  <2> HIDE DEF Good
  <2> QED
    BY <1>2, <1>3, FS_CardinalityType, NumbersAreReached
<1>5. Small(Cardinality(D)) = SUBSET D
  BY FS_Subset
<1>6. PICK sum : sum = [s \in Small(Cardinality(D)) |-> Step(sum, s)]
  BY <1>4
<1> QED
  BY <1>5, <1>6 DEF IsSum

\* It is what SumFunction takes its result from.
LEMMA SumIs ==
    ASSUME NEW D, IsFiniteSet(D), NEW f, DOMAIN f = D
    PROVE  \E sum : IsSum(sum, f, D) /\ SumFunction(f) = sum[D]
<1>1. SumFunction(f) = (CHOOSE sum : IsSum(sum, f, D))[D]
  BY Zenon DEF SumFunction, SumFunctionOnSet, FoldFunctionOnSet, MapThenFoldSet, IsSum, Choice
<1> QED
  BY <1>1, SumExists

\* A sum of integers is one, and of numbers that are none below zero is none
\* below any of them.
LEMMA SumIsInt ==
    ASSUME NEW D, IsFiniteSet(D), NEW f \in [D -> Int]
    PROVE  /\ SumFunction(f) \in Int
           /\ (\A x \in D : f[x] >= 0) => SumFunction(f) >= 0 /\ \A x \in D : f[x] <= SumFunction(f)
<1>1. PICK sum : IsSum(sum, f, D) /\ SumFunction(f) = sum[D]
  BY SumIs
<1>2. \A s \in SUBSET D : sum[s] = IF s = {} THEN 0 ELSE f[Choice(s)] + sum[s \ {Choice(s)}]
  BY <1>1, Zenon DEF IsSum
<1> DEFINE G == {s \in SUBSET D : /\ sum[s] \in Int
                                  /\ (\A x \in D : f[x] >= 0) => sum[s] >= 0 /\ \A x \in s : f[x] <= sum[s]}
<1>3. {} \in G
  <2>1. {} \in SUBSET D
    OBVIOUS
  <2>2. sum[{}] = 0
    BY <1>2, <2>1
  <2> QED
    BY <2>1, <2>2
<1>4. ASSUME NEW s \in SUBSET D, s # {}, s \ {Choice(s)} \in G PROVE s \in G
  <2> DEFINE c == Choice(s)
             t == s \ {c}
  <2>1. c \in s /\ c \in D
    BY <1>4 DEF Choice
  <2>2. sum[t] \in Int /\ f[c] \in Int /\ sum[s] = f[c] + sum[t]
    BY <1>2, <1>4, <2>1
  <2>3. ASSUME \A x \in D : f[x] >= 0
        PROVE  sum[s] >= 0 /\ \A x \in s : f[x] <= sum[s]
    <3>1. sum[t] >= 0 /\ \A x \in t : f[x] <= sum[t]
      BY <1>4, <2>3
    <3>2. f[c] >= 0
      BY <2>1, <2>3
    <3>3. \A x \in s : x = c \/ x \in t
      OBVIOUS
    <3> HIDE DEF c, t
    <3>4. sum[s] >= 0 /\ f[c] <= sum[s] /\ sum[t] <= sum[s]
      BY <2>2, <3>1, <3>2
    <3>5. \A x \in s : f[x] \in Int
      OBVIOUS
    <3>6. ASSUME NEW x \in t, x \in s PROVE f[x] <= sum[s]
      BY <2>2, <3>1, <3>4, <3>5, <3>6
    <3> QED
      BY <3>3, <3>4, <3>6
  <2>4. sum[s] \in Int
    <3> HIDE DEF c, t
    <3> QED
      BY <2>2
  <2> QED
    BY <2>3, <2>4
<1> HIDE DEF G
<1>5. D \in G
  BY <1>3, <1>4, SubsetsAreReached
<1> QED
  BY <1>1, <1>5 DEF G

\* A sum of greater numbers is not less.
LEMMA SumGrows ==
    ASSUME NEW D, IsFiniteSet(D), NEW f \in [D -> Int], NEW g \in [D -> Int], \A x \in D : f[x] <= g[x]
    PROVE  SumFunction(f) <= SumFunction(g)
<1>1. PICK sf : IsSum(sf, f, D) /\ SumFunction(f) = sf[D]
  BY SumIs
<1>2. PICK sg : IsSum(sg, g, D) /\ SumFunction(g) = sg[D]
  BY SumIs
<1>3. \A s \in SUBSET D : /\ sf[s] = IF s = {} THEN 0 ELSE f[Choice(s)] + sf[s \ {Choice(s)}]
                          /\ sg[s] = IF s = {} THEN 0 ELSE g[Choice(s)] + sg[s \ {Choice(s)}]
  BY <1>1, <1>2, Zenon DEF IsSum
<1> DEFINE G == {s \in SUBSET D : sf[s] \in Int /\ sg[s] \in Int /\ sf[s] <= sg[s]}
<1>4. {} \in G
  BY <1>3
<1>5. ASSUME NEW s \in SUBSET D, s # {}, s \ {Choice(s)} \in G PROVE s \in G
  <2> DEFINE c == Choice(s)
             t == s \ {c}
  <2>1. c \in D
    BY <1>5 DEF Choice
  <2>2. sf[s] = f[c] + sf[t] /\ sg[s] = g[c] + sg[t]
    BY <1>3, <1>5
  <2>3. sf[t] \in Int /\ sg[t] \in Int /\ sf[t] <= sg[t] /\ f[c] \in Int /\ g[c] \in Int /\ f[c] <= g[c]
    BY <1>5, <2>1
  <2> HIDE DEF c, t
  <2> QED
    BY <2>2, <2>3
<1> HIDE DEF G
<1>6. D \in G
  BY <1>4, <1>5, SubsetsAreReached
<1> QED
  BY <1>1, <1>2, <1>6 DEF G

\* A sum of equal numbers is a product.
LEMMA SumOfConstant ==
    ASSUME NEW D, IsFiniteSet(D), NEW k \in Int
    PROVE  SumFunction([x \in D |-> k]) = Cardinality(D) * k
<1> DEFINE f == [x \in D |-> k]
<1>1. PICK sum : IsSum(sum, f, D) /\ SumFunction(f) = sum[D]
  BY SumIs
<1>2. \A s \in SUBSET D : sum[s] = IF s = {} THEN 0 ELSE f[Choice(s)] + sum[s \ {Choice(s)}]
  BY <1>1, Zenon DEF IsSum
<1> DEFINE G == {s \in SUBSET D : sum[s] = Cardinality(s) * k}
<1>3. {} \in G
  <2>1. {} \in SUBSET D
    OBVIOUS
  <2>2. sum[{}] = 0 /\ Cardinality({}) * k = 0
    BY <1>2, <2>1, FS_EmptySet
  <2> QED
    BY <2>1, <2>2
<1>4. ASSUME NEW s \in SUBSET D, s # {}, s \ {Choice(s)} \in G PROVE s \in G
  <2> DEFINE c == Choice(s)
             t == s \ {c}
  <2>1. c \in s /\ c \in D /\ f[c] = k
    BY <1>4 DEF Choice
  <2>2. sum[s] = k + sum[t] /\ sum[t] = Cardinality(t) * k
    BY <1>2, <1>4, <2>1
  <2>3. IsFiniteSet(s)
    BY FS_Subset
  <2>4. Cardinality(t) = Cardinality(s) - 1 /\ Cardinality(s) \in Nat
    BY <2>1, <2>3, FS_RemoveElement, FS_CardinalityType
  <2> HIDE DEF c, t, f
  <2>5. PICK n \in Nat : n = Cardinality(s)
    BY <2>4
  <2>6. k + (n - 1) * k = n * k
    OBVIOUS
  <2> QED
    BY <2>2, <2>4, <2>5, <2>6
<1> HIDE DEF G
<1>5. D \in G
  BY <1>3, <1>4, SubsetsAreReached
<1> QED
  BY <1>1, <1>5 DEF G

\* The sum of a sequence lies between its length times the bounds of its items.
LEMMA SequenceSum ==
    ASSUME NEW s \in Seq(Int), NEW k \in Int
    PROVE  /\ SumFunction(s) \in Int
           /\ (\A i \in DOMAIN s : s[i] <= k) => SumFunction(s) <= Len(s) * k
           /\ (\A i \in DOMAIN s : s[i] >= k) => SumFunction(s) >= Len(s) * k
<1> DEFINE D == DOMAIN s
           f == [i \in D |-> k]
<1>1. s \in [D -> Int] /\ D = 1..Len(s) /\ Len(s) \in Nat
  OBVIOUS
<1>2. IsFiniteSet(D) /\ Cardinality(D) = Len(s)
  <2>1. PICK n \in Nat : n = Len(s)
    BY <1>1
  <2>2. IsFiniteSet(1..n) /\ Cardinality(1..n) = n
    BY CountOfInterval
  <2> QED
    BY <1>1, <2>1, <2>2
<1>3. f \in [D -> Int]
  OBVIOUS
<1>4. SumFunction(f) = Len(s) * k
  BY <1>2, SumOfConstant
<1>5. SumFunction(s) \in Int
  BY <1>1, <1>2, SumIsInt
<1>6. ASSUME \A i \in D : s[i] <= k PROVE SumFunction(s) <= SumFunction(f)
  <2>1. \A i \in D : s[i] <= f[i]
    BY <1>6
  <2> HIDE DEF f, D
  <2> QED
    BY <1>1, <1>2, <1>3, <2>1, SumGrows
<1>7. ASSUME \A i \in D : s[i] >= k PROVE SumFunction(f) <= SumFunction(s)
  <2>1. \A i \in D : f[i] <= s[i]
    BY <1>1, <1>7
  <2> HIDE DEF f, D
  <2> QED
    BY <1>1, <1>2, <1>3, <2>1, SumGrows
<1> HIDE DEF f
<1>8. Len(s) * k \in Int
  BY <1>1
<1> QED
  BY <1>4, <1>5, <1>6, <1>7, <1>8

\* Products, which the solver knows only of numbers that stand alone.
LEMMA ProductGrows ==
    ASSUME NEW a \in Int, NEW b \in Int, NEW r \in Nat, a <= b
    PROVE  a * r <= b * r /\ a * r \in Int /\ b * r \in Int
<1>1. PICK d \in Nat : b = a + d
  <2>1. b - a \in Nat /\ b = a + (b - a)
    OBVIOUS
  <2> QED
    BY <2>1
<1>2. (a + d) * r = a * r + d * r /\ d * r >= 0 /\ d * r \in Int /\ a * r \in Int
  OBVIOUS
<1> QED
  BY <1>1, <1>2

\* A product of a sum.
LEMMA ProductOfSum ==
    ASSUME NEW a \in Int, NEW n \in Nat, NEW r \in Nat
    PROVE  (a + n) * r = a * r + n * r /\ n * r \in Nat /\ (n > 0 /\ r > 0 => n * r > 0)
  OBVIOUS

\* Of two sequences, the one whose items are the lesser has the lesser mean.
LEMMA MeansCompare ==
    ASSUME NEW p \in Seq(Int), NEW q \in Seq(Int), Len(p) > 0, Len(q) > 0
    PROVE  /\ SumFunction(p) \in Int /\ SumFunction(q) \in Int
           /\ (\A i \in DOMAIN p, j \in DOMAIN q : p[i] <= q[j]) =>
                 SumFunction(p) * Len(q) <= SumFunction(q) * Len(p)
           /\ (\A i \in DOMAIN p, j \in DOMAIN q : p[i] < q[j]) =>
                 SumFunction(p) * Len(q) < SumFunction(q) * Len(p)
<1>1. /\ Len(p) \in Nat /\ Len(q) \in Nat /\ 1 \in DOMAIN p /\ 1 \in DOMAIN q
      /\ \A i \in DOMAIN p : p[i] \in Int
      /\ \A j \in DOMAIN q : q[j] \in Int
  OBVIOUS
<1>2. SumFunction(p) \in Int /\ SumFunction(q) \in Int
  BY SequenceSum
<1>3. ASSUME NEW d \in {0, 1}, \A i \in DOMAIN p, j \in DOMAIN q : p[i] + d <= q[j]
      PROVE  (SumFunction(p) + d * Len(p)) * Len(q) <= SumFunction(q) * Len(p)
  <2> DEFINE T == {q[j] - (p[1] + d) : j \in DOMAIN q}
  <2>1. T \in SUBSET Nat /\ T # {}
    <3>1. ASSUME NEW j \in DOMAIN q PROVE q[j] - (p[1] + d) \in Nat
      <4>1. p[1] + d <= q[j] /\ p[1] \in Int /\ q[j] \in Int
        BY <1>1, <1>3
      <4> QED
        BY <4>1
    <3> QED
      BY <1>1, <3>1
  <2>2. PICK least \in T : \A t \in T : least <= t
    BY <2>1, LeastOf
  <2>3. PICK m \in DOMAIN q : least = q[m] - (p[1] + d)
    BY <2>2
  <2> DEFINE k == q[m]
  <2>4. k \in Int /\ k - d \in Int
    BY <1>1
  <2>5. ASSUME NEW j \in DOMAIN q PROVE q[j] >= k
    <3>1. q[m] - (p[1] + d) <= q[j] - (p[1] + d)
      BY <2>2, <2>3
    <3>2. q[j] \in Int /\ q[m] \in Int /\ p[1] \in Int
      BY <1>1
    <3> QED
      BY <3>1, <3>2
  <2>6. ASSUME NEW i \in DOMAIN p PROVE p[i] <= k - d
    <3>1. p[i] + d <= q[m] /\ p[i] \in Int /\ q[m] \in Int
      BY <1>1, <1>3
    <3> QED
      BY <3>1
  <2> HIDE DEF k
  <2>7. SumFunction(q) >= Len(q) * k
    BY <2>4, <2>5, SequenceSum
  <2>8. SumFunction(p) <= Len(p) * (k - d)
    BY <2>4, <2>6, SequenceSum
  <2>9. PICK a \in Int, b \in Int, n \in Nat, r \in Nat :
          a = SumFunction(p) /\ b = SumFunction(q) /\ n = Len(p) /\ r = Len(q)
    BY <1>1, <1>2
  <2>10. a + d * n <= n * k
    <3>1. n * (k - d) = n * k - d * n
      BY <2>4
    <3>2. n * k \in Int /\ d * n \in Int
      BY <2>4
    <3> QED
      BY <2>8, <2>9, <3>1, <3>2
  <2>11. (a + d * n) * r <= (n * k) * r
    <3>1. n * k \in Int /\ a + d * n \in Int
      BY <2>4
    <3> QED
      BY <2>10, <3>1, ProductGrows
  <2>12. (r * k) * n <= b * n
    <3>1. r * k \in Int /\ r * k <= b
      BY <2>4, <2>7, <2>9
    <3> QED
      BY <3>1, ProductGrows
  <2>13. (n * k) * r = (r * k) * n
    BY <2>4
  <2>14. (n * k) * r \in Int /\ b * n \in Int /\ (a + d * n) * r \in Int
    BY <2>4
  <2>15. (a + d * n) * r <= b * n
    <3>1. PICK x \in Int, y \in Int, z \in Int : x = (a + d * n) * r /\ y = (n * k) * r /\ z = b * n
      BY <2>14
    <3>2. x <= y /\ y <= z
      BY <2>11, <2>12, <2>13, <3>1, Zenon
    <3>3. x <= z
      BY <3>2
    <3> QED
      BY <3>1, <3>3, Zenon
  <2> QED
    BY <2>9, <2>15, Zenon
<1>4. ASSUME \A i \in DOMAIN p, j \in DOMAIN q : p[i] <= q[j]
      PROVE  SumFunction(p) * Len(q) <= SumFunction(q) * Len(p)
  <2>1. \A i \in DOMAIN p, j \in DOMAIN q : p[i] + 0 <= q[j]
    BY <1>1, <1>4
  <2>2. (SumFunction(p) + 0 * Len(p)) * Len(q) <= SumFunction(q) * Len(p)
    BY <1>3, <2>1
  <2>3. SumFunction(p) + 0 * Len(p) = SumFunction(p)
    BY <1>1, <1>2
  <2> QED
    BY <2>2, <2>3
<1>5. ASSUME \A i \in DOMAIN p, j \in DOMAIN q : p[i] < q[j]
      PROVE  SumFunction(p) * Len(q) < SumFunction(q) * Len(p)
  <2>1. \A i \in DOMAIN p, j \in DOMAIN q : p[i] + 1 <= q[j]
    BY <1>1, <1>5
  <2>2. (SumFunction(p) + 1 * Len(p)) * Len(q) <= SumFunction(q) * Len(p)
    BY <1>3, <2>1
  <2>3. PICK a \in Int, b \in Int, n \in Nat, r \in Nat :
          a = SumFunction(p) /\ b = SumFunction(q) /\ n = Len(p) /\ r = Len(q)
    BY <1>1, <1>2
  <2>4. n > 0 /\ r > 0 /\ 1 * n = n
    BY <2>3
  <2>5. (a + n) * r = a * r + n * r /\ n * r > 0
    BY <2>4, ProductOfSum
  <2>6. a * r \in Int /\ n * r \in Int /\ b * n \in Int
    OBVIOUS
  <2>7. (a + n) * r <= b * n
    BY <2>2, <2>3, <2>4
  <2>8. a * r < b * n
    <3>1. PICK x \in Int, y \in Int, z \in Int : x = a * r /\ y = n * r /\ z = b * n
      BY <2>6
    <3>2. x + y <= z /\ y > 0
      BY <2>5, <2>7, <3>1, Zenon
    <3>3. x < z
      BY <3>2
    <3> QED
      BY <3>1, <3>3, Zenon
  <2> QED
    BY <2>3, <2>8, Zenon
<1> QED
  BY <1>2, <1>4, <1>5

\* R puts the elements of S in an order, of which UpTo is an initial part.
IsOrder(R, S) ==
    /\ \A x \in S : <<x, x>> \notin R
    /\ \A x, y \in S : x = y \/ <<x, y>> \in R \/ <<y, x>> \in R
    /\ \A x, y, z \in S : <<x, y>> \in R /\ <<y, z>> \in R => <<x, z>> \in R
UpTo(R, S, x) == {y \in S : y = x \/ <<y, x>> \in R}

\* Ranks count from 1, and grow.
LEMMA RanksGrow ==
    ASSUME NEW S, IsFiniteSet(S), NEW R, IsOrder(R, S)
    PROVE  /\ \A x \in S : Cardinality(UpTo(R, S, x)) \in 1..Cardinality(S)
           /\ \A x, y \in S : <<x, y>> \in R => Cardinality(UpTo(R, S, x)) < Cardinality(UpTo(R, S, y))
<1>1. ASSUME NEW x \in S
      PROVE  /\ UpTo(R, S, x) \in SUBSET S /\ x \in UpTo(R, S, x) /\ IsFiniteSet(UpTo(R, S, x))
             /\ Cardinality(UpTo(R, S, x)) \in 1..Cardinality(S)
  <2>1. UpTo(R, S, x) \in SUBSET S /\ x \in UpTo(R, S, x)
    BY DEF UpTo
  <2>2. IsFiniteSet(UpTo(R, S, x)) /\ Cardinality(UpTo(R, S, x)) <= Cardinality(S)
    BY <2>1, FS_Subset
  <2>3. Cardinality(UpTo(R, S, x)) \in Nat /\ Cardinality(S) \in Nat /\ Cardinality(UpTo(R, S, x)) # 0
    BY <2>1, <2>2, FS_CardinalityType, FS_EmptySet
  <2> QED
    BY <2>1, <2>2, <2>3
<1>2. ASSUME NEW x \in S, NEW y \in S, <<x, y>> \in R
      PROVE  Cardinality(UpTo(R, S, x)) < Cardinality(UpTo(R, S, y))
  <2> DEFINE A == UpTo(R, S, x)
             B == UpTo(R, S, y)
  <2>1. A \in SUBSET B
    BY <1>2 DEF UpTo, IsOrder
  <2>2. y \notin A
    BY <1>2 DEF UpTo, IsOrder
  <2>3. y \in B /\ IsFiniteSet(B)
    BY <1>1
  <2> HIDE DEF A, B
  <2>4. Cardinality(A) <= Cardinality(B) /\ Cardinality(A) # Cardinality(B) /\ IsFiniteSet(A)
    BY <2>1, <2>2, <2>3, FS_Subset
  <2>5. Cardinality(A) \in Nat /\ Cardinality(B) \in Nat
    BY <2>3, <2>4, FS_CardinalityType
  <2> QED
    BY <2>4, <2>5 DEF A, B
<1> QED
  BY <1>1, <1>2

\* No two elements have the same rank, and every rank is taken.
LEMMA RanksAreTaken ==
    ASSUME NEW S, IsFiniteSet(S), NEW R, IsOrder(R, S)
    PROVE  /\ \A x, y \in S : Cardinality(UpTo(R, S, x)) = Cardinality(UpTo(R, S, y)) => x = y
           /\ \A n \in 1..Cardinality(S) : \E x \in S : Cardinality(UpTo(R, S, x)) = n
<1> DEFINE f == [x \in S |-> Cardinality(UpTo(R, S, x))]
<1>1. ASSUME NEW x \in S, NEW y \in S, f[x] = f[y] PROVE x = y
  <2>1. f[x] \in 1..Cardinality(S) /\ ~(f[x] < f[y]) /\ ~(f[y] < f[x])
    <3>1. f[x] \in 1..Cardinality(S)
      BY RanksGrow
    <3>2. PICK n \in Int : n = f[x]
      BY <3>1
    <3>3. ~(n < n)
      OBVIOUS
    <3> QED
      BY <1>1, <3>1, <3>2, <3>3
  <2>2. ~(<<x, y>> \in R) /\ ~(<<y, x>> \in R)
    BY <2>1, RanksGrow
  <2> QED
    BY <2>2 DEF IsOrder
<1>2. PICK c \in Nat : c = Cardinality(S)
  BY FS_CardinalityType
<1>3. IsFiniteSet(1..c) /\ Cardinality(1..c) = c
  BY CountOfInterval
<1>4. f \in Injection(S, 1..c)
  <2>1. f \in [S -> 1..c]
    BY <1>2, RanksGrow
  <2> HIDE DEF f
  <2> QED
    BY <1>1, <2>1 DEF Injection, IsInjective
<1> HIDE DEF f
<1>5. f \in Surjection(S, 1..c)
  BY <1>2, <1>3, <1>4, FS_Injection
<1>6. \A n \in 1..c : \E x \in S : f[x] = n
  BY <1>5 DEF Surjection
<1> QED
  BY <1>1, <1>2, <1>6 DEF f

\* There are as many elements with the first n ranks as that.
LEMMA FirstAreCounted ==
    ASSUME NEW S, IsFiniteSet(S), NEW R, IsOrder(R, S), NEW n \in Nat, n <= Cardinality(S)
    PROVE  Cardinality({x \in S : Cardinality(UpTo(R, S, x)) <= n}) = n
<1> DEFINE F == {x \in S : Cardinality(UpTo(R, S, x)) <= n}
           f == [x \in F |-> Cardinality(UpTo(R, S, x))]
<1>1. \A x \in F : f[x] \in 1..n
  <2>1. SUFFICES ASSUME NEW x \in F PROVE f[x] \in 1..n
    OBVIOUS
  <2>2. f[x] \in 1..Cardinality(S) /\ f[x] <= n
    BY RanksGrow
  <2> QED
    BY <2>2
<1>2. \A x, y \in F : f[x] = f[y] => x = y
  BY RanksAreTaken
<1>3. ASSUME NEW k \in 1..n PROVE \E x \in F : f[x] = k
  <2>1. k \in 1..Cardinality(S)
    BY FS_CardinalityType
  <2>2. PICK x \in S : Cardinality(UpTo(R, S, x)) = k
    BY <2>1, RanksAreTaken
  <2> QED
    BY <2>2
<1>4. IsFiniteSet(1..n) /\ Cardinality(1..n) = n
  BY CountOfInterval
<1>5. f \in [F -> 1..n]
  BY <1>1
<1> HIDE DEF f, F
<1>6. f \in Injection(F, 1..n) /\ f \in Surjection(F, 1..n)
  BY <1>2, <1>3, <1>5 DEF Injection, IsInjective, Surjection
<1>7. Cardinality(F) = Cardinality(1..n)
  BY <1>4, <1>6, FS_Injection
<1> QED
  BY <1>4, <1>7 DEF F

-----------------------------------------------------------------------------
(* Triggers.                                                               *)

\* Versions are tags or digests, and what is signed is a digest.
TriggerAssumption ==
    /\ Cooldown \in Nat /\ MaxEdits \in Nat /\ MaxFaults \in Nat
    /\ Signed \subseteq Digests /\ Tags \cap Digests = {}

\* An artifact is named by its digest, and has been verified if a signature was
\* required of it.
Verified(artifact) ==
    artifact.version \in Digests /\ (artifact.required => artifact.version \in Signed)

\* What is promoted, or about to be, is such an artifact, and the stamp of a write
\* that is repeated is a point in time.
TriggerInv ==
    /\ Trigger!TypeOK
    /\ job.pc \in {"upsert", "refetch"} => Verified(job)
    /\ job.pc = "refetch" => job.stamped \in Trigger!Ages
    /\ promo # None => Verified(promo)

\* Initially nothing is promoted.
LEMMA TriggerInit ==
    ASSUME TriggerAssumption, Trigger!Init
    PROVE  TriggerInv
<1> USE DEF Trigger!Init, TriggerAssumption
<1>1. registry \in [Tags -> Trigger!Optional(Digests)]
  BY DEF Trigger!Optional
<1>2. spec \in Trigger!TriggerSpec /\ status \in Trigger!TriggerStatus
  BY DEF Trigger!TriggerSpec, Trigger!TriggerStatus, Trigger!Templates, Trigger!Optional
<1>3. run \in Trigger!Run
  BY DEF Trigger!Run
<1>4. job \in Trigger!Job /\ job.pc = "idle"
  BY DEF Trigger!Job, Trigger!Idle, Trigger!Optional
<1>5. tseen \in [spec : Trigger!TriggerSpec, status : Trigger!TriggerStatus]
  BY <1>2
<1>6. promo = None /\ pseen = None /\ None \in Trigger!Optional(Trigger!Promotion)
  BY DEF Trigger!Optional
<1>7. queued \in BOOLEAN /\ timer \in BOOLEAN
  OBVIOUS
<1>8. active \in 0..1 /\ edits \in 0..MaxEdits /\ faults \in 0..MaxFaults
  OBVIOUS
<1> HIDE DEF Trigger!Init
<1> QED
  BY <1>1, <1>2, <1>3, <1>4, <1>5, <1>6, <1>7, <1>8 DEF TriggerInv, Trigger!TypeOK

\* A stamp that ages stays a stamp.
LEMMA OlderIsAge ==
    ASSUME TriggerAssumption, NEW a \in Trigger!Optional(Trigger!Ages)
    PROVE  /\ Trigger!Older(a) \in Trigger!Optional(Trigger!Ages)
           /\ a \in Trigger!Ages => Trigger!Older(a) \in Trigger!Ages
  BY DEF Trigger!Older, Trigger!Optional, Trigger!Ages, TriggerAssumption

\* Time changes nothing of a Promotion but the age of its stamp.
LEMMA AgedIsPromotion ==
    ASSUME TriggerAssumption, NEW p \in Trigger!Optional(Trigger!Promotion)
    PROVE  /\ Trigger!Aged(p) \in Trigger!Optional(Trigger!Promotion)
           /\ p = None => Trigger!Aged(p) = None
           /\ p # None => /\ Trigger!Aged(p).version = p.version
                          /\ Trigger!Aged(p).required = p.required
<1>1. CASE p = None
  BY <1>1 DEF Trigger!Aged, Trigger!Optional
<1>2. CASE p # None
  <2> DEFINE older == Trigger!Older(p.at)
  <2>1. p \in Trigger!Promotion /\ p.at \in Trigger!Ages
    BY <1>2 DEF Trigger!Optional, Trigger!Promotion
  <2>2. older \in Trigger!Ages
    BY <2>1, OlderIsAge DEF Trigger!Optional
  <2>3. Trigger!Aged(p) = [p EXCEPT !.at = older]
    BY <1>2 DEF Trigger!Aged
  <2> HIDE DEF older
  <2> QED
    BY <1>2, <2>1, <2>2, <2>3 DEF Trigger!Promotion, Trigger!Optional
<1> QED
  BY <1>1, <1>2

\* A patch writes the artifact found over the cached one, or leaves it.
LEMMA PatchIsVerified ==
    ASSUME TriggerAssumption, TriggerInv, NEW stamp \in Trigger!Ages,
           job.pc \in {"upsert", "refetch"}, Trigger!applyTriggerToPromotion(stamp)
    PROVE  promo' \in Trigger!Promotion /\ Verified(promo')
<1>1. /\ pseen # None /\ promo # None /\ promo \in Trigger!Promotion /\ Verified(promo)
      /\ job \in Trigger!Job /\ Verified(job) /\ tseen.spec.template \in Trigger!Templates
  BY DEF TriggerInv, Trigger!TypeOK, Trigger!applyTriggerToPromotion, Trigger!Optional, Trigger!TriggerSpec
<1> DEFINE written == job.version # pseen.version
           v == IF written THEN job.version ELSE promo.version
           q == IF written THEN job.required ELSE promo.required
           t == IF tseen.spec.template # pseen.template THEN tseen.spec.template ELSE promo.template
<1>2. promo' = [version |-> v, required |-> q, template |-> t, at |-> stamp]
  BY DEF Trigger!applyTriggerToPromotion
<1>3. v \in Digests /\ q \in BOOLEAN /\ (q => v \in Signed) /\ t \in Trigger!Templates
  BY <1>1 DEF Verified, Trigger!Promotion, Trigger!Job
<1> HIDE DEF v, q, t
<1> QED
  BY <1>2, <1>3 DEF Verified, Trigger!Promotion, Trigger!Version

\* An upsert writes the artifact it found; as the cache shows the Promotion as it
\* is, or none, only after the cooldown.
LEMMA UpsertIsVerified ==
    ASSUME TriggerAssumption, TriggerInv, Trigger!upsert
    PROVE  /\ promo' \in Trigger!Optional(Trigger!Promotion)
           /\ promo' # None => Verified(promo')
           /\ run' \in Trigger!Run
           /\ Trigger!PromotionIsSpaced
<1>0. /\ promo \in Trigger!Optional(Trigger!Promotion) /\ pseen \in Trigger!Optional(Trigger!Promotion)
      /\ promo # None => Verified(promo)
      /\ run \in Trigger!Run /\ job \in Trigger!Job /\ Verified(job) /\ job.pc = "upsert"
      /\ tseen.spec.template \in Trigger!Templates
  BY DEF TriggerInv, Trigger!TypeOK, Trigger!upsert, Trigger!TriggerSpec
<1>1. 0 \in Trigger!Ages
  BY DEF Trigger!Ages, TriggerAssumption
<1>2. run' \in Trigger!Run
  BY <1>0 DEF Trigger!upsert, Trigger!Upserted, Trigger!failUpsert, Trigger!Run
<1>3. CASE /\ pseen = None /\ promo = None
           /\ promo' = [version |-> job.version, required |-> job.required,
                        template |-> tseen.spec.template, at |-> 0]
  <2>1. promo' \in Trigger!Promotion /\ Verified(promo')
    BY <1>0, <1>1, <1>3 DEF Trigger!Promotion, Trigger!Version, Trigger!Job, Verified
  <2> QED
    BY <1>2, <1>3, <2>1 DEF Trigger!Optional, Trigger!PromotionIsSpaced
<1>4. CASE Trigger!applyTriggerToPromotion(0)
  <2>1. promo' \in Trigger!Promotion /\ Verified(promo')
    BY <1>0, <1>1, <1>4, PatchIsVerified
  <2>2. pseen # None /\ pseen \in Trigger!Promotion
    BY <1>0, <1>4 DEF Trigger!applyTriggerToPromotion, Trigger!Optional
  <2>3. ~(pseen.at < Cooldown)
    BY <2>2 DEF Trigger!upsert, Trigger!Held, Trigger!cooldownRemaining
  <2>4. pseen.at \in 0..Cooldown
    BY <2>2 DEF Trigger!Promotion, Trigger!Ages
  <2>5. pseen.at >= Cooldown
    BY <2>3, <2>4 DEF TriggerAssumption
  <2> QED
    BY <1>2, <2>1, <2>5 DEF Trigger!Optional, Trigger!PromotionIsSpaced
<1>5. CASE promo' = promo
  BY <1>0, <1>2, <1>5 DEF Trigger!PromotionIsSpaced
<1> QED
  BY <1>3, <1>4, <1>5 DEF Trigger!upsert, Trigger!failUpsert

\* What is found to exist is patched with the artifact found.
LEMMA RefetchIsVerified ==
    ASSUME TriggerAssumption, TriggerInv, Trigger!refetch
    PROVE  /\ promo' \in Trigger!Optional(Trigger!Promotion)
           /\ promo' # None => Verified(promo')
           /\ run' \in Trigger!Run
           /\ Trigger!PromotionIsSpaced
<1>0. /\ promo \in Trigger!Optional(Trigger!Promotion) /\ (promo # None => Verified(promo))
      /\ run \in Trigger!Run /\ job.pc = "refetch" /\ job.stamped \in Trigger!Ages
  BY DEF TriggerInv, Trigger!TypeOK, Trigger!refetch
<1>1. run' \in Trigger!Run
  BY <1>0 DEF Trigger!refetch, Trigger!Upserted, Trigger!failUpsert, Trigger!Run
<1>2. CASE Trigger!applyTriggerToPromotion(job.stamped)
  <2>1. promo' \in Trigger!Promotion /\ Verified(promo')
    BY <1>0, <1>2, PatchIsVerified
  <2> QED
    BY <1>0, <1>1, <2>1 DEF Trigger!Optional, Trigger!PromotionIsSpaced
<1>3. CASE promo' = promo
  BY <1>0, <1>1, <1>3 DEF Trigger!PromotionIsSpaced
<1> QED
  BY <1>2, <1>3 DEF Trigger!refetch, Trigger!failUpsert

\* Every step keeps what is promoted verified, and spaces the promotions.
LEMMA TriggerStep ==
    ASSUME TriggerAssumption, TriggerInv, [Trigger!Next]_(Trigger!vars)
    PROVE  TriggerInv' /\ Trigger!PromotionIsSpaced
<1> USE DEF TriggerInv, Trigger!world, Trigger!trigger, Trigger!promotion, Trigger!runs, Trigger!wakeups
<1>0. /\ registry \in [Tags -> Trigger!Optional(Digests)]
      /\ spec \in Trigger!TriggerSpec /\ status \in Trigger!TriggerStatus
      /\ tseen \in [spec : Trigger!TriggerSpec, status : Trigger!TriggerStatus]
      /\ promo \in Trigger!Optional(Trigger!Promotion) /\ pseen \in Trigger!Optional(Trigger!Promotion)
      /\ run \in Trigger!Run /\ active \in 0..1
      /\ job \in Trigger!Job /\ queued \in BOOLEAN /\ timer \in BOOLEAN
      /\ edits \in 0..MaxEdits /\ faults \in 0..MaxFaults
      /\ job.pc \in {"upsert", "refetch"} => Verified(job)
      /\ job.pc = "refetch" => job.stamped \in Trigger!Ages
      /\ promo # None => Verified(promo)
  BY DEF Trigger!TypeOK
<1>1. /\ 0 \in Trigger!Optional(Trigger!Ages) /\ None \in Trigger!Optional(Trigger!Ages)
      /\ None \in Trigger!Optional(Trigger!Version)
      /\ \A v \in Digests : v \in Trigger!Optional(Trigger!Version)
      /\ \A a \in Trigger!Ages : a \in Trigger!Optional(Trigger!Ages)
  BY DEF Trigger!Optional, Trigger!Ages, Trigger!Version, TriggerAssumption
<1>2. /\ Trigger!Idle \in Trigger!Job /\ Trigger!Idle.pc = "idle"
      /\ Trigger!ToPatch \in Trigger!Job /\ Trigger!ToPatch.pc = "patch"
      /\ LET j == [Trigger!ToPatch EXCEPT !.requeue = TRUE]
         IN  j \in Trigger!Job /\ j.pc = "patch"
      /\ LET j == [Trigger!ToPatch EXCEPT !.blocked = TRUE]
         IN  j \in Trigger!Job /\ j.pc = "patch"
      /\ \A a \in Trigger!Ages :
           LET j == [Trigger!ToPatch EXCEPT !.stamped = a, !.requeue = TRUE]
           IN  j \in Trigger!Job /\ j.pc = "patch"
  BY <1>1 DEF Trigger!Job, Trigger!ToPatch, Trigger!Idle
<1>3. Trigger!Fault => faults' \in 0..MaxFaults
  BY <1>0 DEF Trigger!Fault, TriggerAssumption
<1>4. Trigger!Edit => edits' \in 0..MaxEdits
  BY <1>0 DEF Trigger!Edit, TriggerAssumption
<1>5. CASE Trigger!suspended
  BY <1>0, <1>2, <1>5 DEF Trigger!suspended, Trigger!TypeOK, Trigger!PromotionIsSpaced
<1>6. CASE Trigger!Resolve
  <2>1. /\ UNCHANGED <<registry, spec, edits, status, tseen, promo, pseen, run, active, timer>>
        /\ queued' = FALSE /\ faults' \in 0..MaxFaults
    BY <1>0, <1>3, <1>6 DEF Trigger!Resolve
  <2>2. /\ job' \in Trigger!Job /\ job'.pc # "refetch"
        /\ job'.pc = "upsert" => Verified(job')
    <3>1. CASE \E t \in Trigger!Greatest :
                  job' = IF tseen.spec.required => registry[t] \in Signed
                         THEN [Trigger!Idle EXCEPT !.pc = "upsert",
                                                   !.version = Trigger!artifactVersion(t, registry[t]),
                                                   !.required = tseen.spec.required]
                         ELSE [Trigger!ToPatch EXCEPT !.requeue = TRUE]
      <4> PICK t \in Trigger!Greatest :
                  job' = IF tseen.spec.required => registry[t] \in Signed
                         THEN [Trigger!Idle EXCEPT !.pc = "upsert",
                                                   !.version = Trigger!artifactVersion(t, registry[t]),
                                                   !.required = tseen.spec.required]
                         ELSE [Trigger!ToPatch EXCEPT !.requeue = TRUE]
        BY <3>1
      <4>1. registry[t] \in Digests /\ tseen.spec.required \in BOOLEAN
        BY <1>0 DEF Trigger!Greatest, Trigger!Pushed, Trigger!Optional, Trigger!TriggerSpec
      <4>2. CASE tseen.spec.required => registry[t] \in Signed
        BY <1>1, <4>1, <4>2 DEF Trigger!artifactVersion, Trigger!Job, Trigger!Idle, Verified
      <4>3. CASE ~(tseen.spec.required => registry[t] \in Signed)
        BY <1>2, <4>3
      <4> QED
        BY <4>2, <4>3
    <3>2. CASE job' = [Trigger!ToPatch EXCEPT !.requeue = TRUE]
      BY <1>2, <3>2
    <3> QED
      BY <1>6, <3>1, <3>2 DEF Trigger!Resolve
  <2> QED
    BY <1>0, <2>1, <2>2 DEF Trigger!TypeOK, Trigger!PromotionIsSpaced
<1>7. CASE Trigger!skipUpsert
  BY <1>0, <1>2, <1>7 DEF Trigger!skipUpsert, Trigger!TypeOK, Trigger!PromotionIsSpaced
<1>8. CASE Trigger!upsert
  <2>1. /\ UNCHANGED <<registry, spec, edits, status, tseen, pseen, active, timer>>
        /\ queued' \in BOOLEAN /\ faults' \in 0..MaxFaults
    BY <1>0, <1>3, <1>8 DEF Trigger!upsert, Trigger!Upserted, Trigger!failUpsert
  <2>2. /\ job' \in Trigger!Job
        /\ job'.pc \in {"upsert", "refetch"} => Verified(job')
        /\ job'.pc = "refetch" => job'.stamped \in Trigger!Ages
    <3>1. 0 \in Trigger!Ages
      BY DEF Trigger!Ages, TriggerAssumption
    <3>2. CASE job' = [job EXCEPT !.pc = "refetch", !.stamped = 0]
      <4>1. Verified(job)
        BY <1>0, <1>8 DEF Trigger!upsert
      <4> QED
        BY <1>0, <1>1, <3>1, <3>2, <4>1 DEF Trigger!Job, Verified
    <3>3. CASE job' \in {[Trigger!ToPatch EXCEPT !.stamped = 0, !.requeue = TRUE],
                         [Trigger!ToPatch EXCEPT !.blocked = TRUE]}
      BY <1>2, <3>1, <3>3
    <3> QED
      BY <1>8, <3>2, <3>3 DEF Trigger!upsert, Trigger!Upserted, Trigger!failUpsert
  <2>3. /\ promo' \in Trigger!Optional(Trigger!Promotion) /\ run' \in Trigger!Run
        /\ promo' # None => Verified(promo')
        /\ Trigger!PromotionIsSpaced
    BY <1>8, UpsertIsVerified
  <2> QED
    BY <1>0, <2>1, <2>2, <2>3 DEF Trigger!TypeOK
<1>18. CASE Trigger!refetch
  <2>1. /\ UNCHANGED <<registry, spec, edits, status, tseen, pseen, active, timer>>
        /\ queued' \in BOOLEAN /\ faults' \in 0..MaxFaults
    BY <1>0, <1>3, <1>18 DEF Trigger!refetch, Trigger!Upserted, Trigger!failUpsert
  <2>2. job' \in Trigger!Job /\ job'.pc \in {"idle", "patch"}
    <3>1. job.stamped \in Trigger!Ages
      BY <1>0, <1>18 DEF Trigger!refetch
    <3>2. job' \in {Trigger!Idle, [Trigger!ToPatch EXCEPT !.stamped = job.stamped, !.requeue = TRUE],
                    [Trigger!ToPatch EXCEPT !.blocked = TRUE]}
      BY <1>18 DEF Trigger!refetch, Trigger!Upserted, Trigger!failUpsert
    <3> QED
      BY <1>2, <3>1, <3>2
  <2>3. /\ promo' \in Trigger!Optional(Trigger!Promotion) /\ run' \in Trigger!Run
        /\ promo' # None => Verified(promo')
        /\ Trigger!PromotionIsSpaced
    BY <1>18, RefetchIsVerified
  <2> QED
    BY <1>0, <2>1, <2>2, <2>3 DEF Trigger!TypeOK
<1>9. CASE Trigger!patchStatus
  <2>1. status' \in Trigger!TriggerStatus
    BY <1>0, <1>9 DEF Trigger!patchStatus, Trigger!TriggerStatus, Trigger!Job
  <2>2. queued' \in BOOLEAN /\ timer' \in BOOLEAN
    BY <1>0, <1>9 DEF Trigger!patchStatus, Trigger!Job
  <2> QED
    BY <1>0, <1>2, <1>9, <2>1, <2>2 DEF Trigger!patchStatus, Trigger!TypeOK, Trigger!PromotionIsSpaced
<1>10. CASE Trigger!failPatch
  BY <1>0, <1>2, <1>3, <1>10 DEF Trigger!failPatch, Trigger!TypeOK, Trigger!PromotionIsSpaced
<1>11. CASE Trigger!Wakeup
  <2>1. CASE Trigger!poll
    BY <1>0, <2>1 DEF Trigger!poll, Trigger!TypeOK, Trigger!PromotionIsSpaced
  <2>2. CASE Trigger!syncTrigger
    BY <1>0, <2>2 DEF Trigger!syncTrigger, Trigger!TypeOK, Trigger!PromotionIsSpaced
  <2>3. CASE Trigger!syncPromotion
    BY <1>0, <2>3 DEF Trigger!syncPromotion, Trigger!TypeOK, Trigger!PromotionIsSpaced
  <2>4. CASE Trigger!syncRuns
    BY <1>0, <2>4 DEF Trigger!syncRuns, Trigger!TypeOK, Trigger!PromotionIsSpaced
  <2> QED
    BY <1>11, <2>1, <2>2, <2>3, <2>4 DEF Trigger!Wakeup
<1>12. CASE Trigger!tick
  <2>1. /\ UNCHANGED <<registry, spec, edits, run, active, queued, timer, faults>>
        /\ promo' = Trigger!Aged(promo) /\ pseen' = Trigger!Aged(pseen)
    BY <1>12 DEF Trigger!tick
  <2>2. /\ status' \in Trigger!TriggerStatus
    <3> DEFINE a == Trigger!Older(status.last)
    <3>1. status.last \in Trigger!Optional(Trigger!Ages) /\ a \in Trigger!Optional(Trigger!Ages)
      BY <1>0, OlderIsAge DEF Trigger!TriggerStatus
    <3>2. status' = [status EXCEPT !.last = a]
      BY <1>12 DEF Trigger!tick
    <3> HIDE DEF a
    <3> QED
      BY <1>0, <3>1, <3>2 DEF Trigger!TriggerStatus
  <2>3. tseen' \in [spec : Trigger!TriggerSpec, status : Trigger!TriggerStatus]
    <3> DEFINE a == Trigger!Older(tseen.status.last)
    <3>1. /\ tseen.status.last \in Trigger!Optional(Trigger!Ages)
          /\ a \in Trigger!Optional(Trigger!Ages)
      BY <1>0, OlderIsAge DEF Trigger!TriggerStatus
    <3>2. tseen' = [tseen EXCEPT !.status.last = a]
      BY <1>12 DEF Trigger!tick
    <3> HIDE DEF a
    <3> QED
      BY <1>0, <3>1, <3>2 DEF Trigger!TriggerStatus
  <2>4. /\ job' \in Trigger!Job /\ job'.pc = job.pc
        /\ job'.version = job.version /\ job'.required = job.required
        /\ job.stamped \in Trigger!Ages => job'.stamped \in Trigger!Ages
    <3> DEFINE a == Trigger!Older(job.stamped)
    <3>1. a \in Trigger!Optional(Trigger!Ages) /\ (job.stamped \in Trigger!Ages => a \in Trigger!Ages)
      BY <1>0, OlderIsAge DEF Trigger!Job
    <3>2. job' = [job EXCEPT !.stamped = a]
      BY <1>12 DEF Trigger!tick
    <3> HIDE DEF a
    <3> QED
      BY <1>0, <3>1, <3>2 DEF Trigger!Job
  <2>5. /\ promo' \in Trigger!Optional(Trigger!Promotion) /\ pseen' \in Trigger!Optional(Trigger!Promotion)
        /\ promo' # None => /\ promo # None /\ promo'.version = promo.version
                            /\ promo'.required = promo.required
    BY <1>0, <2>1, AgedIsPromotion
  <2>6. /\ job'.pc \in {"upsert", "refetch"} => Verified(job')
        /\ promo' # None => Verified(promo')
    BY <1>0, <2>4, <2>5 DEF Verified
  <2>7. ~(promo # None /\ promo' # None /\ promo'.version # promo.version)
    BY <2>5
  <2> QED
    BY <1>0, <2>1, <2>2, <2>3, <2>4, <2>5, <2>6, <2>7 DEF Trigger!TypeOK, Trigger!PromotionIsSpaced
<1>13. ASSUME NEW t \in Tags, Trigger!push(t)
       PROVE  TriggerInv' /\ Trigger!PromotionIsSpaced
  <2>1. registry' \in [Tags -> Trigger!Optional(Digests)]
    BY <1>0, <1>13 DEF Trigger!push, Trigger!Optional
  <2> QED
    BY <1>0, <1>4, <1>13, <2>1 DEF Trigger!push, Trigger!TypeOK, Trigger!PromotionIsSpaced
<1>14. CASE Trigger!editTrigger
  <2>1. spec' \in Trigger!TriggerSpec
    <3>1. spec.template \in {1, 2}
      BY <1>0 DEF Trigger!TriggerSpec, Trigger!Templates
    <3>2. 3 - spec.template \in {1, 2}
      BY <3>1
    <3> DEFINE other == 3 - spec.template
    <3>3. spec' \in {[spec EXCEPT !.suspended = ~@], [spec EXCEPT !.required = ~@],
                     [spec EXCEPT !.template = other]}
      BY <1>14 DEF Trigger!editTrigger
    <3> HIDE DEF other
    <3> QED
      BY <1>0, <3>2, <3>3 DEF Trigger!TriggerSpec, Trigger!Templates, other
  <2> QED
    BY <1>0, <1>4, <1>14, <2>1 DEF Trigger!editTrigger, Trigger!TypeOK, Trigger!PromotionIsSpaced
<1>15. CASE Trigger!deletePromotion
  <2>1. run' \in Trigger!Run /\ promo' = None
    BY <1>15 DEF Trigger!deletePromotion, Trigger!Run
  <2> QED
    BY <1>0, <1>4, <1>15, <2>1 DEF Trigger!deletePromotion, Trigger!TypeOK, Trigger!PromotionIsSpaced,
                                   Trigger!Optional
<1>16. CASE Trigger!stampRun \/ Trigger!endRun
  <2>1. run' \in Trigger!Run
    <3>1. CASE Trigger!stampRun
      BY <3>1 DEF Trigger!stampRun, Trigger!Run
    <3>2. CASE Trigger!endRun
      BY <1>0, <3>2 DEF Trigger!endRun, Trigger!Run
    <3> QED
      BY <1>16, <3>1, <3>2
  <2> QED
    BY <1>0, <1>16, <2>1 DEF Trigger!stampRun, Trigger!endRun, Trigger!TypeOK, Trigger!PromotionIsSpaced
<1>17. CASE UNCHANGED Trigger!vars
  BY <1>0, <1>17 DEF Trigger!vars, Trigger!TypeOK, Trigger!PromotionIsSpaced
<1> QED
  BY <1>5, <1>6, <1>7, <1>8, <1>9, <1>10, <1>11, <1>12, <1>13, <1>14, <1>15, <1>16, <1>17,
     <1>18 DEF Trigger!Next, Trigger!Reconcile

\* A Trigger that requires a signature promotes what it has verified, by its
\* digest, so that moving the tag changes nothing (Resolve, artifactVersion); and
\* any Trigger, once it has seen its last update, updates again not before the
\* cooldown is over, also when the status patch that should record the update
\* failed (cooldownRemaining), unless it meant to create the Promotion (refetch).
THEOREM TriggersPromoteTheVerified ==
    ASSUME TriggerAssumption
    PROVE  Trigger!Spec => []Trigger!PromotedIsVerified /\ [][Trigger!PromotionIsSpaced]_(Trigger!vars)
<1>1. Trigger!Init => TriggerInv
  BY TriggerInit
<1>2. TriggerInv => Trigger!PromotedIsVerified
  BY DEF TriggerInv, TriggerAssumption, Verified, Trigger!PromotedIsVerified
<1> QED
  BY <1>1, <1>2, TriggerStep, PTL DEF Trigger!Spec

-----------------------------------------------------------------------------
(* Heartbeats.                                                             *)

HeartAssumption == Threshold \in Nat /\ MaxFaults \in Nat

Misses == 0..Threshold

\* The misses a patch may write are within m.
Writes(patch, m) == \A n \in patch.misses : n <= m

\* While the Lease is not fresh nobody counts more misses than were observed;
\* while it is fresh and that was noted nobody counts any.
HeartInv ==
    /\ Heart!TypeOK
    /\ lease # "fresh" =>
        /\ cluster.misses <= streak /\ seen.misses <= streak
        /\ \A patch \in hb : Writes(patch, streak)
    /\ lease = "fresh" /\ noted =>
        /\ cluster.misses = 0
        /\ \A patch \in hb : Writes(patch, 0)
    /\ \A patch \in hb : patch.noting => Writes(patch, 0) /\ (patch.misses = {} => cluster.misses = 0)
    /\ Heart!UnreachableEarned

\* A merge patch writes a value it was sent, or leaves the old one.
LEMMA MergeIsOneOf ==
    ASSUME NEW S, NEW sent \in Heart!Optional(S), NEW now
    PROVE  /\ sent = {} => Heart!Merge(sent, now) = now
           /\ sent # {} => Heart!Merge(sent, now) \in sent /\ Heart!Merge(sent, now) \in S
  BY DEF Heart!Optional, Heart!Merge

\* What AtMost returns.
LEMMA AtMostIsMinimum ==
    ASSUME NEW a \in Nat, NEW b \in Nat
    PROVE  /\ Heart!AtMost(a, b) \in 0..b /\ Heart!AtMost(a, b) <= a
           /\ a >= b => Heart!AtMost(a, b) = b
           /\ a < b => Heart!AtMost(a, b) = a
  BY DEF Heart!AtMost

\* What a heartbeat reconcile decides: it counts a miss only for a Lease that is
\* stale or missing, and says Unreachable only if that fills the count.
Decides(c, v, d) ==
    LET n == Heart!AtMost(c.misses + 1, Threshold)
    IN  /\ d.reason \in Heart!Reason /\ d.misses \in Misses
        /\ d.misses \in {0, c.misses, n}
        /\ v = "fresh" => d.misses = 0
        /\ v = "error" => d.misses \in {0, c.misses}
        /\ d.reason = "Unreachable" => v \in {"stale", "missing"} /\ n >= Threshold

LEMMA DesiredReady ==
    ASSUME HeartAssumption, NEW c \in Heart!Cluster, NEW v \in {"missing", "fresh", "stale", "error"},
           mode \in {"pull", "push"}
    PROVE  Decides(c, v, Heart!computeDesiredReady(c, v))
<1> DEFINE n == Heart!AtMost(c.misses + 1, Threshold)
           d == Heart!computeDesiredReady(c, v)
<1>1. c.misses \in 0..Threshold /\ c.suspend \in BOOLEAN /\ c.used \in BOOLEAN
  BY DEF Heart!Cluster
<1>2. n \in Misses /\ 0 \in Misses /\ c.misses \in Misses
  BY <1>1, AtMostIsMinimum DEF HeartAssumption, Misses
<1>3. /\ "Suspended" \in Heart!Reason /\ "PushModeNoHeartbeat" \in Heart!Reason
      /\ "NotRegistered" \in Heart!Reason /\ "HeartbeatStale" \in Heart!Reason
      /\ "HeartbeatFresh" \in Heart!Reason /\ "Unreachable" \in Heart!Reason
  BY DEF Heart!Reason
<1>4. ASSUME c.suspend \/ mode = "push" \/ ~c.used
      PROVE  \E r \in {"Suspended", "PushModeNoHeartbeat", "NotRegistered"} : d = [reason |-> r, misses |-> 0]
  BY <1>1, <1>4 DEF Heart!computeDesiredReady
<1>5. ASSUME ~c.suspend, mode = "pull", c.used
      PROVE  d = IF v = "error" THEN [reason |-> "HeartbeatStale", misses |-> c.misses]
                 ELSE IF v = "fresh" THEN [reason |-> "HeartbeatFresh", misses |-> 0]
                 ELSE [reason |-> IF n >= Threshold THEN "Unreachable" ELSE "HeartbeatStale", misses |-> n]
  BY <1>5 DEF Heart!computeDesiredReady
<1> SUFFICES Decides(c, v, d)
  OBVIOUS
<1> HIDE DEF d
<1>6. CASE c.suspend \/ mode = "push" \/ ~c.used
  BY <1>2, <1>3, <1>4, <1>6 DEF Decides
<1>7. CASE ~c.suspend /\ mode = "pull" /\ c.used
  <2>1. CASE v = "error"
    BY <1>2, <1>3, <1>5, <1>7, <2>1 DEF Decides
  <2>2. CASE v = "fresh"
    BY <1>2, <1>3, <1>5, <1>7, <2>2 DEF Decides
  <2>3. CASE v \in {"stale", "missing"}
    BY <1>2, <1>3, <1>5, <1>7, <2>3 DEF Decides
  <2> QED
    BY <2>1, <2>2, <2>3
<1> QED
  BY <1>1, <1>6, <1>7

\* A reconcile counts on from what the cache shows, and the history counts along.
LEMMA ReconcileHeartbeat ==
    ASSUME HeartAssumption, HeartInv, NEW v \in {"missing", "fresh", "stale", "error"},
           Heart!reconcileHeartbeat(v)
    PROVE  HeartInv'
<1> USE DEF HeartInv
<1>0. /\ mode \in {"pull", "push"} /\ cluster \in Heart!Cluster /\ seen \in Heart!Cluster
      /\ streak \in 0..Threshold /\ faults \in 0..MaxFaults
      /\ seen.misses \in 0..Threshold /\ cluster.misses \in 0..Threshold
      /\ seen.conds \in Heart!Conditions
  BY DEF Heart!TypeOK, Heart!Cluster
<1> DEFINE d == Heart!computeDesiredReady(seen, v)
           n == Heart!AtMost(seen.misses + 1, Threshold)
           s == Heart!AtMost(streak + 1, Threshold)
           sent == Heart!Sent(d.misses, seen.misses)
           conds == [seen.conds EXCEPT !.ready = d.reason]
           noting == seen.misses = cluster.misses /\ d.misses = 0
           new == [conds |-> conds, misses |-> sent, noting |-> noting]
<1>1. /\ hb' = {new}
      /\ UNCHANGED <<mode, cluster, seen, lease, up, fleet, reg, noted>>
      /\ (v = lease /\ faults' = faults) \/ (v = "error" /\ faults' \in 0..MaxFaults)
  BY <1>0 DEF Heart!reconcileHeartbeat, Heart!readLeaseFreshness, Heart!Fault, HeartAssumption
<1>2. streak' = IF v = "fresh" THEN 0 ELSE IF v = "error" THEN streak ELSE s
  BY DEF Heart!reconcileHeartbeat
<1>3. /\ d.reason \in Heart!Reason /\ d.misses \in Misses /\ d.misses \in {0, seen.misses, n}
      /\ v = "fresh" => d.misses = 0
      /\ v = "error" => d.misses \in {0, seen.misses}
      /\ d.reason = "Unreachable" => v \in {"stale", "missing"} /\ n >= Threshold
  BY <1>0, DesiredReady DEF Decides
<1>4. /\ n \in 0..Threshold /\ s \in 0..Threshold /\ s >= streak
      /\ n <= seen.misses + 1
      /\ seen.misses <= streak => n <= s
  <2>1. seen.misses + 1 \in Nat /\ streak + 1 \in Nat /\ Threshold \in Nat
    BY <1>0 DEF HeartAssumption
  <2>2. /\ n \in 0..Threshold /\ n <= seen.misses + 1
        /\ s \in 0..Threshold
        /\ streak + 1 >= Threshold => s = Threshold
        /\ streak + 1 < Threshold => s = streak + 1
    BY <2>1, AtMostIsMinimum
  <2> HIDE DEF n, s
  <2> QED
    BY <1>0, <2>1, <2>2
<1>5. streak' \in 0..Threshold /\ (v # "fresh" => streak' >= streak)
  BY <1>0, <1>2, <1>4 DEF HeartAssumption
<1> HIDE DEF d, n, s
<1>6. sent = IF d.misses # seen.misses THEN {d.misses} ELSE {}
  BY DEF Heart!Sent
<1>7. sent \in Heart!Optional(0..Threshold)
  BY <1>3, <1>6 DEF Heart!Optional, Misses
<1>8. conds \in Heart!Conditions /\ conds.ready = d.reason
  BY <1>0, <1>3 DEF Heart!Conditions
<1>9. noting \in BOOLEAN
  OBVIOUS
<1> HIDE DEF conds, sent
<1>10. new.conds = conds /\ new.misses = sent /\ new.noting = noting
  OBVIOUS
<1>11. new \in Heart!HeartbeatPatch
  <2> HIDE DEF noting
  <2> QED
    BY <1>7, <1>8, <1>9 DEF Heart!HeartbeatPatch
<1>12. hb' \in Heart!Optional(Heart!HeartbeatPatch)
  BY <1>1, <1>11 DEF Heart!Optional
<1>13. noting => Writes(new, 0) /\ (new.misses = {} => cluster.misses = 0)
  BY <1>0, <1>6, <1>10 DEF Writes
<1>14. lease # "fresh" => Writes(new, streak') /\ cluster.misses <= streak' /\ seen.misses <= streak'
  <2> SUFFICES ASSUME lease # "fresh"
               PROVE  Writes(new, streak') /\ cluster.misses <= streak' /\ seen.misses <= streak'
    OBVIOUS
  <2>1. /\ v # "fresh" /\ streak' >= streak /\ cluster.misses <= streak /\ seen.misses <= streak
        /\ v # "error" => streak' = s /\ n <= s
    BY <1>1, <1>2, <1>4, <1>5
  <2>2. d.misses <= streak'
    BY <1>0, <1>3, <1>4, <1>5, <2>1
  <2> QED
    BY <1>0, <1>5, <1>6, <1>10, <2>1, <2>2 DEF Writes
<1>15. lease = "fresh" /\ noted => cluster.misses = 0 /\ Writes(new, 0)
  BY <1>1, <1>3, <1>6, <1>10 DEF Writes
<1>16. new.conds.ready = "Unreachable" => streak' >= Threshold
  <2> SUFFICES ASSUME d.reason = "Unreachable" PROVE streak' >= Threshold
    BY <1>8, <1>10
  <2>1. v \in {"stale", "missing"} /\ n >= Threshold
    BY <1>3
  <2>2. lease # "fresh" /\ streak' = s /\ n <= s
    BY <1>1, <1>2, <1>4, <2>1
  <2> QED
    BY <1>4, <2>1, <2>2 DEF HeartAssumption
<1> HIDE DEF new, noting
<1>17. new.noting = noting
  BY <1>10
<1> QED
  BY <1>0, <1>1, <1>5, <1>12, <1>13, <1>14, <1>15, <1>16, <1>17
     DEF Heart!TypeOK, Heart!UnreachableEarned

\* The patch writes what it was sent; a patch that notes the Lease leaves no miss.
LEMMA ApplyDesired ==
    ASSUME HeartAssumption, HeartInv, Heart!applyDesired
    PROVE  HeartInv'
<1> USE DEF HeartInv
<1>1. PICK patch \in hb :
        /\ cluster' = [cluster EXCEPT !.conds = patch.conds,
                                      !.misses = Heart!Merge(patch.misses, cluster.misses)]
        /\ noted' = (noted \/ patch.noting)
  BY DEF Heart!applyDesired
<1> DEFINE m == Heart!Merge(patch.misses, cluster.misses)
<1>2. /\ cluster \in Heart!Cluster /\ cluster.misses \in 0..Threshold /\ streak \in 0..Threshold
      /\ noted \in BOOLEAN
  BY DEF Heart!TypeOK, Heart!Cluster
<1>3. patch \in Heart!HeartbeatPatch
  BY DEF Heart!TypeOK, Heart!Optional
<1>4. /\ patch.conds \in Heart!Conditions /\ patch.misses \in Heart!Optional(0..Threshold)
      /\ patch.noting \in BOOLEAN
  BY <1>3 DEF Heart!HeartbeatPatch
<1>5. /\ m \in 0..Threshold
      /\ patch.misses = {} => m = cluster.misses
      /\ patch.misses # {} => m \in patch.misses
  BY <1>2, <1>4, MergeIsOneOf
<1> HIDE DEF m
<1>6. cluster' = [cluster EXCEPT !.conds = patch.conds, !.misses = m]
  BY <1>1 DEF m
<1>7. cluster' \in Heart!Cluster /\ cluster'.misses = m
  BY <1>2, <1>4, <1>5, <1>6 DEF Heart!Cluster
<1>8. hb' = {} /\ UNCHANGED <<mode, seen, lease, up, fleet, reg, streak, faults>>
  BY DEF Heart!applyDesired
<1>9. lease # "fresh" => m <= streak
  BY <1>2, <1>5 DEF Writes
<1>10. patch.noting => m = 0
  BY <1>2, <1>5 DEF Writes
<1>11. lease = "fresh" /\ noted => m = 0
  BY <1>2, <1>5 DEF Writes
<1>12. hb' \in Heart!Optional(Heart!HeartbeatPatch) /\ noted' \in BOOLEAN
  BY <1>1, <1>2, <1>4, <1>8 DEF Heart!Optional
<1> QED
  BY <1>1, <1>7, <1>8, <1>9, <1>10, <1>11, <1>12 DEF Heart!TypeOK, Heart!UnreachableEarned

\* Every step keeps what is counted within what was observed: only a heartbeat
\* reconcile counts, and the others' patches carry the conditions alone.
LEMMA HeartStep ==
    ASSUME HeartAssumption, HeartInv, [Heart!Next]_(Heart!vars)
    PROVE  HeartInv'
<1> USE DEF HeartInv
<1>0. /\ mode \in {"pull", "push"}
      /\ cluster \in Heart!Cluster /\ seen \in Heart!Cluster
      /\ lease \in {"missing", "fresh", "stale"} /\ up \in BOOLEAN
      /\ hb \in Heart!Optional(Heart!HeartbeatPatch)
      /\ fleet \in [busy : BOOLEAN, conds : Heart!Optional(Heart!Conditions)]
      /\ reg \in BOOLEAN /\ noted \in BOOLEAN /\ streak \in 0..Threshold /\ faults \in 0..MaxFaults
      /\ cluster.misses \in 0..Threshold /\ seen.misses \in 0..Threshold
      /\ cluster.conds \in Heart!Conditions /\ seen.conds \in Heart!Conditions
  BY DEF Heart!TypeOK, Heart!Cluster
<1>1. Heart!Fault => faults' \in 0..MaxFaults
  BY <1>0 DEF Heart!Fault, HeartAssumption
<1>2. {} \in Heart!Optional(Heart!HeartbeatPatch) /\ {} \in Heart!Optional(Heart!Conditions)
  BY DEF Heart!Optional
<1>3. \A c \in Heart!Conditions :
        LET new == [cluster EXCEPT !.conds = c]
        IN  new \in Heart!Cluster /\ new.misses = cluster.misses
  BY <1>0 DEF Heart!Cluster
<1>4. ASSUME NEW v \in {"missing", "fresh", "stale", "error"}, Heart!reconcileHeartbeat(v)
      PROVE  HeartInv'
  BY <1>4, ReconcileHeartbeat
<1>5. CASE Heart!applyDesired
  BY <1>5, ApplyDesired
<1>6. CASE Heart!failPatch
  BY <1>0, <1>1, <1>2, <1>6 DEF Heart!failPatch, Heart!TypeOK, Heart!UnreachableEarned
<1>7. ASSUME NEW ready \in BOOLEAN, Heart!reconcileFleet(ready)
      PROVE  HeartInv'
  <2> DEFINE reason == IF ready THEN "AllHelmReleasesReady" ELSE "Converging"
             c == [seen.conds EXCEPT !.ready = reason]
             sent == Heart!Sent(c, seen.conds)
  <2>1. c \in Heart!Conditions
    BY <1>0 DEF Heart!Conditions, Heart!Reason
  <2>2. sent \in Heart!Optional(Heart!Conditions)
    <3> HIDE DEF c
    <3> QED
      BY <2>1 DEF Heart!Sent, Heart!Optional
  <2>3. /\ fleet' = [busy |-> TRUE, conds |-> sent]
        /\ UNCHANGED <<mode, cluster, seen, lease, up, hb, reg, noted, streak, faults>>
    BY <1>7 DEF Heart!reconcileFleet
  <2> HIDE DEF sent
  <2>4. fleet' \in [busy : BOOLEAN, conds : Heart!Optional(Heart!Conditions)]
    BY <2>2, <2>3
  <2> QED
    BY <1>0, <2>3, <2>4 DEF Heart!TypeOK, Heart!UnreachableEarned
<1>8. CASE Heart!syncFleetClusterStatus
  <2> DEFINE c == Heart!Merge(fleet.conds, cluster.conds)
  <2>1. c \in Heart!Conditions
    BY <1>0, MergeIsOneOf
  <2>2. cluster' = [cluster EXCEPT !.conds = c]
    BY <1>8 DEF Heart!syncFleetClusterStatus
  <2> HIDE DEF c
  <2>3. cluster' \in Heart!Cluster /\ cluster'.misses = cluster.misses
    BY <1>3, <2>1, <2>2
  <2>4. fleet' \in [busy : BOOLEAN, conds : Heart!Optional(Heart!Conditions)]
    BY <1>2, <1>8 DEF Heart!syncFleetClusterStatus, Heart!NoFleetPatch
  <2>5. UNCHANGED <<mode, seen, lease, up, hb, reg, noted, streak, faults>>
    BY <1>8 DEF Heart!syncFleetClusterStatus
  <2> QED
    BY <1>0, <2>3, <2>4, <2>5 DEF Heart!TypeOK, Heart!UnreachableEarned
<1>9. CASE Heart!markBootstrapUsed
  <2>1. cluster' \in Heart!Cluster /\ cluster'.misses = cluster.misses
    BY <1>0, <1>9 DEF Heart!markBootstrapUsed, Heart!Cluster, Heart!Conditions
  <2>2. UNCHANGED <<mode, seen, lease, up, hb, fleet, reg, noted, streak, faults>>
    BY <1>9 DEF Heart!markBootstrapUsed
  <2> QED
    BY <1>0, <2>1, <2>2 DEF Heart!TypeOK, Heart!UnreachableEarned
<1>10. CASE Heart!handleRegistered
  <2> DEFINE c == [seen.conds EXCEPT !.registered = TRUE]
  <2>1. c \in Heart!Conditions
    BY <1>0 DEF Heart!Conditions
  <2>2. cluster' = cluster \/ cluster' = [cluster EXCEPT !.conds = c]
    BY <1>10 DEF Heart!handleRegistered
  <2> HIDE DEF c
  <2>3. cluster' \in Heart!Cluster /\ cluster'.misses = cluster.misses
    BY <1>0, <1>3, <2>1, <2>2
  <2>4. reg' \in BOOLEAN /\ UNCHANGED <<mode, seen, lease, up, hb, fleet, noted, streak, faults>>
    BY <1>10 DEF Heart!handleRegistered
  <2> QED
    BY <1>0, <2>3, <2>4 DEF Heart!TypeOK, Heart!UnreachableEarned
<1>11. CASE Heart!heartbeatTick
  BY <1>0, <1>11 DEF Heart!heartbeatTick, Heart!TypeOK, Heart!UnreachableEarned
<1>12. CASE Heart!leaseAges
  <2>1. /\ cluster.misses = 0 /\ seen.misses = 0
        /\ \A patch \in hb : Writes(patch, 0)
    BY <1>12 DEF Heart!leaseAges
  <2>2. \A patch \in hb : patch.misses \subseteq 0..Threshold
    BY <1>0 DEF Heart!Optional, Heart!HeartbeatPatch
  <2>3. /\ lease' = "stale" /\ UNCHANGED <<mode, cluster, seen, up, hb, fleet, reg, noted, streak, faults>>
    BY <1>12 DEF Heart!leaseAges
  <2>4. \A patch \in hb : Writes(patch, streak)
    BY <1>0, <2>1, <2>2 DEF Writes
  <2> QED
    BY <1>0, <2>1, <2>3, <2>4 DEF Heart!TypeOK, Heart!UnreachableEarned
<1>13. CASE Heart!goDown
  BY <1>0, <1>1, <1>13 DEF Heart!goDown, Heart!TypeOK, Heart!UnreachableEarned
<1>14. CASE Heart!comeUp
  BY <1>0, <1>14 DEF Heart!comeUp, Heart!TypeOK, Heart!UnreachableEarned
<1>15. CASE Heart!toggleSuspend
  <2>1. cluster' \in Heart!Cluster /\ cluster'.misses = cluster.misses
    BY <1>0, <1>15 DEF Heart!toggleSuspend, Heart!Cluster
  <2>2. UNCHANGED <<mode, seen, lease, up, hb, fleet, reg, noted, streak>> /\ faults' \in 0..MaxFaults
    BY <1>1, <1>15 DEF Heart!toggleSuspend
  <2> QED
    BY <1>0, <2>1, <2>2 DEF Heart!TypeOK, Heart!UnreachableEarned
<1>16. CASE Heart!syncCluster
  <2>1. seen' = cluster /\ UNCHANGED <<mode, cluster, lease, up, hb, fleet, noted, streak, faults>>
    BY <1>16 DEF Heart!syncCluster
  <2>2. reg' \in BOOLEAN
    BY <1>0, <1>16, Zenon DEF Heart!syncCluster
  <2> QED
    BY <1>0, <2>1, <2>2 DEF Heart!TypeOK, Heart!UnreachableEarned
<1>17. CASE UNCHANGED Heart!vars
  BY <1>0, <1>17 DEF Heart!vars, Heart!TypeOK, Heart!UnreachableEarned
<1> QED
  BY <1>4, <1>5, <1>6, <1>7, <1>8, <1>9, <1>10, <1>11, <1>12, <1>13, <1>14, <1>15, <1>16, <1>17
     DEF Heart!Next, Heart!Heartbeats, Heart!Fleets

\* A cluster is called unreachable only after Threshold stale observations in a
\* row, also when the Fleet and bootstrap reconcilers patch the conditions with
\* old copies meanwhile and a patch of the count is lost (computeDesiredReady).
THEOREM UnreachableIsEarned ==
    ASSUME HeartAssumption
    PROVE  Heart!Spec => []Heart!UnreachableEarned
<1>1. Heart!Init => HeartInv
  <2> SUFFICES ASSUME Heart!Init PROVE HeartInv
    OBVIOUS
  <2>1. Heart!NewCluster \in Heart!Cluster /\ Heart!NewCluster.misses = 0
    BY DEF Heart!NewCluster, Heart!Cluster, Heart!Conditions, Heart!Reason, HeartAssumption
  <2>2. Heart!NoFleetPatch \in [busy : BOOLEAN, conds : Heart!Optional(Heart!Conditions)]
    BY DEF Heart!NoFleetPatch, Heart!Optional
  <2>3. {} \in Heart!Optional(Heart!HeartbeatPatch) /\ 0 \in 0..Threshold /\ 0 \in 0..MaxFaults
    BY DEF Heart!Optional, HeartAssumption
  <2>4. /\ mode \in {"pull", "push"} /\ cluster = Heart!NewCluster /\ seen = Heart!NewCluster
        /\ lease = "missing" /\ hb = {} /\ fleet = Heart!NoFleetPatch /\ streak = 0 /\ faults = 0
    BY DEF Heart!Init
  <2>5. up \in BOOLEAN /\ reg \in BOOLEAN /\ noted \in BOOLEAN
    BY DEF Heart!Init
  <2>6. Heart!TypeOK
    BY <2>1, <2>2, <2>3, <2>4, <2>5 DEF Heart!TypeOK
  <2> QED
    BY <2>1, <2>4, <2>6 DEF HeartInv, Heart!UnreachableEarned
<1>2. HeartInv => Heart!UnreachableEarned
  BY DEF HeartInv
<1> QED
  BY <1>1, <1>2, HeartStep, PTL DEF Heart!Spec

-----------------------------------------------------------------------------
(* Registration.                                                           *)

BootAssumption == MaxCSRs \in Nat /\ MaxFaults \in Nat

BoundTo(x) == cluster.used /\ cluster.bound = x

NothingGranted == ~sa /\ token = "none" /\ ~rbac

\* The cached Cluster is behind in what never goes back: the deletion, the
\* finalizer, the binding of the slot.
HubInv ==
    /\ current => seen = cluster
    /\ seen.deleting => cluster.deleting
    /\ seen.finalizer => cluster.finalizer
    /\ seen.used => BoundTo(seen.bound)

\* A cached request has been made, and for the same purpose.
RequestsInv ==
    \A x \in Boot!CSRs : csrSeen[x].state # "none" =>
        csr[x].state # "none" /\ csr[x].purpose = csrSeen[x].purpose

\* What a reconcile relies on between two of its steps.
JobInv ==
    /\ job.pc # "idle" => seen.finalizer
    /\ job.pc \in {"cleanup", "unfinalize"} => seen.deleting
    /\ job.pc \in {"grant", "mark", "approve", "deny"} =>
        job.csr \in Boot!CSRs /\ csrSeen[job.csr].state # "none"
    /\ job.pc \in {"grant", "mark"} =>
        /\ job.copy.used => BoundTo(job.copy.bound)
        /\ job.fresh => job.copy = cluster
    /\ job.pc \in {"mark", "approve"} => rbac
    /\ job.pc = "approve" /\ csr[job.csr].purpose = "bootstrap" => BoundTo(job.csr)
    /\ job.pc = "unfinalize" => NothingGranted

\* The slot is bound to what is approved, and the role is there unless the
\* Cluster is going away.
ApprovedInv == \A x \in Boot!Approved : BoundTo(x) /\ (rbac \/ cluster.deleting)

\* What is granted goes with the finalizer; a Cluster that is gone is not
\* provisioned again from a cache that still shows it.
GrantsInv ==
    /\ ~NothingGranted => cluster.finalizer
    /\ ~cluster.exists =>
        /\ NothingGranted
        /\ \/ ~cluster.finalizer
           \/ seen.deleting /\ job.pc \in {"idle", "cleanup", "unfinalize"}

BootInv == Boot!TypeOK /\ HubInv /\ RequestsInv /\ JobInv /\ ApprovedInv /\ GrantsInv

\* c is the Cluster but for fields that come and go.
Resembles(c) ==
    /\ c \in Boot!Cluster
    /\ c.exists = cluster.exists /\ c.deleting = cluster.deleting /\ c.finalizer = cluster.finalizer
    /\ c.used = cluster.used /\ c.bound = cluster.bound

\* Fields of the Cluster, of a request and of a job.
LEMMA BootTypes ==
    ASSUME BootInv
    PROVE  /\ \A c \in {cluster, seen, job.copy} :
                /\ c \in Boot!Cluster
                /\ c.exists \in BOOLEAN /\ c.deleting \in BOOLEAN /\ c.suspend \in BOOLEAN
                /\ c.finalizer \in BOOLEAN /\ c.expires \in BOOLEAN /\ c.used \in BOOLEAN
                /\ c.bound \in Boot!CSRs \cup {Boot!NoCSR} /\ c.issued \in BOOLEAN
           /\ current \in BOOLEAN /\ job \in Boot!Job
           /\ csr \in [Boot!CSRs -> Boot!Request] /\ csrSeen \in [Boot!CSRs -> Boot!Request]
           /\ sa \in BOOLEAN /\ token \in {"none", "valid", "old"} /\ rbac \in BOOLEAN
           /\ slotOver \in BOOLEAN /\ queued \in BOOLEAN
           /\ spoke \in [pc : {"start", "wait", "persist", "run", "renew", "save"},
                         csr : Boot!CSRs \cup {Boot!NoCSR}, old : BOOLEAN]
           /\ stored \in BOOLEAN /\ faults \in 0..MaxFaults /\ lost \in BOOLEAN
  BY DEF BootInv, Boot!TypeOK, Boot!Job, Boot!Cluster

\* The job that no reconcile is in.
LEMMA IdleIsJob == Boot!Idle \in Boot!Job /\ Boot!Idle.pc = "idle"
<1>1. Boot!NewCluster \in Boot!Cluster
  BY DEF Boot!NewCluster, Boot!Cluster
<1> QED
  BY <1>1 DEF Boot!Idle, Boot!Job

\* A write leaves the cache behind unless it changes nothing.
LEMMA WriteLeavesCache ==
    ASSUME BootInv, NEW c \in Boot!Cluster, Boot!Write(c)
    PROVE  /\ cluster' = c /\ seen' = seen
           /\ current' \in BOOLEAN /\ (current' => seen' = cluster')
<1>1. current \in BOOLEAN
  BY BootTypes
<1> QED
  BY <1>1 DEF BootInv, HubInv, Boot!Write

EdgeOK ==
    /\ slotOver \in BOOLEAN /\ queued \in BOOLEAN
    /\ spoke \in [pc : {"start", "wait", "persist", "run", "renew", "save"},
                  csr : Boot!CSRs \cup {Boot!NoCSR}, old : BOOLEAN]
    /\ stored \in BOOLEAN /\ faults \in 0..MaxFaults /\ lost \in BOOLEAN

\* A step that leaves alone what registration is about, and whose reconcile, if
\* there is one, ends or goes on with the copy it has, disturbs nothing.
LEMMA QuietStep ==
    ASSUME BootInv, Resembles(cluster'), UNCHANGED <<seen, csr, csrSeen, sa, token, rbac>>, EdgeOK',
           current' \in BOOLEAN, current' => seen = cluster',
           job' \in Boot!Job,
           \/ job'.pc = "idle"
           \/ /\ job'.pc = job.pc /\ job'.csr = job.csr /\ job'.copy = job.copy
              /\ job'.fresh => job.fresh /\ cluster' = cluster
    PROVE  BootInv'
<1>1. Boot!TypeOK'
  BY BootTypes DEF Boot!TypeOK, EdgeOK, Resembles, BootInv
<1>2. HubInv' /\ RequestsInv' /\ ApprovedInv'
  BY DEF BootInv, HubInv, RequestsInv, ApprovedInv, Boot!Approved, BoundTo, Resembles
<1>3. JobInv'
  <2>1. CASE job'.pc = "idle"
    BY <2>1 DEF JobInv
  <2>2. CASE /\ job'.pc = job.pc /\ job'.csr = job.csr /\ job'.copy = job.copy
             /\ job'.fresh => job.fresh /\ cluster' = cluster
    BY <2>2 DEF BootInv, JobInv, BoundTo, NothingGranted, Resembles
  <2> QED
    BY <2>1, <2>2
<1>4. GrantsInv'
  BY DEF BootInv, GrantsInv, NothingGranted, Resembles
<1> QED
  BY <1>1, <1>2, <1>3, <1>4 DEF BootInv

\* A reconcile begins with the cached copy, which the finalizer is on.
LEMMA StartStep ==
    ASSUME BootInv, NEW pc \in {"cleanup", "expire", "deny", "grant", "register"},
           NEW x \in Boot!CSRs \cup {Boot!NoCSR}, Boot!Start(pc, x), queued' = FALSE,
           seen.finalizer, IF pc = "cleanup" THEN seen.deleting ELSE ~seen.deleting,
           pc \in {"deny", "grant"} => x \in Boot!CSRs /\ csrSeen[x].state # "none"
    PROVE  BootInv'
<1>1. /\ UNCHANGED <<cluster, seen, current, csr, csrSeen, sa, token, rbac, slotOver, spoke, stored, lost,
                     faults>>
  BY DEF Boot!Start, Boot!hub, Boot!grants, Boot!edge
<1>2. job' \in Boot!Job /\ job'.pc = pc /\ job'.copy = seen /\ job'.fresh = current /\ job'.csr = x
  <2>1. job' = [pc |-> pc, copy |-> seen, fresh |-> current, csr |-> x]
    BY DEF Boot!Start
  <2> QED
    BY <2>1, BootTypes DEF Boot!Job
<1>3. Boot!TypeOK'
  <2>1. cluster' \in Boot!Cluster /\ seen' \in Boot!Cluster /\ current' \in BOOLEAN
    BY <1>1, BootTypes
  <2>2. csr' \in [Boot!CSRs -> Boot!Request] /\ csrSeen' \in [Boot!CSRs -> Boot!Request]
    BY <1>1, BootTypes
  <2>3. /\ sa' \in BOOLEAN /\ token' \in {"none", "valid", "old"} /\ rbac' \in BOOLEAN
        /\ slotOver' \in BOOLEAN /\ queued' \in BOOLEAN /\ stored' \in BOOLEAN /\ lost' \in BOOLEAN
        /\ faults' \in 0..MaxFaults
        /\ spoke' \in [pc : {"start", "wait", "persist", "run", "renew", "save"},
                       csr : Boot!CSRs \cup {Boot!NoCSR}, old : BOOLEAN]
    BY <1>1, BootTypes
  <2> QED
    BY <1>2, <2>1, <2>2, <2>3 DEF Boot!TypeOK
<1>4. HubInv' /\ RequestsInv' /\ ApprovedInv'
  BY <1>1 DEF BootInv, HubInv, RequestsInv, ApprovedInv, Boot!Approved, BoundTo
<1>5. JobInv'
  BY <1>1, <1>2 DEF BootInv, HubInv, JobInv, BoundTo
<1>6. GrantsInv'
  BY <1>1, <1>2 DEF BootInv, HubInv, GrantsInv, NothingGranted
<1> QED
  BY <1>3, <1>4, <1>5, <1>6 DEF BootInv

\* The reconciler's first steps.
LEMMA BeginStep ==
    ASSUME BootAssumption, BootInv,
           \/ Boot!reconcileGone \/ Boot!handleDeletion \/ Boot!handleSuspended
           \/ Boot!addFinalizer \/ Boot!computeExpiresAt \/ Boot!handleExpired
           \/ \E x \in Boot!CSRs : Boot!processCSRsForCluster(x)
           \/ Boot!handleRegistered \/ Boot!ensureBootstrapProvisioned \/ Boot!markAwaitingCSR
    PROVE  BootInv'
<1> USE DEF Boot!hub, Boot!grants, Boot!edge
<1>0. /\ EdgeOK /\ cluster \in Boot!Cluster /\ Resembles(cluster)
      /\ current \in BOOLEAN /\ (current => seen = cluster) /\ job \in Boot!Job
  BY BootTypes DEF EdgeOK, BootInv, HubInv, Resembles
<1>1. CASE Boot!reconcileGone \/ Boot!handleSuspended
  <2>1. /\ UNCHANGED <<cluster, seen, current, csr, csrSeen, sa, token, rbac, slotOver, job, spoke, stored, lost,
                       faults>>
        /\ queued' = FALSE /\ job.pc = "idle"
    BY <1>1 DEF Boot!reconcileGone, Boot!handleSuspended, Boot!Begin
  <2>2. EdgeOK'
    BY <1>0, <2>1 DEF EdgeOK
  <2>3. Resembles(cluster')
    BY <1>0, <2>1
  <2> QED
    BY <1>0, <2>1, <2>2, <2>3, QuietStep
<1>2. CASE Boot!handleDeletion
  BY <1>2, StartStep DEF Boot!handleDeletion, Boot!Begin, Boot!NoCSR
<1>3. CASE Boot!handleExpired
  BY <1>3, StartStep DEF Boot!handleExpired, Boot!Prepared, Boot!Active, Boot!Begin
<1>4. CASE Boot!handleRegistered
  BY <1>4, StartStep DEF Boot!handleRegistered, Boot!Prepared, Boot!Active, Boot!Begin
<1>5. ASSUME NEW x \in Boot!CSRs, Boot!processCSRsForCluster(x)
      PROVE  BootInv'
  <2>1. csrSeen[x].state # "none" /\ seen.finalizer /\ ~seen.deleting /\ queued' = FALSE
    BY <1>5 DEF Boot!processCSRsForCluster, Boot!Pending, Boot!Prepared, Boot!Active, Boot!Begin
  <2>2. Boot!Start("deny", x) \/ Boot!Start("grant", x)
    BY <1>5 DEF Boot!processCSRsForCluster
  <2> QED
    BY <2>1, <2>2, StartStep
<1>6. CASE Boot!computeExpiresAt
  <2> DEFINE c == [cluster EXCEPT !.expires = TRUE]
  <2>1. Resembles(c) /\ c \in Boot!Cluster
    BY <1>0 DEF Resembles, Boot!Cluster
  <2>2. Boot!Write(c) /\ UNCHANGED <<csr, csrSeen, sa, token, rbac, slotOver, queued, job, spoke, stored,
                                    lost, faults>>
        /\ job.pc = "idle"
    BY <1>6 DEF Boot!computeExpiresAt
  <2> HIDE DEF c
  <2> QED
    BY <1>0, <2>1, <2>2, WriteLeavesCache, QuietStep DEF EdgeOK
<1>7. CASE Boot!markAwaitingCSR
  <2> DEFINE c == IF seen.registered = "False" THEN cluster ELSE [cluster EXCEPT !.registered = "False"]
  <2>1. Resembles(c) /\ c \in Boot!Cluster
    BY <1>0 DEF Resembles, Boot!Cluster
  <2>2. Boot!Write(c) /\ UNCHANGED <<csr, csrSeen, sa, token, rbac, slotOver, job, spoke, stored, lost, faults>>
        /\ job.pc = "idle" /\ queued' = FALSE
    BY <1>7 DEF Boot!markAwaitingCSR, Boot!Prepared, Boot!Active, Boot!Begin
  <2> HIDE DEF c
  <2> QED
    BY <1>0, <2>1, <2>2, WriteLeavesCache, QuietStep DEF EdgeOK
<1>8. CASE Boot!addFinalizer
  <2> DEFINE c == [cluster EXCEPT !.finalizer = TRUE]
  <2>1. /\ c \in Boot!Cluster /\ c.exists = cluster.exists /\ c.deleting = cluster.deleting
        /\ c.finalizer = TRUE /\ c.used = cluster.used /\ c.bound = cluster.bound
    BY <1>0 DEF Boot!Cluster
  <2>2. /\ Boot!Write(c) /\ job.pc = "idle" /\ cluster.exists
        /\ UNCHANGED <<csr, csrSeen, sa, token, rbac, slotOver, queued, job, spoke, stored, lost, faults>>
    BY <1>8 DEF Boot!addFinalizer
  <2> HIDE DEF c
  <2>3. cluster' = c /\ seen' = seen /\ current' \in BOOLEAN /\ (current' => seen' = cluster')
    BY <2>1, <2>2, WriteLeavesCache
  <2>4. Boot!TypeOK'
    BY <2>1, <2>2, <2>3, BootTypes DEF Boot!TypeOK, BootInv
  <2>5. HubInv' /\ RequestsInv' /\ ApprovedInv' /\ JobInv' /\ GrantsInv'
    BY <2>1, <2>2, <2>3 DEF BootInv, HubInv, RequestsInv, ApprovedInv, JobInv, GrantsInv, Boot!Approved, BoundTo,
                            NothingGranted
  <2> QED
    BY <2>4, <2>5 DEF BootInv
<1>9. CASE Boot!ensureBootstrapProvisioned
  <2>1. /\ UNCHANGED <<cluster, seen, current, csr, csrSeen, rbac, slotOver, spoke, stored, lost, faults>>
        /\ queued' = FALSE /\ sa' = TRUE /\ token' = "valid" /\ seen.finalizer /\ ~seen.deleting
        /\ job' = [pc |-> "issue", copy |-> seen, fresh |-> current, csr |-> Boot!NoCSR]
    BY <1>9 DEF Boot!ensureBootstrapProvisioned, Boot!Prepared, Boot!Active, Boot!Begin
  <2>2. job' \in Boot!Job /\ job'.pc = "issue"
    BY <2>1, BootTypes DEF Boot!Job
  <2>3. Boot!TypeOK'
    BY <2>1, <2>2, BootTypes DEF Boot!TypeOK, BootInv
  <2>4. HubInv' /\ RequestsInv' /\ ApprovedInv' /\ JobInv'
    BY <2>1, <2>2 DEF BootInv, HubInv, RequestsInv, ApprovedInv, JobInv, Boot!Approved, BoundTo
  <2>5. GrantsInv'
    BY <2>1 DEF BootInv, HubInv, GrantsInv, NothingGranted
  <2> QED
    BY <2>3, <2>4, <2>5 DEF BootInv
<1> QED
  BY <1>1, <1>2, <1>3, <1>4, <1>5, <1>6, <1>7, <1>8, <1>9

\* The first request is bound by whoever holds the newest Cluster, with a slot
\* not taken, and the binding comes before the approval.
LEMMA MarkStep ==
    ASSUME BootAssumption, BootInv, Boot!markBootstrapUsed
    PROVE  BootInv'
<1> USE DEF Boot!hub, Boot!grants, Boot!edge
<1>0. /\ EdgeOK /\ cluster \in Boot!Cluster /\ seen \in Boot!Cluster /\ Resembles(cluster)
      /\ current \in BOOLEAN /\ (current => seen = cluster) /\ job \in Boot!Job
  BY BootTypes DEF EdgeOK, BootInv, HubInv, Resembles
<1>1. /\ job.pc = "mark" /\ UNCHANGED <<csr, csrSeen, sa, token, rbac, slotOver, spoke, stored, lost, faults>>
      /\ job.csr \in Boot!CSRs /\ rbac /\ seen.finalizer /\ csrSeen[job.csr].state # "none"
  BY DEF Boot!markBootstrapUsed, BootInv, JobInv
<1> DEFINE next == [job EXCEPT !.pc = "approve"]
<1>2. next \in Boot!Job /\ next.pc = "approve" /\ next.csr = job.csr
  BY <1>0 DEF Boot!Job
<1> HIDE DEF next
<1>3. CASE job.copy.used /\ job.copy.bound = job.csr /\ job' = next /\ UNCHANGED <<cluster, seen, current, queued>>
  <2>1. BoundTo(job.csr)
    BY <1>1, <1>3 DEF BootInv, JobInv, BoundTo
  <2>2. Boot!TypeOK'
    BY <1>1, <1>2, <1>3, BootTypes DEF Boot!TypeOK, BootInv
  <2>3. HubInv' /\ RequestsInv' /\ ApprovedInv'
    BY <1>1, <1>3 DEF BootInv, HubInv, RequestsInv, ApprovedInv, Boot!Approved, BoundTo
  <2>4. JobInv'
    BY <1>1, <1>2, <1>3, <2>1 DEF JobInv, BoundTo
  <2>5. GrantsInv'
    BY <1>1, <1>3 DEF BootInv, GrantsInv, NothingGranted
  <2> QED
    BY <2>2, <2>3, <2>4, <2>5 DEF BootInv
<1>4. CASE Boot!End(TRUE) /\ UNCHANGED <<cluster, seen, current>>
  BY <1>0, <1>1, <1>4, IdleIsJob, QuietStep DEF Boot!End, EdgeOK
<1>5. CASE ~job.copy.used /\ job.fresh /\ Boot!Write(Boot!Bind(job.csr)) /\ job' = next /\ UNCHANGED queued
  <2> DEFINE c == Boot!Bind(job.csr)
  <2>1. /\ c \in Boot!Cluster /\ c.exists = cluster.exists /\ c.deleting = cluster.deleting
        /\ c.finalizer = cluster.finalizer /\ c.used /\ c.bound = job.csr
    BY <1>0, <1>1 DEF Boot!Bind, Boot!Cluster
  <2>2. ~cluster.used /\ ~seen.used
    BY <1>1, <1>5 DEF BootInv, HubInv, JobInv, BoundTo
  <2>3. \A x \in Boot!CSRs : x \notin Boot!Approved
    BY <2>2 DEF BootInv, ApprovedInv, BoundTo
  <2> HIDE DEF c
  <2>4. cluster' = c /\ seen' = seen /\ current' \in BOOLEAN /\ (current' => seen' = cluster')
    BY <1>5, <2>1, WriteLeavesCache DEF c
  <2>5. Boot!TypeOK'
    BY <1>1, <1>2, <1>5, <2>1, <2>4, BootTypes DEF Boot!TypeOK, BootInv
  <2>6. HubInv' /\ RequestsInv'
    BY <1>1, <1>5, <2>1, <2>2, <2>4 DEF BootInv, HubInv, RequestsInv, BoundTo
  <2>7. ApprovedInv'
    BY <1>1, <2>3 DEF ApprovedInv, Boot!Approved
  <2>8. JobInv'
    BY <1>1, <1>2, <1>5, <2>1, <2>4 DEF JobInv, BoundTo
  <2>9. GrantsInv'
    BY <1>1, <1>5, <2>1, <2>4 DEF BootInv, GrantsInv, NothingGranted
  <2> QED
    BY <2>5, <2>6, <2>7, <2>8, <2>9 DEF BootInv
<1>6. CASE /\ ~job.copy.used /\ ~job.fresh /\ job' = [job EXCEPT !.copy = seen, !.fresh = current]
           /\ UNCHANGED <<cluster, seen, current, queued>>
  <2>1. job' \in Boot!Job /\ job'.pc = "mark" /\ job'.csr = job.csr /\ job'.copy = seen /\ job'.fresh = current
    BY <1>0, <1>1, <1>6 DEF Boot!Job
  <2>2. Boot!TypeOK'
    BY <1>1, <1>6, <2>1, BootTypes DEF Boot!TypeOK, BootInv
  <2>3. HubInv' /\ RequestsInv' /\ ApprovedInv'
    BY <1>1, <1>6 DEF BootInv, HubInv, RequestsInv, ApprovedInv, Boot!Approved, BoundTo
  <2>4. JobInv'
    BY <1>1, <1>6, <2>1 DEF BootInv, HubInv, JobInv, BoundTo
  <2>5. GrantsInv'
    BY <1>1, <1>6, <2>1 DEF BootInv, GrantsInv, NothingGranted
  <2> QED
    BY <2>2, <2>3, <2>4, <2>5 DEF BootInv
<1> QED
  BY <1>3, <1>4, <1>5, <1>6 DEF Boot!markBootstrapUsed, next

\* An approval is of the bound request, if it is a first one.
LEMMA ApprovalStep ==
    ASSUME BootAssumption, BootInv, Boot!UpdateApproval
    PROVE  BootInv'
<1> USE DEF Boot!hub, Boot!grants, Boot!edge
<1>1. /\ UNCHANGED <<cluster, seen, current, csrSeen, sa, token, rbac, slotOver, spoke, stored, lost, faults>>
      /\ job' = Boot!Idle /\ queued' \in BOOLEAN /\ job.csr \in Boot!CSRs
  BY BootTypes DEF Boot!UpdateApproval, Boot!End, BootInv, JobInv
<1>2. job' \in Boot!Job /\ job'.pc = "idle"
  BY <1>1, IdleIsJob
<1> DEFINE s == IF job.pc = "approve" THEN "approved" ELSE "denied"
<1>3. /\ csr' \in [Boot!CSRs -> Boot!Request]
      /\ \A x \in Boot!CSRs :
            /\ csr'[x].purpose = csr[x].purpose
            /\ csr[x].state # "none" => csr'[x].state # "none"
            /\ csr'[x].state = csr[x].state \/ (x = job.csr /\ csr'[x].state = s)
  <2>1. CASE csr' = csr
    <3> HIDE DEF s
    <3> QED
      BY <2>1, BootTypes
  <2>2. CASE csr' = [csr EXCEPT ![job.csr].state = s]
    <3> DEFINE r == [csr[job.csr] EXCEPT !.state = s]
    <3>1. r \in Boot!Request /\ r.state = s /\ r.purpose = csr[job.csr].purpose /\ s # "none"
      BY <1>1, BootTypes DEF Boot!Request
    <3>2. csr' = [csr EXCEPT ![job.csr] = r]
      BY <2>2
    <3>3. csr \in [Boot!CSRs -> Boot!Request] /\ job.csr \in Boot!CSRs
      BY <1>1, BootTypes
    <3> HIDE DEF r, s
    <3>4. /\ csr' \in [Boot!CSRs -> Boot!Request]
          /\ \A x \in Boot!CSRs : csr'[x] = IF x = job.csr THEN r ELSE csr[x]
      BY <3>1, <3>2, <3>3
    <3> QED
      BY <3>1, <3>4
  <2> QED
    BY <2>1, <2>2 DEF Boot!UpdateApproval
<1>4. Boot!TypeOK'
  BY <1>1, <1>2, <1>3, BootTypes DEF Boot!TypeOK, BootInv
<1>5. ApprovedInv'
  <2> SUFFICES ASSUME NEW x \in Boot!CSRs, csr'[x].purpose = "bootstrap",
                      csr'[x].state \in {"approved", "signed"}
               PROVE  BoundTo(x) /\ (rbac \/ cluster.deleting)
    BY <1>1 DEF ApprovedInv, Boot!Approved, BoundTo
  <2>1. CASE csr'[x].state = csr[x].state
    BY <1>3, <2>1 DEF BootInv, ApprovedInv, Boot!Approved
  <2>2. CASE x = job.csr /\ csr'[x].state = s
    BY <1>3, <2>2 DEF BootInv, JobInv
  <2> QED
    BY <1>3, <2>1, <2>2
<1>6. HubInv' /\ JobInv' /\ GrantsInv'
  BY <1>1, <1>2 DEF BootInv, HubInv, JobInv, GrantsInv, BoundTo, NothingGranted
<1>7. RequestsInv'
  BY <1>1, <1>3 DEF BootInv, RequestsInv
<1> QED
  BY <1>4, <1>5, <1>6, <1>7 DEF BootInv

\* The other steps of a reconcile.
LEMMA JobStep ==
    ASSUME BootAssumption, BootInv,
           Boot!cleanupBootstrapResources \/ Boot!clearFinalizer \/ Boot!ensureClusterRBAC \/ Boot!recordIssued
           \/ Boot!abandon
    PROVE  BootInv'
<1> USE DEF Boot!hub, Boot!grants, Boot!edge
<1>0. /\ EdgeOK /\ cluster \in Boot!Cluster /\ Resembles(cluster)
      /\ current \in BOOLEAN /\ (current => seen = cluster) /\ job \in Boot!Job
      /\ job.copy.issued \in BOOLEAN /\ cluster.issued \in BOOLEAN
      /\ cluster.registered \in {"", "False", "True"} /\ queued \in BOOLEAN
  BY BootTypes DEF EdgeOK, BootInv, HubInv, Resembles, Boot!Cluster
<1>1. CASE Boot!recordIssued
  <2> DEFINE c == IF ~cluster.exists \/ job.copy.issued THEN cluster ELSE [cluster EXCEPT !.issued = TRUE]
  <2>1. Resembles(c) /\ c \in Boot!Cluster
    BY <1>0 DEF Resembles, Boot!Cluster
  <2>2. /\ Boot!Write(c) /\ UNCHANGED <<csr, csrSeen, sa, token, rbac, slotOver, spoke, stored, lost, faults>>
        /\ job' = Boot!Idle /\ queued' \in BOOLEAN
    BY <1>1 DEF Boot!recordIssued, Boot!End
  <2> HIDE DEF c
  <2> QED
    BY <1>0, <2>1, <2>2, IdleIsJob, WriteLeavesCache, QuietStep DEF EdgeOK
<1>2. CASE Boot!abandon
  <2>1. faults \in 0..MaxFaults /\ faults < MaxFaults /\ faults' = faults + 1
    BY <1>2, BootTypes DEF Boot!abandon, Boot!Fault
  <2>2. faults' \in 0..MaxFaults
    BY <2>1 DEF BootAssumption
  <2> QED
    BY <1>0, <1>2, <2>2, IdleIsJob, QuietStep DEF Boot!abandon, Boot!End, EdgeOK
<1>3. CASE Boot!ensureClusterRBAC
  <2>1. /\ rbac' = TRUE /\ UNCHANGED <<seen, csr, csrSeen, sa, token, slotOver, spoke, stored, lost, faults>>
        /\ job.pc \in {"grant", "register"} /\ seen.finalizer
    BY <1>3 DEF Boot!ensureClusterRBAC, Boot!Write, BootInv, JobInv
  <2>2. CASE job.pc = "grant"
    <3> DEFINE pc == IF csrSeen[job.csr].purpose = "renewal" THEN "approve" ELSE "mark"
    <3>1. job' = [job EXCEPT !.pc = pc] /\ UNCHANGED <<cluster, current, queued>>
      BY <1>3, <2>2 DEF Boot!ensureClusterRBAC
    <3>2. /\ job' \in Boot!Job /\ job'.pc = pc /\ job'.csr = job.csr /\ job'.copy = job.copy
          /\ job'.fresh = job.fresh /\ pc \in {"approve", "mark"}
      BY <1>0, <3>1 DEF Boot!Job
    <3>3. job.csr \in Boot!CSRs /\ csrSeen[job.csr].state # "none"
          /\ csr[job.csr].purpose = csrSeen[job.csr].purpose
      BY <2>2 DEF BootInv, JobInv, RequestsInv
    <3>4. pc = "approve" => csr[job.csr].purpose # "bootstrap"
      BY <3>3
    <3> HIDE DEF pc
    <3>5. Boot!TypeOK'
      BY <2>1, <3>1, <3>2, BootTypes DEF Boot!TypeOK, BootInv
    <3>6. HubInv' /\ RequestsInv' /\ ApprovedInv'
      BY <2>1, <3>1 DEF BootInv, HubInv, RequestsInv, ApprovedInv, Boot!Approved, BoundTo
    <3>7. JobInv'
      BY <2>1, <2>2, <3>1, <3>2, <3>3, <3>4 DEF BootInv, JobInv, BoundTo
    <3>8. GrantsInv'
      BY <2>1, <2>2, <3>1 DEF BootInv, HubInv, GrantsInv, NothingGranted
    <3> QED
      BY <3>5, <3>6, <3>7, <3>8 DEF BootInv
  <2>3. CASE job.pc = "register"
    <3> DEFINE c == IF job.copy.registered = "True" \/ ~cluster.exists THEN cluster
                    ELSE [cluster EXCEPT !.registered = "True"]
    <3>1. Resembles(c) /\ c \in Boot!Cluster
      BY <1>0 DEF Resembles, Boot!Cluster
    <3>2. Boot!Write(c) /\ job' = Boot!Idle /\ queued' \in BOOLEAN
      BY <1>0, <1>3, <2>3 DEF Boot!ensureClusterRBAC, Boot!End
    <3> HIDE DEF c
    <3>3. cluster' = c /\ current' \in BOOLEAN /\ (current' => seen' = cluster')
      BY <3>1, <3>2, WriteLeavesCache
    <3>4. Boot!TypeOK'
      BY <2>1, <3>1, <3>2, <3>3, IdleIsJob, BootTypes DEF Boot!TypeOK, BootInv
    <3>5. HubInv' /\ RequestsInv' /\ ApprovedInv'
      BY <2>1, <3>1, <3>3 DEF BootInv, HubInv, RequestsInv, ApprovedInv, Boot!Approved, BoundTo, Resembles
    <3>6. JobInv'
      BY <3>2, IdleIsJob DEF JobInv
    <3>7. GrantsInv'
      BY <2>1, <2>3, <3>1, <3>3 DEF BootInv, HubInv, GrantsInv, NothingGranted, Resembles
    <3> QED
      BY <3>4, <3>5, <3>6, <3>7 DEF BootInv
  <2> QED
    BY <2>1, <2>2, <2>3
<1>4. CASE Boot!cleanupBootstrapResources
  <2>1. /\ sa' = FALSE /\ token' = "none"
        /\ UNCHANGED <<seen, csr, csrSeen, slotOver, spoke, stored, lost, faults>>
        /\ job.pc \in {"cleanup", "expire"}
    BY <1>4 DEF Boot!cleanupBootstrapResources, Boot!Write
  <2>2. CASE job.pc = "cleanup"
    <3>1. rbac' = FALSE /\ job' = [job EXCEPT !.pc = "unfinalize"] /\ UNCHANGED <<cluster, current, queued>>
      BY <1>4, <2>2 DEF Boot!cleanupBootstrapResources
    <3>2. job' \in Boot!Job /\ job'.pc = "unfinalize"
      BY <1>0, <3>1 DEF Boot!Job
    <3>3. seen.deleting /\ cluster.deleting /\ seen.finalizer
      BY <2>2 DEF BootInv, HubInv, JobInv
    <3>4. Boot!TypeOK'
      BY <2>1, <3>1, <3>2, BootTypes DEF Boot!TypeOK, BootInv
    <3>5. HubInv' /\ RequestsInv'
      BY <2>1, <3>1 DEF BootInv, HubInv, RequestsInv, BoundTo
    <3>6. ApprovedInv'
      BY <2>1, <3>1, <3>3 DEF BootInv, ApprovedInv, Boot!Approved, BoundTo
    <3>7. JobInv' /\ GrantsInv'
      BY <2>1, <3>1, <3>2, <3>3 DEF JobInv, GrantsInv, NothingGranted
    <3> QED
      BY <3>4, <3>5, <3>6, <3>7 DEF BootInv
  <2>3. CASE job.pc = "expire"
    <3> DEFINE registered == IF job.copy.registered = "False" THEN cluster.registered ELSE "False"
               issued == cluster.issued /\ ~job.copy.issued
               c == IF ~cluster.exists THEN cluster
                    ELSE [cluster EXCEPT !.issued = issued, !.registered = registered]
    <3>1. registered \in {"", "False", "True"} /\ issued \in BOOLEAN
      BY <1>0
    <3>2. Boot!Write(c) /\ job' = Boot!Idle /\ queued' \in BOOLEAN /\ rbac' = rbac
      BY <1>0, <1>4, <2>3 DEF Boot!cleanupBootstrapResources, Boot!End
    <3> HIDE DEF registered, issued
    <3>3. Resembles(c) /\ c \in Boot!Cluster
      BY <1>0, <3>1 DEF Resembles, Boot!Cluster
    <3> HIDE DEF c
    <3>4. cluster' = c /\ current' \in BOOLEAN /\ (current' => seen' = cluster')
      BY <3>2, <3>3, WriteLeavesCache
    <3>5. Boot!TypeOK'
      BY <2>1, <3>2, <3>3, <3>4, IdleIsJob, BootTypes DEF Boot!TypeOK, BootInv
    <3>6. HubInv' /\ RequestsInv' /\ ApprovedInv'
      BY <2>1, <3>2, <3>3, <3>4 DEF BootInv, HubInv, RequestsInv, ApprovedInv, Boot!Approved, BoundTo, Resembles
    <3>7. JobInv'
      BY <3>2, IdleIsJob DEF JobInv
    <3>8. GrantsInv'
      BY <2>1, <2>3, <3>2, <3>3, <3>4, IdleIsJob DEF BootInv, GrantsInv, NothingGranted, Resembles
    <3> QED
      BY <3>5, <3>6, <3>7, <3>8 DEF BootInv
  <2> QED
    BY <2>1, <2>2, <2>3
<1>5. CASE Boot!clearFinalizer
  <2> DEFINE c == [cluster EXCEPT !.exists = FALSE]
  <2>1. /\ c \in Boot!Cluster /\ ~c.exists /\ c.deleting = cluster.deleting
        /\ c.finalizer = cluster.finalizer /\ c.used = cluster.used /\ c.bound = cluster.bound
    BY <1>0 DEF Boot!Cluster
  <2>2. /\ Boot!Write(c) /\ job.pc = "unfinalize" /\ job' = Boot!Idle /\ queued' \in BOOLEAN
        /\ UNCHANGED <<csr, csrSeen, sa, token, rbac, slotOver, spoke, stored, lost, faults>>
    BY <1>0, <1>5 DEF Boot!clearFinalizer, Boot!End
  <2> HIDE DEF c
  <2>3. cluster' = c /\ seen' = seen /\ current' \in BOOLEAN /\ (current' => seen' = cluster')
    BY <2>1, <2>2, WriteLeavesCache
  <2>4. NothingGranted /\ seen.deleting
    BY <2>2 DEF BootInv, JobInv
  <2>5. Boot!TypeOK'
    BY <2>1, <2>2, <2>3, IdleIsJob, BootTypes DEF Boot!TypeOK, BootInv
  <2>6. HubInv' /\ RequestsInv' /\ ApprovedInv'
    BY <2>1, <2>2, <2>3 DEF BootInv, HubInv, RequestsInv, ApprovedInv, Boot!Approved, BoundTo
  <2>7. JobInv' /\ GrantsInv'
    BY <2>1, <2>2, <2>3, <2>4, IdleIsJob DEF JobInv, GrantsInv, NothingGranted
  <2> QED
    BY <2>5, <2>6, <2>7 DEF BootInv
<1> QED
  BY <1>1, <1>2, <1>3, <1>4, <1>5

\* Caches, the signer, whoever else writes the Cluster, and time.
LEMMA OutsideStep ==
    ASSUME BootAssumption, BootInv,
           \/ Boot!Sync \/ \E x \in Boot!CSRs : Boot!sign(x)
           \/ Boot!suspendCluster \/ Boot!deleteCluster \/ Boot!otherWriter
           \/ Boot!tokenAges \/ Boot!slotExpires
    PROVE  BootInv'
<1> USE DEF Boot!hub, Boot!grants, Boot!edge
<1>0. /\ EdgeOK /\ cluster \in Boot!Cluster /\ Resembles(cluster)
      /\ current \in BOOLEAN /\ (current => seen = cluster) /\ job \in Boot!Job
      /\ queued \in BOOLEAN
      /\ csr \in [Boot!CSRs -> Boot!Request] /\ csrSeen \in [Boot!CSRs -> Boot!Request]
  BY BootTypes DEF EdgeOK, BootInv, HubInv, Resembles
<1>1. CASE Boot!slotExpires
  BY <1>0, <1>1, QuietStep DEF Boot!slotExpires, EdgeOK
<1>2. CASE Boot!tokenAges
  <2>1. /\ token = "valid" /\ token' = "old"
        /\ UNCHANGED <<cluster, seen, current, csr, csrSeen, sa, rbac, slotOver, queued, job, spoke, stored, lost,
                       faults>>
    BY <1>2 DEF Boot!tokenAges
  <2>2. Boot!TypeOK'
    BY <2>1, BootTypes DEF Boot!TypeOK, BootInv
  <2>3. HubInv' /\ RequestsInv' /\ ApprovedInv' /\ JobInv' /\ GrantsInv'
    BY <2>1 DEF BootInv, HubInv, RequestsInv, ApprovedInv, JobInv, GrantsInv, Boot!Approved, BoundTo,
                NothingGranted
  <2> QED
    BY <2>2, <2>3 DEF BootInv
<1>3. ASSUME NEW c \in Boot!Cluster, Boot!Outside(c)
      PROVE  /\ cluster' = c /\ current' = FALSE /\ cluster.exists
             /\ UNCHANGED <<seen, csr, csrSeen, sa, token, rbac>> /\ EdgeOK'
             /\ job' \in Boot!Job /\ job'.pc = job.pc /\ job'.csr = job.csr /\ job'.copy = job.copy /\ ~job'.fresh
  <2>1. faults' \in 0..MaxFaults
    BY <1>0, <1>3 DEF Boot!Outside, Boot!Fault, EdgeOK, BootAssumption
  <2>2. /\ job' = [job EXCEPT !.fresh = FALSE] /\ cluster' = c /\ current' = FALSE /\ cluster.exists
        /\ UNCHANGED <<seen, csr, csrSeen, sa, token, rbac, slotOver, queued, spoke, stored, lost>>
    BY <1>3 DEF Boot!Outside
  <2>3. /\ job' \in Boot!Job /\ job'.pc = job.pc /\ job'.csr = job.csr /\ job'.copy = job.copy /\ ~job'.fresh
    BY <1>0, <2>2 DEF Boot!Job
  <2> QED
    BY <1>0, <2>1, <2>2, <2>3 DEF EdgeOK
<1>4. CASE Boot!suspendCluster \/ Boot!otherWriter
  <2>1. \E c : Resembles(c) /\ Boot!Outside(c)
    <3>1. CASE Boot!otherWriter
      BY <1>0, <3>1 DEF Boot!otherWriter
    <3>2. CASE Boot!suspendCluster
      <4> DEFINE c == [cluster EXCEPT !.suspend = ~cluster.suspend]
      <4>1. Resembles(c)
        BY <1>0 DEF Resembles, Boot!Cluster
      <4>2. Boot!Outside(c)
        BY <3>2 DEF Boot!suspendCluster
      <4> QED
        BY <4>1, <4>2
    <3> QED
      BY <1>4, <3>1, <3>2
  <2> QED
    BY <1>3, <2>1, QuietStep DEF Resembles
<1>5. CASE Boot!deleteCluster
  <2> DEFINE d == [cluster EXCEPT !.deleting = TRUE]
             g == [cluster EXCEPT !.exists = FALSE]
  <2>1. /\ d \in Boot!Cluster /\ d.exists = cluster.exists /\ d.deleting /\ d.finalizer = cluster.finalizer
        /\ d.used = cluster.used /\ d.bound = cluster.bound
        /\ g \in Boot!Cluster /\ ~g.exists /\ g.deleting = cluster.deleting /\ g.finalizer = cluster.finalizer
        /\ g.used = cluster.used /\ g.bound = cluster.bound
    BY <1>0 DEF Boot!Cluster
  <2>2. IF cluster.finalizer THEN Boot!Outside(d) ELSE Boot!Outside(g)
    BY <1>5 DEF Boot!deleteCluster
  <2> HIDE DEF d, g
  <2>3. /\ cluster' = IF cluster.finalizer THEN d ELSE g
        /\ current' = FALSE /\ cluster.exists
        /\ UNCHANGED <<seen, csr, csrSeen, sa, token, rbac>> /\ EdgeOK'
        /\ job' \in Boot!Job /\ job'.pc = job.pc /\ job'.csr = job.csr /\ job'.copy = job.copy /\ ~job'.fresh
    BY <1>3, <2>1, <2>2
  <2>4. /\ cluster' \in Boot!Cluster /\ cluster'.finalizer = cluster.finalizer
        /\ cluster'.used = cluster.used /\ cluster'.bound = cluster.bound
        /\ cluster.deleting => cluster'.deleting
        /\ cluster.finalizer => cluster'.exists
    BY <2>1, <2>3
  <2>5. Boot!TypeOK'
    BY <1>0, <2>3, <2>4, BootTypes DEF Boot!TypeOK, BootInv, EdgeOK
  <2>6. HubInv' /\ RequestsInv' /\ ApprovedInv'
    BY <2>3, <2>4 DEF BootInv, HubInv, RequestsInv, ApprovedInv, Boot!Approved, BoundTo
  <2>7. JobInv' /\ GrantsInv'
    BY <2>3, <2>4 DEF BootInv, JobInv, GrantsInv, BoundTo, NothingGranted
  <2> QED
    BY <2>5, <2>6, <2>7 DEF BootInv
<1>6. CASE Boot!syncCluster
  <2>1. /\ seen' = cluster /\ current' = TRUE
        /\ UNCHANGED <<cluster, csr, csrSeen, sa, token, rbac, slotOver, job, spoke, stored, lost, faults>>
    BY <1>6 DEF Boot!syncCluster
  <2>2. queued' \in BOOLEAN
    BY <1>0, <1>6, Zenon DEF Boot!syncCluster
  <2>3. Boot!TypeOK'
    BY <2>1, <2>2, BootTypes DEF Boot!TypeOK, BootInv
  <2>4. HubInv' /\ RequestsInv' /\ ApprovedInv'
    BY <2>1 DEF BootInv, HubInv, RequestsInv, ApprovedInv, Boot!Approved, BoundTo
  <2>5. JobInv' /\ GrantsInv'
    BY <2>1 DEF BootInv, HubInv, JobInv, GrantsInv, BoundTo, NothingGranted
  <2> QED
    BY <2>3, <2>4, <2>5 DEF BootInv
<1>7. ASSUME NEW x \in Boot!CSRs, Boot!syncCSR(x)
      PROVE  BootInv'
  <2>1. /\ queued' = TRUE
        /\ UNCHANGED <<cluster, seen, current, csr, sa, token, rbac, slotOver, job, spoke, stored, lost, faults>>
    BY <1>7 DEF Boot!syncCSR
  <2>2. /\ csrSeen' \in [Boot!CSRs -> Boot!Request]
        /\ \A y \in Boot!CSRs : csrSeen'[y] = IF y = x THEN csr[x] ELSE csrSeen[y]
    BY <1>0, <1>7 DEF Boot!syncCSR
  <2>3. Boot!TypeOK'
    BY <2>1, <2>2, BootTypes DEF Boot!TypeOK, BootInv
  <2>4. RequestsInv' /\ JobInv'
    BY <2>1, <2>2 DEF BootInv, RequestsInv, JobInv, BoundTo, NothingGranted
  <2>5. HubInv' /\ ApprovedInv' /\ GrantsInv'
    BY <2>1 DEF BootInv, HubInv, ApprovedInv, GrantsInv, Boot!Approved, BoundTo, NothingGranted
  <2> QED
    BY <2>3, <2>4, <2>5 DEF BootInv
<1>8. ASSUME NEW x \in Boot!CSRs, Boot!sign(x)
      PROVE  BootInv'
  <2> DEFINE r == [csr[x] EXCEPT !.state = "signed"]
  <2>1. /\ csr[x].state = "approved" /\ csr' = [csr EXCEPT ![x] = r]
        /\ UNCHANGED <<cluster, seen, current, csrSeen, sa, token, rbac, slotOver, queued, job, spoke, stored, lost,
                       faults>>
    BY <1>8 DEF Boot!sign
  <2>2. r \in Boot!Request /\ r.state = "signed" /\ r.purpose = csr[x].purpose
    BY <1>0 DEF Boot!Request
  <2> HIDE DEF r
  <2>3. /\ csr' \in [Boot!CSRs -> Boot!Request]
        /\ \A y \in Boot!CSRs : csr'[y] = IF y = x THEN r ELSE csr[y]
    BY <1>0, <2>1, <2>2
  <2>4. Boot!TypeOK'
    BY <2>1, <2>3, BootTypes DEF Boot!TypeOK, BootInv
  <2>5. RequestsInv' /\ JobInv'
    BY <2>1, <2>2, <2>3 DEF BootInv, RequestsInv, JobInv, BoundTo, NothingGranted
  <2>6. ApprovedInv'
    BY <2>1, <2>2, <2>3 DEF BootInv, ApprovedInv, Boot!Approved, BoundTo
  <2>7. HubInv' /\ GrantsInv'
    BY <2>1 DEF BootInv, HubInv, GrantsInv, BoundTo, NothingGranted
  <2> QED
    BY <2>4, <2>5, <2>6, <2>7 DEF BootInv
<1> QED
  BY <1>1, <1>2, <1>4, <1>5, <1>6, <1>7, <1>8 DEF Boot!Sync

\* A request is submitted under a name not used before, so that nothing that is
\* cached or in progress is about it.
LEMMA SubmitStep ==
    ASSUME BootAssumption, BootInv, NEW purpose \in {"bootstrap", "renewal"}, NEW pc \in {"wait", "renew"},
           Boot!Submit(purpose, pc)
    PROVE  BootInv'
<1> USE DEF Boot!hub, Boot!grants
<1> DEFINE x == CHOOSE y \in Boot!Unused : \A z \in Boot!Unused : y <= z
           r == [state |-> "pending", purpose |-> purpose]
<1>1. x \in Boot!CSRs /\ csr[x].state = "none"
  <2>1. Boot!Unused \in SUBSET Nat /\ Boot!Unused # {}
    BY DEF Boot!Submit, Boot!Unused, Boot!CSRs, BootAssumption
  <2>2. \E y \in Boot!Unused : \A z \in Boot!Unused : y <= z
    BY <2>1, LeastOf
  <2>3. x \in Boot!Unused
    BY <2>2
  <2> QED
    BY <2>3 DEF Boot!Unused
<1>2. /\ csr' = [csr EXCEPT ![x] = r] /\ spoke' = [spoke EXCEPT !.pc = pc, !.csr = x]
      /\ UNCHANGED <<cluster, seen, current, csrSeen, sa, token, rbac, slotOver, queued, job, stored, lost,
                     faults>>
  BY DEF Boot!Submit
<1>3. csrSeen[x].state = "none"
  BY <1>1 DEF BootInv, RequestsInv
<1>4. r \in Boot!Request /\ r.state = "pending"
  BY DEF Boot!Request
<1> HIDE DEF x, r
<1>5. /\ csr' \in [Boot!CSRs -> Boot!Request]
      /\ \A y \in Boot!CSRs : csr'[y] = IF y = x THEN r ELSE csr[y]
  BY <1>1, <1>2, <1>4, BootTypes
<1>6. spoke' \in [pc : {"start", "wait", "persist", "run", "renew", "save"},
                  csr : Boot!CSRs \cup {Boot!NoCSR}, old : BOOLEAN]
  BY <1>1, <1>2, BootTypes
<1>7. Boot!TypeOK'
  BY <1>2, <1>5, <1>6, BootTypes DEF Boot!TypeOK, BootInv
<1>8. RequestsInv' /\ JobInv'
  BY <1>2, <1>3, <1>5 DEF BootInv, RequestsInv, JobInv, BoundTo, NothingGranted
<1>9. ApprovedInv'
  BY <1>2, <1>4, <1>5 DEF BootInv, ApprovedInv, Boot!Approved, BoundTo
<1>10. HubInv' /\ GrantsInv'
  BY <1>2 DEF BootInv, HubInv, GrantsInv, BoundTo, NothingGranted
<1> QED
  BY <1>7, <1>8, <1>9, <1>10 DEF BootInv

\* The spoke's other steps are its own.
LEMMA SpokeStep ==
    ASSUME BootAssumption, BootInv, Boot!Spoke \/ Boot!shouldRenew \/ Boot!waitExpires \/ Boot!restartSpoke
    PROVE  BootInv'
<1> USE DEF Boot!hub, Boot!grants
<1>0. /\ EdgeOK /\ Resembles(cluster) /\ job \in Boot!Job
      /\ current \in BOOLEAN /\ (current => seen = cluster)
  BY BootTypes DEF EdgeOK, BootInv, HubInv, Resembles
<1>1. CASE Boot!submitBootstrap
  BY <1>1, SubmitStep DEF Boot!submitBootstrap
<1>2. CASE Boot!submitRenewal
  BY <1>2, SubmitStep DEF Boot!submitRenewal
<1>3. CASE Boot!loadCert \/ Boot!pollCSR \/ Boot!persist \/ Boot!shouldRenew \/ Boot!waitExpires
           \/ Boot!restartSpoke
  <2>1. /\ UNCHANGED <<cluster, seen, current, csr, csrSeen, sa, token, rbac, slotOver, queued, job>>
    BY <1>3 DEF Boot!loadCert, Boot!pollCSR, Boot!persist, Boot!shouldRenew, Boot!waitExpires, Boot!restartSpoke
  <2>2. spoke' \in [pc : {"start", "wait", "persist", "run", "renew", "save"},
                    csr : Boot!CSRs \cup {Boot!NoCSR}, old : BOOLEAN]
    BY <1>0, <1>3 DEF Boot!loadCert, Boot!pollCSR, Boot!persist, Boot!shouldRenew, Boot!waitExpires,
                      Boot!restartSpoke, EdgeOK
  <2>3. stored' \in BOOLEAN /\ lost' \in BOOLEAN
    BY <1>0, <1>3, Zenon DEF Boot!loadCert, Boot!pollCSR, Boot!persist, Boot!shouldRenew, Boot!waitExpires,
                             Boot!restartSpoke, EdgeOK
  <2>4. faults' \in 0..MaxFaults
    BY <1>0, <1>3 DEF Boot!loadCert, Boot!pollCSR, Boot!persist, Boot!shouldRenew, Boot!waitExpires,
                      Boot!restartSpoke, Boot!Fault, EdgeOK, BootAssumption
  <2> QED
    BY <1>0, <2>1, <2>2, <2>3, <2>4, QuietStep DEF EdgeOK
<1> QED
  BY <1>1, <1>2, <1>3 DEF Boot!Spoke

\* Every step keeps the binding of the slot.
LEMMA BootStep ==
    ASSUME BootAssumption, BootInv, [Boot!Next]_(Boot!vars)
    PROVE  BootInv'
<1>1. CASE UNCHANGED Boot!vars
  <2>1. EdgeOK /\ Resembles(cluster) /\ job \in Boot!Job /\ current \in BOOLEAN /\ (current => seen = cluster)
    BY BootTypes DEF EdgeOK, BootInv, HubInv, Resembles
  <2>2. UNCHANGED <<cluster, seen, current, csr, csrSeen, sa, token, rbac, slotOver, queued, job, spoke, stored,
                    lost, faults>>
    BY <1>1 DEF Boot!vars, Boot!hub, Boot!grants, Boot!edge
  <2> QED
    BY <2>1, <2>2, QuietStep DEF EdgeOK
<1>2. CASE Boot!Reconcile
  BY <1>2, BeginStep, JobStep, MarkStep, ApprovalStep DEF Boot!Reconcile
<1>3. CASE Boot!Spoke \/ Boot!shouldRenew \/ Boot!waitExpires \/ Boot!restartSpoke
  BY <1>3, SpokeStep
<1>4. CASE Boot!abandon
  BY <1>4, JobStep
<1>5. CASE \/ Boot!Sync \/ \E x \in Boot!CSRs : Boot!sign(x)
           \/ Boot!suspendCluster \/ Boot!deleteCluster \/ Boot!otherWriter
           \/ Boot!tokenAges \/ Boot!slotExpires
  BY <1>5, OutsideStep
<1> QED
  BY <1>1, <1>2, <1>3, <1>4, <1>5 DEF Boot!Next

\* Initially nothing is requested, bound or granted.
LEMMA BootInit ==
    ASSUME BootAssumption, Boot!Init
    PROVE  BootInv
<1>1. /\ Boot!NewCluster \in Boot!Cluster /\ Boot!NewCluster.exists
      /\ ~Boot!NewCluster.deleting /\ ~Boot!NewCluster.finalizer /\ ~Boot!NewCluster.used
  BY DEF Boot!NewCluster, Boot!Cluster
<1>2. /\ cluster = Boot!NewCluster /\ seen = Boot!NewCluster /\ current = TRUE
      /\ csrSeen = csr /\ sa = FALSE /\ token = "none" /\ rbac = FALSE /\ slotOver = FALSE
      /\ queued = TRUE /\ job = Boot!Idle /\ stored = FALSE /\ faults = 0 /\ lost = FALSE
  BY DEF Boot!Init
<1>3. csr \in [Boot!CSRs -> Boot!Request] /\ \A x \in Boot!CSRs : csr[x].state = "none"
  BY DEF Boot!Init, Boot!Request
<1>4. spoke \in [pc : {"start", "wait", "persist", "run", "renew", "save"},
                 csr : Boot!CSRs \cup {Boot!NoCSR}, old : BOOLEAN]
  BY DEF Boot!Init
<1>5. Boot!TypeOK
  <2>1. faults \in 0..MaxFaults
    BY <1>2 DEF BootAssumption
  <2>2. csrSeen \in [Boot!CSRs -> Boot!Request]
    BY <1>2, <1>3
  <2> QED
    BY <1>1, <1>2, <1>3, <1>4, <2>1, <2>2, IdleIsJob DEF Boot!TypeOK
<1> QED
  BY <1>1, <1>2, <1>3, <1>5, IdleIsJob
     DEF BootInv, HubInv, RequestsInv, JobInv, ApprovedInv, GrantsInv, Boot!Approved, NothingGranted

\* A slot is good for one certificate, and that is the one it is bound to, with
\* its role granted before; what was granted goes before the Cluster does.  All
\* that whatever the caches show, wherever a reconcile breaks off, and however
\* often the spoke starts over (handleBootstrapCSR, handleDeletion).
THEOREM SlotIsGoodForOneCertificate ==
    ASSUME BootAssumption
    PROVE  Boot!Spec => [](Boot!OneBootstrap /\ Boot!ApprovedIsBound /\ Boot!CleanedUp)
<1>1. Boot!Init => BootInv
  BY BootInit
<1>2. BootInv => Boot!OneBootstrap /\ Boot!ApprovedIsBound /\ Boot!CleanedUp
  <2> SUFFICES ASSUME BootInv PROVE Boot!OneBootstrap /\ Boot!ApprovedIsBound /\ Boot!CleanedUp
    OBVIOUS
  <2>1. Boot!ApprovedIsBound
    BY DEF BootInv, ApprovedInv, BoundTo, Boot!ApprovedIsBound
  <2>2. Boot!CleanedUp
    BY DEF BootInv, GrantsInv, NothingGranted, Boot!CleanedUp
  <2>3. Boot!OneBootstrap
    BY DEF BootInv, ApprovedInv, BoundTo, Boot!OneBootstrap
  <2> QED
    BY <2>1, <2>2, <2>3
<1> QED
  BY <1>1, <1>2, BootStep, PTL DEF Boot!Spec

-----------------------------------------------------------------------------
(* Traces.                                                                 *)

\* A trace in the cache is the stored one, as far as it is signed for; and a
\* signature that is about to be patched in is that of the stored trace.
TraceInv ==
    /\ Tr!TypeOK
    /\ Tr!SignatureMatches
    /\ \A p \in Phases : seen[p] # Tr!Absent => trace[p] # Tr!Absent /\ seen[p].spec = trace[p].spec
    /\ work.pc # "idle" => work.phase \in Phases
    /\ work.pc = "create" => work.spec \in Tr!TraceSpec
    /\ work.pc = "patch" => trace[work.phase] # Tr!Absent /\ work.spec = trace[work.phase].spec

\* A trace is not the absence of one.
LEMMA TraceIsPresent == ASSUME NEW r \in Tr!DecisionTrace PROVE r # Tr!Absent
<1>1. DOMAIN r = {"spec", "signature"}
  BY DEF Tr!DecisionTrace
<1>2. DOMAIN Tr!Absent = {"none"}
  BY DEF Tr!Absent
<1> QED
  BY <1>1, <1>2

TimesAssumption == MaxTime \in Nat /\ MaxFaults \in Nat

\* A trace is created once, whole, and after that only its signature is set, to
\* that of what the cache has shown of it.
LEMMA TraceStep ==
    ASSUME TimesAssumption, TraceInv, [Tr!Next]_(Tr!vars)
    PROVE  TraceInv'
<1> USE DEF TraceInv
<1> DEFINE Some == Tr!Optional(Tr!DecisionTrace)
<1>0. /\ clock \in 0..MaxTime /\ faults \in 0..MaxFaults
      /\ trace \in [Phases -> Some] /\ seen \in [Phases -> Some]
      /\ work \in Tr!Work /\ Tr!Idle \in Tr!Work /\ Tr!Idle.pc = "idle"
      /\ \A p \in Phases : trace[p] \in Tr!DecisionTrace \/ trace[p] = Tr!Absent
      /\ \A p \in Phases : seen[p] \in Tr!DecisionTrace \/ seen[p] = Tr!Absent
  BY DEF Tr!TypeOK, Tr!Idle, Tr!Work, Tr!NoPhase, Tr!Optional, Tr!Absent
<1>1. ASSUME NEW p \in Phases, Tr!syncTrace(p)
      PROVE  TraceInv'
  <2>1. UNCHANGED <<clock, trace, work, faults>> /\ seen' = [seen EXCEPT ![p] = trace[p]]
    BY <1>1 DEF Tr!syncTrace
  <2>2. /\ seen' \in [Phases -> Some]
        /\ \A q \in Phases : seen'[q] # Tr!Absent => trace[q] # Tr!Absent /\ seen'[q].spec = trace[q].spec
    <3> HIDE DEF Some
    <3> QED
      BY <1>0, <2>1
  <2> QED
    BY <1>0, <2>1, <2>2 DEF Tr!SignatureMatches, Tr!TypeOK
<1>2. ASSUME NEW p \in Phases, NEW e \in Evidence, Tr!emitDecisionTrace(p, e)
      PROVE  TraceInv'
  <2> DEFINE new == [evidence |-> e, time |-> clock]
             w == [pc |-> "create", phase |-> p, spec |-> new]
  <2>1. UNCHANGED <<clock, trace, seen, faults>> /\ work' = w
    BY <1>2 DEF Tr!emitDecisionTrace, Tr!decisionEvidence
  <2>2. new \in Tr!TraceSpec
    BY <1>0 DEF Tr!TraceSpec
  <2>3. w \in Tr!Work /\ w.pc = "create" /\ w.phase = p /\ w.spec = new
    <3> HIDE DEF new
    <3> QED
      BY <2>2 DEF Tr!Work, Tr!Optional
  <2> HIDE DEF new, w
  <2> QED
    BY <1>0, <2>1, <2>2, <2>3 DEF Tr!SignatureMatches, Tr!TypeOK
<1>3. CASE Tr!emit
  <2> DEFINE new == [spec |-> work.spec, signature |-> Tr!Absent]
             q == work.phase
  <2>1. UNCHANGED <<clock, seen, faults>> /\ work' = [work EXCEPT !.pc = "sign"] /\ q \in Phases
    BY <1>0, <1>3 DEF Tr!emit
  <2>2. work' \in Tr!Work /\ work'.pc = "sign" /\ work'.phase = q
    BY <1>0, <2>1 DEF Tr!Work
  <2>3. CASE trace' = trace
    BY <1>0, <2>1, <2>2, <2>3 DEF Tr!SignatureMatches, Tr!TypeOK
  <2>4. CASE trace[q] = Tr!Absent /\ trace' = [trace EXCEPT ![q] = new]
    <3>1. work.spec \in Tr!TraceSpec
      BY <1>3 DEF Tr!emit
    <3>2. new \in Tr!DecisionTrace /\ new.spec = work.spec /\ new.signature = Tr!Absent
      BY <3>1 DEF Tr!DecisionTrace, Tr!Optional, Tr!Absent
    <3>3. new \in Some
      BY <3>2 DEF Tr!Optional
    <3> HIDE DEF new, Some
    <3>4. trace' \in [Phases -> Some] /\ \A p \in Phases : trace'[p] = IF p = q THEN new ELSE trace[p]
      BY <1>0, <2>4, <3>3
    <3>5. Tr!SignatureMatches'
      BY <1>0, <3>2, <3>4 DEF Tr!SignatureMatches
    <3>6. \A p \in Phases : seen[p] # Tr!Absent => trace'[p] # Tr!Absent /\ seen[p].spec = trace'[p].spec
      BY <2>4, <3>4
    <3> QED
      BY <1>0, <2>1, <2>2, <3>4, <3>5, <3>6 DEF Tr!TypeOK, Some
  <2> QED
    BY <1>3, <2>3, <2>4 DEF Tr!emit
<1>4. CASE Tr!signExisting
  <2> DEFINE q == work.phase
  <2>1. UNCHANGED <<clock, trace, seen, faults>> /\ q \in Phases
    BY <1>0, <1>4 DEF Tr!signExisting
  <2>2. CASE work' = Tr!Idle
    BY <1>0, <2>1, <2>2 DEF Tr!SignatureMatches, Tr!TypeOK
  <2>3. CASE seen[q] # Tr!Absent /\ work' = [work EXCEPT !.pc = "patch", !.spec = seen[q].spec]
    <3>1. seen[q].spec \in Tr!TraceSpec
      BY <1>0, <2>1, <2>3 DEF Tr!DecisionTrace
    <3>2. work' \in Tr!Work /\ work'.pc = "patch" /\ work'.phase = q /\ work'.spec = seen[q].spec
      BY <1>0, <2>3, <3>1 DEF Tr!Work, Tr!Optional
    <3> QED
      BY <1>0, <2>1, <2>3, <3>2 DEF Tr!SignatureMatches, Tr!TypeOK
  <2> QED
    BY <1>4, <2>2, <2>3 DEF Tr!signExisting, Tr!SignDecisionTrace
<1>5. CASE Tr!patchSignature
  <2> DEFINE q == work.phase
             new == [trace[q] EXCEPT !.signature = trace[q].spec]
  <2>1. /\ UNCHANGED <<clock, seen, faults>> /\ work' = Tr!Idle /\ q \in Phases
        /\ trace[q] # Tr!Absent /\ trace' = [trace EXCEPT ![q] = new]
    BY <1>0, <1>5 DEF Tr!patchSignature
  <2>2. new \in Tr!DecisionTrace /\ new.spec = trace[q].spec /\ new.signature = new.spec
    BY <1>0, <2>1 DEF Tr!DecisionTrace, Tr!Optional
  <2>3. new # Tr!Absent /\ new \in Some
    BY <2>2, TraceIsPresent DEF Tr!Optional
  <2> HIDE DEF new, Some
  <2>4. trace' \in [Phases -> Some] /\ \A p \in Phases : trace'[p] = IF p = q THEN new ELSE trace[p]
    BY <1>0, <2>1, <2>3
  <2>5. Tr!SignatureMatches'
    BY <2>2, <2>4 DEF Tr!SignatureMatches
  <2>6. \A p \in Phases : seen[p] # Tr!Absent => trace'[p] # Tr!Absent /\ seen[p].spec = trace'[p].spec
    BY <2>2, <2>3, <2>4
  <2> QED
    BY <1>0, <2>1, <2>4, <2>5, <2>6 DEF Tr!TypeOK, Some
<1>6. CASE Tr!failEmit
  <2>1. UNCHANGED <<clock, trace, seen>> /\ work' = Tr!Idle /\ faults' \in 0..MaxFaults
    BY <1>0, <1>6 DEF Tr!failEmit, Tr!Fault, TimesAssumption
  <2> QED
    BY <1>0, <2>1 DEF Tr!SignatureMatches, Tr!TypeOK
<1>7. CASE Tr!tick
  <2>1. UNCHANGED <<trace, seen, work, faults>> /\ clock' \in 0..MaxTime
    BY <1>0, <1>7 DEF Tr!tick, TimesAssumption
  <2> QED
    BY <1>0, <2>1 DEF Tr!SignatureMatches, Tr!TypeOK
<1>8. CASE UNCHANGED Tr!vars
  BY <1>0, <1>8 DEF Tr!vars, Tr!SignatureMatches, Tr!TypeOK
<1> QED
  BY <1>1, <1>2, <1>3, <1>4, <1>5, <1>6, <1>7, <1>8 DEF Tr!Next, Tr!Emit

\* A signature is that of the trace as it is stored, also when the decision was
\* taken again with other evidence or read back from a cache that lags
\* (signExisting).
THEOREM SignaturesMatch ==
    ASSUME TimesAssumption
    PROVE  Tr!Spec => []Tr!SignatureMatches
<1>1. Tr!Init => TraceInv
  BY DEF Tr!Init, TraceInv, Tr!TypeOK, Tr!SignatureMatches, Tr!Idle, Tr!Work, Tr!NoPhase, Tr!Optional,
         Tr!Absent, TimesAssumption
<1>2. TraceInv => Tr!SignatureMatches
  BY DEF TraceInv
<1> QED
  BY <1>1, <1>2, TraceStep, PTL DEF Tr!Spec

-----------------------------------------------------------------------------
(* Lifecycle handlers.                                                     *)

\* t is a record with the fields of a delivery.
IsDelivery(t) ==
    t = [handler |-> t.handler, phase |-> t.phase, attempt |-> t.attempt,
         event |-> t.event, tries |-> t.tries, pc |-> t.pc]

LifeInv ==
    /\ \A t \in tasks : IsDelivery(t)
    /\ Life!OneInvocationAtATime

\* Every delivery published is new, and there is one of a key: what is in
\* flight is left out, and all begin alike.
LEMMA PublishIsNew ==
    ASSUME NEW event, NEW p, NEW attempt, NEW known, NEW t \in Life!Publish(event, p, attempt, known)
    PROVE  /\ IsDelivery(t) /\ t.tries = 0 /\ t.pc = "post"
           /\ t.event = event /\ t.phase = p /\ t.attempt = attempt
           /\ \A u \in tasks : Life!KeyOf(u) # Life!KeyOf(t)
<1>1. PICK h \in Handlers :
        /\ t = [handler |-> h, phase |-> p, attempt |-> attempt, event |-> event,
                 tries |-> 0, pc |-> "post"]
        /\ Life!tryReserveInflight([handler |-> h, phase |-> p, attempt |-> attempt])
  BY DEF Life!Publish
<1>2. Life!KeyOf(t) = [handler |-> h, phase |-> p, attempt |-> attempt]
  BY <1>1 DEF Life!KeyOf
<1> QED
  BY <1>1, <1>2 DEF IsDelivery, Life!tryReserveInflight

\* Deliveries with a key that is not in flight, all beginning alike, may be
\* added.
LEMMA NewDeliveries ==
    ASSUME LifeInv, NEW N, NEW event, tasks' = tasks \cup N,
           \A t \in N : /\ IsDelivery(t) /\ t.event = event /\ t.tries = 0 /\ t.pc = "post"
                        /\ \A u \in tasks : Life!KeyOf(u) # Life!KeyOf(t)
    PROVE  LifeInv'
<1>1. \A t \in tasks' : IsDelivery(t)
  BY DEF LifeInv
<1>2. ASSUME NEW t \in N, NEW u \in N, Life!KeyOf(t) = Life!KeyOf(u)
      PROVE  t = u
  <2>1. t.handler = u.handler /\ t.phase = u.phase /\ t.attempt = u.attempt
    BY <1>2 DEF Life!KeyOf
  <2> QED
    BY <2>1 DEF IsDelivery
<1>3. ASSUME NEW t \in tasks', NEW u \in tasks', Life!KeyOf(t) = Life!KeyOf(u)
      PROVE  t = u
  <2>1. CASE t \in N /\ u \in N
    BY <1>2, <1>3, <2>1
  <2>2. CASE t \in tasks /\ u \in tasks
    BY <1>3, <2>2 DEF LifeInv, Life!OneInvocationAtATime
  <2>3. CASE t \in N /\ u \in tasks
    BY <1>3, <2>3
  <2>4. CASE t \in tasks /\ u \in N
    BY <1>3, <2>4
  <2> QED
    BY <2>1, <2>2, <2>3, <2>4
<1> QED
  BY <1>1, <1>3 DEF LifeInv, Life!OneInvocationAtATime, IsDelivery

\* A delivery that goes on keeps its key.
LEMMA DeliveryGoesOn ==
    ASSUME LifeInv, NEW t \in tasks, NEW new, tasks' = (tasks \ {t}) \cup {new},
           IsDelivery(new), Life!KeyOf(new) = Life!KeyOf(t)
    PROVE  LifeInv'
<1>1. \A u \in tasks' : IsDelivery(u)
  BY DEF LifeInv
<1>2. ASSUME NEW u \in tasks', NEW w \in tasks', Life!KeyOf(u) = Life!KeyOf(w)
      PROVE  u = w
  <2>1. CASE u = new /\ w = new
    BY <2>1
  <2>2. CASE u \in tasks /\ w \in tasks
    BY <1>2, <2>2 DEF LifeInv, Life!OneInvocationAtATime
  <2>3. CASE u = new /\ w \in tasks \ {t}
    BY <1>2, <2>3 DEF LifeInv, Life!OneInvocationAtATime
  <2>4. CASE u \in tasks \ {t} /\ w = new
    BY <1>2, <2>4 DEF LifeInv, Life!OneInvocationAtATime
  <2> QED
    BY <2>1, <2>2, <2>3, <2>4
<1> QED
  BY <1>1, <1>2 DEF LifeInv, Life!OneInvocationAtATime

\* The fields of a delivery that is recorded or tried again.
LEMMA DeliveryFields ==
    ASSUME NEW h, NEW p, NEW a, NEW e, NEW n, NEW c, NEW t,
           t = [handler |-> h, phase |-> p, attempt |-> a, event |-> e, tries |-> n, pc |-> c]
    PROVE  /\ [t EXCEPT !.pc = "record"] =
                [handler |-> h, phase |-> p, attempt |-> a, event |-> e, tries |-> n, pc |-> "record"]
           /\ [t EXCEPT !.tries = @ + 1] =
                [handler |-> h, phase |-> p, attempt |-> a, event |-> e, tries |-> n + 1, pc |-> c]
  OBVIOUS

\* Every step keeps the deliveries apart.
LEMMA LifeStep ==
    ASSUME LifeInv, [Life!Next]_(Life!vars)
    PROVE  LifeInv'
<1> USE DEF Life!object, Life!history
<1>1. CASE Life!stampAttempt
  <2> DEFINE new == Life!Current + 1
             N == UNION {Life!PublishAttemptEvent(a) : a \in Life!Live \cup {new}}
  <2>1. tasks' = tasks \cup N
    BY <1>1 DEF Life!stampAttempt
  <2>2. \A t \in N : \E a : t \in Life!Publish("attempt", seen.phase, a, seen.results)
    BY DEF Life!PublishAttemptEvent
  <2>3. \A t \in N : /\ IsDelivery(t) /\ t.event = "attempt" /\ t.tries = 0 /\ t.pc = "post"
                     /\ \A u \in tasks : Life!KeyOf(u) # Life!KeyOf(t)
    BY <2>2, PublishIsNew
  <2> HIDE DEF N
  <2> QED
    BY <2>1, <2>3, NewDeliveries
<1>2. CASE Life!OnPhaseTransition
  <2> DEFINE N == Life!Publish("phase", job.next, job.attempt, results)
  <2>1. tasks' = tasks \cup N
    BY <1>2 DEF Life!OnPhaseTransition
  <2>2. \A t \in N : /\ IsDelivery(t) /\ t.event = "phase" /\ t.tries = 0 /\ t.pc = "post"
                     /\ \A u \in tasks : Life!KeyOf(u) # Life!KeyOf(t)
    BY PublishIsNew
  <2> HIDE DEF N
  <2> QED
    BY <2>1, <2>2, NewDeliveries
<1>3. ASSUME NEW t \in tasks, Life!deliver(t)
      PROVE  LifeInv'
  <2> DEFINE ended == [t EXCEPT !.pc = "record"]
             again == [t EXCEPT !.tries = @ + 1]
  <2>1. IsDelivery(t)
    BY DEF LifeInv
  <2>2. /\ ended = [handler |-> t.handler, phase |-> t.phase, attempt |-> t.attempt,
                     event |-> t.event, tries |-> t.tries, pc |-> "record"]
        /\ again = [handler |-> t.handler, phase |-> t.phase, attempt |-> t.attempt,
                     event |-> t.event, tries |-> t.tries + 1, pc |-> t.pc]
    BY <2>1, DeliveryFields DEF IsDelivery
  <2>3. tasks' = (tasks \ {t}) \cup {ended} \/ tasks' = (tasks \ {t}) \cup {again}
    BY <1>3 DEF Life!deliver, Life!Replace
  <2> HIDE DEF ended, again
  <2>4. /\ IsDelivery(ended) /\ Life!KeyOf(ended) = Life!KeyOf(t)
        /\ IsDelivery(again) /\ Life!KeyOf(again) = Life!KeyOf(t)
    BY <2>2 DEF IsDelivery, Life!KeyOf
  <2>5. CASE tasks' = (tasks \ {t}) \cup {ended}
    BY <2>4, <2>5, DeliveryGoesOn
  <2>6. CASE tasks' = (tasks \ {t}) \cup {again}
    BY <2>4, <2>6, DeliveryGoesOn
  <2> QED
    BY <2>3, <2>5, <2>6
<1>4. ASSUME NEW t \in tasks, Life!recordResult(t)
      PROVE  LifeInv'
  <2>1. tasks' = tasks \ {t}
    BY <1>4 DEF Life!recordResult, Life!Replace
  <2> QED
    BY <2>1 DEF LifeInv, Life!OneInvocationAtATime
<1>5. CASE Life!restart
  BY <1>5 DEF Life!restart, LifeInv, Life!OneInvocationAtATime
<1>6. CASE UNCHANGED tasks
  BY <1>6 DEF LifeInv, Life!OneInvocationAtATime
<1>7. CASE Life!mirrorStatus \/ Life!patchStatus \/ Life!syncPromotion \/ Life!advanceRun \/ Life!suspend
           \/ UNCHANGED Life!vars
  BY <1>6, <1>7 DEF Life!mirrorStatus, Life!patchStatus, Life!syncPromotion, Life!advanceRun, Life!suspend,
                    Life!vars
<1> QED
  BY <1>1, <1>2, <1>3, <1>4, <1>5, <1>7
     DEF Life!Next, Life!Reconcile, Life!Delivery, Life!DeliveryTo

\* However stale the status is from which events are published, and however
\* attempts overlap, no handler is invoked for the same phase and attempt by two
\* deliveries at a time (tryReserveInflight).
THEOREM HandlersRunOneAtATime == Life!Spec => []Life!OneInvocationAtATime
<1>1. Life!Init => LifeInv
  BY DEF Life!Init, LifeInv, Life!OneInvocationAtATime
<1>2. LifeInv => Life!OneInvocationAtATime
  BY DEF LifeInv
<1> QED
  BY <1>1, <1>2, LifeStep, PTL DEF Life!Spec

-----------------------------------------------------------------------------
(* The archive.                                                            *)

\* The sinks there are.
ArchiveAssumption ==
    /\ Sinks \subseteq {"file", "s3"}
    /\ MaxRetries \in Nat /\ MaxFaults \in Nat

\* S3: objects appear whole and never go away, the event first.
S3Inv ==
    /\ files.event # "torn" /\ files.metadata # "torn"
    /\ \A a \in Arch!Attempts : request[a] \notin {"writeEvent", "writeMetadata"}
    /\ \A a \in Arch!Attempts : request[a] = "metadata" => files.event = "full"
    /\ publish.state = "delivered" => files.event = "full" /\ files.metadata = "full"

\* A directory, as long as nothing has gone wrong: the first attempt is the only
\* one, and the files are as far as it is.
FileInv ==
    /\ publish.attempt = 1 /\ publish.state # "failed"
    /\ \A a \in Arch!Attempts : a # 1 => request[a] = "none"
    /\ publish.state = "backoff" => request[1] = "none"
    /\ publish.state = "sending" => request[1] \in {"event", "writeEvent", "metadata", "writeMetadata"}
    /\ publish.state = "delivered" =>
        request[1] = "done" /\ files.event = "full" /\ files.metadata = "full"
    /\ request[1] \in {"none", "event"} => files.event = "none" /\ files.metadata = "none"
    /\ request[1] = "writeEvent" => files.event = "torn" /\ files.metadata = "none"
    /\ request[1] = "metadata" => files.event = "full" /\ files.metadata = "none"
    /\ request[1] = "writeMetadata" => files.event = "full" /\ files.metadata = "torn"

ArchiveInv ==
    /\ Arch!TypeOK
    /\ sink = "s3" => S3Inv
    /\ sink = "file" /\ faults = 0 => FileInv

\* What Again does: it ends the attempt, and begins another or none.
LEMMA AgainIsTyped ==
    ASSUME ArchiveAssumption, Arch!TypeOK, Arch!Again
    PROVE  /\ publish' \in [attempt : Arch!Attempts, state : {"sending", "backoff", "delivered", "failed"}]
           /\ publish'.state \in {"backoff", "failed"}
<1>1. publish \in [attempt : Arch!Attempts, state : {"sending", "backoff", "delivered", "failed"}]
  BY DEF Arch!TypeOK
<1>2. publish.attempt <= MaxRetries => publish.attempt + 1 \in Arch!Attempts
  BY <1>1 DEF Arch!Attempts, ArchiveAssumption
<1>3. CASE publish' = [publish EXCEPT !.state = "failed"]
  BY <1>1, <1>3
<1>4. CASE publish.attempt <= MaxRetries /\ publish' = [attempt |-> publish.attempt + 1, state |-> "backoff"]
  BY <1>2, <1>4
<1> QED
  BY <1>3, <1>4 DEF Arch!Again

\* An answer ends its request; it delivers only if it is a good one, and
\* without a fault it does as long as the operator waits for it.
LEMMA AnswerIsTyped ==
    ASSUME ArchiveAssumption, Arch!TypeOK, NEW a \in Arch!Attempts, NEW ok \in BOOLEAN, Arch!Answer(a, ok)
    PROVE  /\ request' \in [Arch!Attempts -> Arch!Steps]
           /\ \A b \in Arch!Attempts : request'[b] = IF b = a THEN "done" ELSE request[b]
           /\ publish' \in [attempt : Arch!Attempts, state : {"sending", "backoff", "delivered", "failed"}]
           /\ publish'.state = "delivered" => ok \/ publish.state = "delivered"
           /\ ok => publish'.attempt = publish.attempt
           /\ ok => publish'.state = IF publish.attempt = a /\ publish.state = "sending"
                                     THEN "delivered" ELSE publish.state
<1>1. /\ publish \in [attempt : Arch!Attempts, state : {"sending", "backoff", "delivered", "failed"}]
      /\ request \in [Arch!Attempts -> Arch!Steps]
  BY DEF Arch!TypeOK
<1>2. "done" \in Arch!Steps
  BY DEF Arch!Steps
<1>3. /\ request' \in [Arch!Attempts -> Arch!Steps]
      /\ \A b \in Arch!Attempts : request'[b] = IF b = a THEN "done" ELSE request[b]
  BY <1>1, <1>2 DEF Arch!Answer
<1>4. CASE ok
  BY <1>1, <1>3, <1>4 DEF Arch!Answer
<1>5. CASE ~ok
  BY <1>1, <1>3, <1>5, AgainIsTyped DEF Arch!Answer
<1> QED
  BY <1>4, <1>5

\* What Goto does.
LEMMA GotoIsTyped ==
    ASSUME Arch!TypeOK, NEW a \in Arch!Attempts, NEW step \in Arch!Steps, Arch!Goto(a, step)
    PROVE  /\ request' \in [Arch!Attempts -> Arch!Steps]
           /\ \A b \in Arch!Attempts : request'[b] = IF b = a THEN step ELSE request[b]
           /\ publish' = publish
  BY DEF Arch!Goto, Arch!TypeOK

\* Every step keeps the objects as far as the requests are.
LEMMA ArchiveStep ==
    ASSUME ArchiveAssumption, ArchiveInv, [Arch!Next]_(Arch!vars)
    PROVE  ArchiveInv'
<1> USE DEF ArchiveInv, S3Inv, FileInv
<1> DEFINE Publish == [attempt : Arch!Attempts, state : {"sending", "backoff", "delivered", "failed"}]
<1>0. /\ Arch!TypeOK
      /\ sink \in {"file", "s3"} /\ sink \in Sinks
      /\ files \in [event : Arch!File, metadata : Arch!File]
      /\ publish \in Publish /\ request \in [Arch!Attempts -> Arch!Steps]
      /\ faults \in 0..MaxFaults
      /\ 1 \in Arch!Attempts
  BY DEF Arch!TypeOK, ArchiveAssumption, Arch!Attempts
<1>1. Arch!Fault => faults' \in 0..MaxFaults /\ faults' # 0
  BY <1>0 DEF Arch!Fault, ArchiveAssumption
<1>2. \A s \in {"none", "event", "writeEvent", "metadata", "writeMetadata", "done"} : s \in Arch!Steps
  BY DEF Arch!Steps
<1>3. \A s \in {"none", "torn", "full"} :
        LET e == [files EXCEPT !.event = s]
            m == [files EXCEPT !.metadata = s]
        IN  /\ e \in [event : Arch!File, metadata : Arch!File] /\ e.event = s /\ e.metadata = files.metadata
            /\ m \in [event : Arch!File, metadata : Arch!File] /\ m.metadata = s /\ m.event = files.event
  BY <1>0 DEF Arch!File
<1>4. CASE Arch!doRequest
  <2>1. /\ UNCHANGED <<sink, files, faults>> /\ publish.state = "backoff"
        /\ publish' \in Publish /\ publish'.attempt = publish.attempt /\ publish'.state = "sending"
        /\ request' \in [Arch!Attempts -> Arch!Steps]
        /\ \A a \in Arch!Attempts : request'[a] = IF a = publish.attempt THEN "event" ELSE request[a]
    BY <1>0, <1>2, <1>4 DEF Arch!doRequest
  <2> QED
    BY <1>0, <2>1 DEF Arch!TypeOK
<1>5. CASE Arch!loseConnection
  <2>1. publish' \in Publish /\ publish'.state \in {"backoff", "failed"}
    BY <1>0, <1>5, AgainIsTyped DEF Arch!loseConnection
  <2>2. UNCHANGED <<sink, files, request>> /\ faults' \in 0..MaxFaults /\ faults' # 0
    BY <1>1, <1>5 DEF Arch!loseConnection
  <2> QED
    BY <1>0, <2>1, <2>2 DEF Arch!TypeOK
<1>6. CASE Arch!crash
  <2>1. publish' \in Publish /\ (publish'.state = "delivered" => publish.state = "delivered")
    BY <1>0, <1>6, AgainIsTyped DEF Arch!crash
  <2>2. UNCHANGED <<sink, files>> /\ faults' \in 0..MaxFaults /\ faults' # 0
    BY <1>1, <1>6 DEF Arch!crash
  <2>3. /\ request' \in [Arch!Attempts -> Arch!Steps]
        /\ \A a \in Arch!Attempts : request'[a] \in {"none", "done"}
    BY <1>2, <1>6 DEF Arch!crash
  <2> QED
    BY <1>0, <2>1, <2>2, <2>3 DEF Arch!TypeOK
<1>7. ASSUME NEW a \in Arch!Attempts, Arch!createEvent(a)
      PROVE  ArchiveInv'
  <2>1. sink = "file" /\ request[a] = "event" /\ UNCHANGED <<sink, faults>>
    BY <1>7 DEF Arch!createEvent
  <2>2. CASE files.event = "none" /\ files' = [files EXCEPT !.event = "torn"] /\ Arch!Goto(a, "writeEvent")
    BY <1>0, <1>2, <1>3, <2>1, <2>2, GotoIsTyped DEF Arch!TypeOK
  <2>3. CASE files.event # "none" /\ Arch!Goto(a, "metadata") /\ UNCHANGED files
    BY <1>0, <1>2, <2>1, <2>3, GotoIsTyped DEF Arch!TypeOK
  <2> QED
    BY <1>7, <2>2, <2>3 DEF Arch!createEvent
<1>8. ASSUME NEW a \in Arch!Attempts, Arch!writeEvent(a)
      PROVE  ArchiveInv'
  <2>1. request[a] = "writeEvent" /\ UNCHANGED sink
    BY <1>8 DEF Arch!writeEvent
  <2>2. CASE files' = [files EXCEPT !.event = "full"] /\ Arch!Goto(a, "metadata") /\ UNCHANGED faults
    BY <1>0, <1>2, <1>3, <2>1, <2>2, GotoIsTyped DEF Arch!TypeOK
  <2>3. CASE Arch!Fault /\ files' = [files EXCEPT !.event = "none"] /\ Arch!Answer(a, FALSE)
    BY <1>0, <1>1, <1>3, <2>1, <2>3, AnswerIsTyped DEF Arch!TypeOK
  <2> QED
    BY <1>8, <2>2, <2>3 DEF Arch!writeEvent
<1>9. ASSUME NEW a \in Arch!Attempts, Arch!createMetadata(a)
      PROVE  ArchiveInv'
  <2>1. sink = "file" /\ request[a] = "metadata" /\ UNCHANGED <<sink, faults>>
    BY <1>9 DEF Arch!createMetadata
  <2>2. CASE /\ files.metadata = "none" /\ files' = [files EXCEPT !.metadata = "torn"]
             /\ Arch!Goto(a, "writeMetadata")
    BY <1>0, <1>2, <1>3, <2>1, <2>2, GotoIsTyped DEF Arch!TypeOK
  <2>3. CASE files.metadata # "none" /\ Arch!Answer(a, TRUE) /\ UNCHANGED files
    BY <1>0, <2>1, <2>3, AnswerIsTyped DEF Arch!TypeOK
  <2> QED
    BY <1>9, <2>2, <2>3 DEF Arch!createMetadata
<1>10. ASSUME NEW a \in Arch!Attempts, Arch!writeMetadata(a)
       PROVE  ArchiveInv'
  <2>1. request[a] = "writeMetadata" /\ UNCHANGED sink
    BY <1>10 DEF Arch!writeMetadata
  <2>2. CASE files' = [files EXCEPT !.metadata = "full"] /\ Arch!Answer(a, TRUE) /\ UNCHANGED faults
    <3>1. /\ files' \in [event : Arch!File, metadata : Arch!File]
          /\ files'.metadata = "full" /\ files'.event = files.event
      BY <1>3, <2>2
    <3>2. /\ request' \in [Arch!Attempts -> Arch!Steps] /\ publish' \in Publish
          /\ \A b \in Arch!Attempts : request'[b] = IF b = a THEN "done" ELSE request[b]
          /\ publish'.attempt = publish.attempt
          /\ publish'.state = IF publish.attempt = a /\ publish.state = "sending"
                              THEN "delivered" ELSE publish.state
      BY <1>0, <2>2, AnswerIsTyped
    <3> QED
      BY <1>0, <2>1, <2>2, <3>1, <3>2 DEF Arch!TypeOK
  <2>3. CASE Arch!Fault /\ files' = [files EXCEPT !.metadata = "none"] /\ Arch!Answer(a, FALSE)
    BY <1>0, <1>1, <1>3, <2>1, <2>3, AnswerIsTyped DEF Arch!TypeOK
  <2> QED
    BY <1>10, <2>2, <2>3 DEF Arch!writeMetadata
<1>11. ASSUME NEW a \in Arch!Attempts, Arch!putEvent(a)
       PROVE  ArchiveInv'
  <2>1. sink = "s3" /\ request[a] = "event" /\ UNCHANGED sink
    BY <1>11 DEF Arch!putEvent
  <2>2. CASE files' = [files EXCEPT !.event = "full"] /\ Arch!Goto(a, "metadata") /\ UNCHANGED faults
    BY <1>0, <1>2, <1>3, <2>1, <2>2, GotoIsTyped DEF Arch!TypeOK
  <2>3. CASE Arch!Fault /\ Arch!Answer(a, FALSE) /\ UNCHANGED files
    <3>1. /\ request' \in [Arch!Attempts -> Arch!Steps] /\ publish' \in Publish
          /\ \A b \in Arch!Attempts : request'[b] = IF b = a THEN "done" ELSE request[b]
          /\ publish'.state = "delivered" => publish.state = "delivered"
      BY <1>0, <2>3, AnswerIsTyped
    <3> QED
      BY <1>0, <1>1, <2>1, <2>3, <3>1 DEF Arch!TypeOK
  <2> QED
    BY <1>11, <2>2, <2>3 DEF Arch!putEvent
<1>12. ASSUME NEW a \in Arch!Attempts, Arch!putMetadata(a)
       PROVE  ArchiveInv'
  <2>1. sink = "s3" /\ request[a] = "metadata" /\ UNCHANGED sink
    BY <1>12 DEF Arch!putMetadata
  <2>2. CASE files' = [files EXCEPT !.metadata = "full"] /\ Arch!Answer(a, TRUE) /\ UNCHANGED faults
    <3>1. /\ files' \in [event : Arch!File, metadata : Arch!File]
          /\ files'.metadata = "full" /\ files'.event = files.event
      BY <1>3, <2>2
    <3>2. /\ request' \in [Arch!Attempts -> Arch!Steps] /\ publish' \in Publish
          /\ \A b \in Arch!Attempts : request'[b] = IF b = a THEN "done" ELSE request[b]
          /\ publish'.attempt = publish.attempt
          /\ publish'.state = IF publish.attempt = a /\ publish.state = "sending"
                              THEN "delivered" ELSE publish.state
      BY <1>0, <2>2, AnswerIsTyped
    <3> QED
      BY <1>0, <2>1, <2>2, <3>1, <3>2 DEF Arch!TypeOK
  <2>3. CASE Arch!Fault /\ Arch!Answer(a, FALSE) /\ UNCHANGED files
    <3>1. /\ request' \in [Arch!Attempts -> Arch!Steps] /\ publish' \in Publish
          /\ \A b \in Arch!Attempts : request'[b] = IF b = a THEN "done" ELSE request[b]
          /\ publish'.state = "delivered" => publish.state = "delivered"
      BY <1>0, <2>3, AnswerIsTyped
    <3> QED
      BY <1>0, <1>1, <2>1, <2>3, <3>1 DEF Arch!TypeOK
  <2> QED
    BY <1>12, <2>2, <2>3 DEF Arch!putMetadata
<1>13. CASE UNCHANGED Arch!vars
  BY <1>0, <1>13 DEF Arch!vars, Arch!TypeOK
<1> QED
  BY <1>4, <1>5, <1>6, <1>7, <1>8, <1>9, <1>10, <1>11, <1>12, <1>13 DEF Arch!Next, Arch!Handle

\* An event that counts as delivered has both of its objects whole: in S3 however
\* attempts overlapped and the archiver crashed (Write goes over both objects
\* again), in a directory as long as nothing failed.
THEOREM DeliveredEventsAreArchived ==
    ASSUME ArchiveAssumption
    PROVE  Arch!Spec => []Arch!DeliveredIsArchived
<1>1. Arch!Init => ArchiveInv
  <2> SUFFICES ASSUME Arch!Init PROVE ArchiveInv
    OBVIOUS
  <2>1. 1 \in Arch!Attempts
    BY DEF ArchiveAssumption, Arch!Attempts
  <2> QED
    BY <2>1 DEF Arch!Init, ArchiveInv, S3Inv, FileInv, Arch!TypeOK, Arch!File, Arch!Steps, ArchiveAssumption
<1>2. ArchiveInv => Arch!DeliveredIsArchived
  BY DEF ArchiveInv, S3Inv, FileInv, Arch!DeliveredIsArchived, Arch!TypeOK, ArchiveAssumption
<1> QED
  BY <1>1, <1>2, ArchiveStep, PTL DEF Arch!Spec

-----------------------------------------------------------------------------
(* Notifications.                                                          *)

\* The bounds are numbers.
NoteAssumption == MaxWrites \in Nat /\ MaxFaults \in Nat

\* Where a phase is among those a target goes through; it can fail in any.
Level(p) == IF p = "Failed" THEN 7 ELSE Note!Rank(p)

\* A copy of the newest version is the target.
CopyInv ==
    /\ seen.rv <= target.rv /\ (seen.rv = target.rv => seen = target)
    /\ job.pc = "update" =>
        /\ job.old.rv <= target.rv /\ (job.old.rv = target.rv => job.old = target)
        /\ job.phase # job.old.phase => Level(job.old.phase) < Level(job.phase)
        /\ job.old.asked => job.asked

\* A phase is told once it is entered, and there is no way back; what the
\* reconcile in progress has yet to tell has not been told.
ToldInv ==
    /\ \A p \in entered : Level(p) <= Level(target.phase)
    /\ Note!ToldOnceAndTrue
    /\ told["approval"] = 1 => target.asked
    /\ job.pc \in {"label", "tell"} /\ job.phase # job.old.phase =>
        job.phase \in entered /\ told[job.phase] = 0
    /\ job.pc \in {"label", "tell", "ask"} /\ job.asked /\ ~job.old.asked =>
        target.asked /\ told["approval"] = 0

NoteInv == Note!TypeOK /\ CopyInv /\ ToldInv

\* The phases in their order.
LEMMA Ranks ==
    /\ Note!Rank("Pending") = 1 /\ Note!Rank("Soaking") = 2 /\ Note!Rank("MetricsCheck") = 3
    /\ Note!Rank("WaitingApproval") = 4 /\ Note!Rank("Applying") = 5 /\ Note!Rank("Converged") = 6
    /\ Note!Phases = {"Pending", "Soaking", "MetricsCheck", "WaitingApproval", "Applying", "Converged", "Failed"}
    /\ \A i \in 1..6 : Note!Rank(Note!Order[i]) = i
<1>1. /\ DOMAIN Note!Order = 1..6
      /\ Note!Order[1] = "Pending" /\ Note!Order[2] = "Soaking" /\ Note!Order[3] = "MetricsCheck"
      /\ Note!Order[4] = "WaitingApproval" /\ Note!Order[5] = "Applying" /\ Note!Order[6] = "Converged"
  BY DEF Note!Order
<1>2. ASSUME NEW i \in 1..6
      PROVE  Note!Rank(Note!Order[i]) = i
  <2>1. \A j \in 1..6 : Note!Order[j] = Note!Order[i] => j = i
    BY <1>1, <1>2
  <2> QED
    BY <1>1, <2>1 DEF Note!Rank
<1>3. Note!Phases = {Note!Order[i] : i \in 1..6} \cup {"Failed"}
  BY <1>1 DEF Note!Phases
<1> QED
  BY <1>1, <1>2, <1>3

\* Levels are numbers, and only what failed is above Converged.
LEMMA Levels ==
    ASSUME NEW p \in Note!Phases
    PROVE  Level(p) \in 1..7 /\ (p = "Failed" <=> Level(p) = 7)
  BY Ranks DEF Level

\* A reconcile goes to a later phase and forgets no request.
LEMMA AdvancesGoForward ==
    ASSUME NEW t \in Note!Target, ~Note!Terminal(t.phase), NEW n \in Note!Advances(t)
    PROVE  /\ n.phase \in Note!Phases /\ n.asked \in BOOLEAN
           /\ n.phase # t.phase => Level(t.phase) < Level(n.phase)
           /\ t.asked => n.asked
<1>1. t.phase \in Note!Phases /\ t.asked \in BOOLEAN
  BY DEF Note!Target
<1>2. PICK k \in 1..5 : t.phase = Note!Order[k]
  BY <1>1, Ranks DEF Note!Phases, Note!Terminal, Note!Order
<1>3. Note!Rank(t.phase) = k /\ Level(t.phase) = k
  BY <1>2, Ranks DEF Level, Note!Order
<1>4. CASE n \in [phase : {"Failed"}, asked : {t.asked}]
  BY <1>1, <1>3, <1>4, Ranks DEF Level
<1>5. CASE n \notin [phase : {"Failed"}, asked : {t.asked}]
  <2> DEFINE last == IF t.phase = "Applying" THEN "Converged" ELSE "Applying"
  <2>1. Note!Rank(last) \in 5..6
    BY Ranks
  <2>2. /\ n.phase \in {Note!Order[i] : i \in k..Note!Rank(last)} /\ n.asked \in BOOLEAN
        /\ t.asked => n.asked
    BY <1>1, <1>3, <1>5 DEF Note!Advances
  <2>3. PICK i \in k..6 : n.phase = Note!Order[i]
    BY <2>1, <2>2
  <2>4. Level(n.phase) = i /\ n.phase \in Note!Phases
    BY <2>3, Ranks DEF Level, Note!Order
  <2> QED
    BY <1>2, <1>3, <2>2, <2>3, <2>4
<1> QED
  BY <1>4, <1>5

\* What telling an event changes.
LEMMA NotifyTells ==
    ASSUME NoteAssumption, Note!TypeOK, NEW e \in Note!EventTypes, Note!Notify(e)
    PROVE  /\ told' \in [Note!EventTypes -> 0..2] /\ told'[e] <= told[e] + 1
           /\ \A d \in Note!EventTypes : d # e => told'[d] = told[d]
           /\ cached' \in BOOLEAN /\ sending' \subseteq Note!EventTypes \X Channels
           /\ faults' \in 0..MaxFaults
<1>1. /\ told \in [Note!EventTypes -> 0..2] /\ cached \in BOOLEAN /\ faults \in 0..MaxFaults
      /\ sending \subseteq Note!EventTypes \X Channels /\ MaxFaults \in Nat
  BY DEF Note!TypeOK, NoteAssumption
<1>2. /\ told' \in [Note!EventTypes -> 0..2] /\ told'[e] <= told[e] + 1
      /\ \A d \in Note!EventTypes : d # e => told'[d] = told[d]
  <2>1. told' = [told EXCEPT ![e] = IF told[e] < 2 THEN told[e] + 1 ELSE told[e]]
    BY DEF Note!Notify
  <2>2. (IF told[e] < 2 THEN told[e] + 1 ELSE told[e]) \in 0..2
    BY <1>1
  <2> QED
    BY <1>1, <2>1, <2>2
<1>3. CASE cached' = TRUE /\ UNCHANGED faults
           /\ sending' = sending \cup {<<e, c>> : c \in {d \in Channels : Note!MatchesEvent(d, e)}}
  BY <1>1, <1>2, <1>3
<1>4. CASE Note!Fault /\ UNCHANGED <<cached, sending>>
  BY <1>1, <1>2, <1>4 DEF Note!Fault
<1> QED
  BY <1>3, <1>4 DEF Note!Notify

\* Initially nothing is told.
LEMMA NoteInit ==
    ASSUME NoteAssumption, Note!Init
    PROVE  NoteInv
<1>1. /\ "Pending" \in Note!Phases /\ Note!Phases \subseteq Note!EventTypes /\ "approval" \in Note!EventTypes
      /\ 0 \in 0..MaxWrites
  BY Ranks DEF Note!EventTypes, NoteAssumption
<1>2. Note!NoJob.old \in Note!Target
  BY <1>1 DEF Note!NoJob, Note!Target
<1>3. /\ Note!NoJob \in [pc : {"idle", "update", "label", "tell", "ask"}, old : Note!Target,
                         phase : Note!Phases, asked : BOOLEAN]
      /\ Note!NoJob.pc = "idle" /\ Note!NoJob.old.rv = 0
  BY <1>1, <1>2 DEF Note!NoJob
<1>4. target \in Note!Target /\ seen = target /\ job = Note!NoJob /\ target.rv = 0
  BY <1>2, <1>3 DEF Note!Init
<1>5. Note!TypeOK
  <2>1. cached \in BOOLEAN /\ sending \subseteq Note!EventTypes \X Channels /\ entered \subseteq Note!Phases
    BY DEF Note!Init
  <2>2. told \in [Note!EventTypes -> 0..2] /\ faults \in 0..MaxFaults
    BY DEF Note!Init, NoteAssumption
  <2> QED
    BY <1>2, <1>3, <1>4, <2>1, <2>2 DEF Note!TypeOK
<1>6. CopyInv
  BY <1>3, <1>4 DEF CopyInv
<1>7. ToldInv
  BY <1>1, <1>3, <1>4 DEF ToldInv, Note!Init, Note!ToldOnceAndTrue
<1> QED
  BY <1>5, <1>6, <1>7 DEF NoteInv

\* A write of the target makes every copy there is an old one, so that a
\* reconcile that read such a copy neither writes over it nor tells of it.
LEMMA NoteStep ==
    ASSUME NoteAssumption, NoteInv, [Note!Next]_(Note!vars)
    PROVE  NoteInv'
<1> USE DEF NoteInv
<1> DEFINE Jobs == [pc : {"idle", "update", "label", "tell", "ask"}, old : Note!Target,
                    phase : Note!Phases, asked : BOOLEAN]
<1>0. /\ target \in Note!Target /\ seen \in Note!Target /\ job \in Jobs
      /\ cached \in BOOLEAN /\ sending \subseteq Note!EventTypes \X Channels
      /\ told \in [Note!EventTypes -> 0..2] /\ entered \subseteq Note!Phases
      /\ faults \in 0..MaxFaults
  BY DEF Note!TypeOK
<1>a. /\ target.phase \in Note!Phases /\ target.asked \in BOOLEAN /\ target.rv \in 0..MaxWrites
      /\ seen.phase \in Note!Phases /\ seen.asked \in BOOLEAN /\ seen.rv \in 0..MaxWrites
      /\ job.old \in Note!Target /\ job.phase \in Note!Phases /\ job.asked \in BOOLEAN
      /\ job.old.phase \in Note!Phases /\ job.old.asked \in BOOLEAN /\ job.old.rv \in 0..MaxWrites
      /\ MaxWrites \in Nat /\ MaxFaults \in Nat
  BY <1>0 DEF Note!Target, NoteAssumption
<1>b. /\ Note!Phases \subseteq Note!EventTypes /\ {"approval", "gate"} \subseteq Note!EventTypes
      /\ "approval" \notin Note!Phases /\ "gate" \notin Note!Phases /\ "Failed" \in Note!Phases
  BY Ranks DEF Note!EventTypes
<1>c. Note!NoJob \in Jobs /\ Note!NoJob.pc = "idle"
  <2>1. Note!NoJob.old \in Note!Target
    BY Ranks DEF Note!NoJob, Note!Target, NoteAssumption
  <2> QED
    BY <2>1, Ranks DEF Note!NoJob
<1> HIDE DEF Jobs
<1>1. CASE Note!Reconcile
  <2>1. PICK n \in Note!Advances(seen) :
          /\ job' = [pc |-> "update", old |-> seen, phase |-> n.phase, asked |-> n.asked]
          /\ Note!Notify("gate") \/ UNCHANGED <<told, cached, sending, faults>>
    BY <1>1 DEF Note!Reconcile
  <2>2. ~Note!Terminal(seen.phase) /\ UNCHANGED <<target, seen, entered>>
    BY <1>1 DEF Note!Reconcile
  <2>3. /\ n.phase \in Note!Phases /\ n.asked \in BOOLEAN
        /\ n.phase # seen.phase => Level(seen.phase) < Level(n.phase)
        /\ seen.asked => n.asked
    BY <1>0, <2>2, AdvancesGoForward
  <2>4. job' \in Jobs /\ job'.pc = "update" /\ job'.old = seen /\ job'.phase = n.phase /\ job'.asked = n.asked
    BY <1>0, <2>1, <2>3 DEF Jobs
  <2>5. /\ told' \in [Note!EventTypes -> 0..2] /\ cached' \in BOOLEAN
        /\ sending' \subseteq Note!EventTypes \X Channels /\ faults' \in 0..MaxFaults
        /\ \A e \in Note!EventTypes : e # "gate" => told'[e] = told[e]
    BY <1>0, <1>b, <2>1, NotifyTells
  <2>6. Note!TypeOK'
    BY <1>0, <2>2, <2>4, <2>5 DEF Note!TypeOK, Jobs
  <2>7. CopyInv'
    BY <2>2, <2>3, <2>4 DEF CopyInv
  <2>8. ToldInv'
    BY <1>b, <2>2, <2>4, <2>5 DEF ToldInv, Note!ToldOnceAndTrue, Level
  <2> QED
    BY <2>6, <2>7, <2>8
<1>2. CASE Note!updateStatus
  <2>1. CASE target.rv = job.old.rv
    <3> DEFINE new == [target EXCEPT !.phase = job.phase, !.asked = job.asked, !.rv = target.rv + 1]
    <3>1. /\ target' = new /\ job' = [job EXCEPT !.pc = "label"] /\ entered' = entered \cup {job.phase}
          /\ target.rv < MaxWrites /\ job.pc = "update"
          /\ UNCHANGED <<seen, cached, sending, told, faults>>
      BY <1>2, <2>1 DEF Note!updateStatus, Note!notifier
    <3>2. /\ new \in Note!Target /\ new.phase = job.phase /\ new.asked = job.asked /\ new.rv = target.rv + 1
      <4>1. PICK n \in 0..MaxWrites : n = target.rv + 1
        BY <1>a, <3>1
      <4>2. new = [target EXCEPT !.phase = job.phase, !.asked = job.asked, !.rv = n]
        BY <4>1
      <4> HIDE DEF new
      <4> QED
        BY <1>0, <1>a, <4>1, <4>2 DEF Note!Target
    <3>3. /\ job' \in Jobs /\ job'.pc = "label" /\ job'.old = job.old /\ job'.phase = job.phase
          /\ job'.asked = job.asked
      BY <1>0, <3>1 DEF Jobs
    <3>4. job.old = target /\ (target.asked => job.asked)
          /\ (job.phase # target.phase => Level(target.phase) < Level(job.phase))
      BY <2>1, <3>1 DEF CopyInv
    <3> HIDE DEF new
    <3>5. Note!TypeOK'
      BY <1>0, <1>a, <3>1, <3>2, <3>3 DEF Note!TypeOK, Jobs
    <3>6. CopyInv'
      BY <1>a, <3>1, <3>2, <3>3 DEF CopyInv
    <3>7. \A p \in entered : Level(p) <= Level(target.phase)
      BY DEF ToldInv
    <3>8. \A p \in entered' : Level(p) <= Level(job.phase)
      BY <1>0, <1>a, <3>1, <3>4, <3>7, Levels
    <3>9. job.phase # target.phase => job.phase \notin entered
      BY <1>0, <1>a, <3>4, <3>7, Levels
    <3>10. job.phase # target.phase => told[job.phase] = 0
      BY <1>0, <1>a, <1>b, <3>9 DEF ToldInv, Note!ToldOnceAndTrue
    <3>11. \A p \in Note!Phases : told'[p] <= 1 /\ (told'[p] = 1 => p \in entered')
      BY <3>1 DEF ToldInv, Note!ToldOnceAndTrue
    <3>12. /\ told'["approval"] <= 1 /\ (told'["approval"] = 1 => target'.asked)
           /\ job'.asked /\ ~job'.old.asked => target'.asked /\ told'["approval"] = 0
      <4>1. /\ told["approval"] <= 1 /\ (told["approval"] = 1 => target.asked)
            /\ told["approval"] \in 0..2
        BY <1>0, <1>b DEF ToldInv, Note!ToldOnceAndTrue
      <4> QED
        BY <3>1, <3>2, <3>3, <3>4, <4>1
    <3>13. job'.phase # job'.old.phase => job'.phase \in entered' /\ told'[job'.phase] = 0
      BY <3>1, <3>3, <3>4, <3>10
    <3>14. \A p \in entered' : Level(p) <= Level(target'.phase)
      BY <3>1, <3>2, <3>8
    <3> QED
      BY <3>5, <3>6, <3>11, <3>12, <3>13, <3>14 DEF ToldInv, Note!ToldOnceAndTrue, Level
  <2>2. CASE target.rv # job.old.rv
    BY <1>0, <1>2, <1>c, <2>2
       DEF Note!updateStatus, Note!notifier, Note!TypeOK, Jobs, CopyInv, ToldInv, Note!ToldOnceAndTrue, Level
  <2> QED
    BY <2>1, <2>2
<1>3. CASE Note!syncPhaseLabel
  <2>1. /\ UNCHANGED <<target, seen, cached, sending, told, entered>> /\ job.pc = "label"
        /\ faults' \in 0..MaxFaults
        /\ job' = [job EXCEPT !.pc = "tell"] \/ job' = Note!NoJob
    BY <1>0, <1>3, <1>a DEF Note!syncPhaseLabel, Note!notifier, Note!Fault
  <2>2. /\ job' \in Jobs
        /\ \/ job'.pc = "idle"
           \/ job'.pc = "tell" /\ job'.old = job.old /\ job'.phase = job.phase /\ job'.asked = job.asked
    BY <1>0, <1>c, <2>1 DEF Jobs
  <2> QED
    BY <1>0, <2>1, <2>2 DEF Note!TypeOK, Jobs, CopyInv, ToldInv, Note!ToldOnceAndTrue, Level
<1>4. CASE Note!notifyPersistedTransitions
  <2>1. /\ UNCHANGED <<target, seen, entered>> /\ job.pc = "tell" /\ job' = [job EXCEPT !.pc = "ask"]
        /\ IF job.old.phase # job.phase /\ job.phase # "WaitingApproval"
           THEN Note!Notify(job.phase) ELSE UNCHANGED <<told, cached, sending, faults>>
    BY <1>4 DEF Note!notifyPersistedTransitions
  <2>2. job' \in Jobs /\ job'.pc = "ask" /\ job'.old = job.old /\ job'.phase = job.phase /\ job'.asked = job.asked
    BY <1>0, <2>1 DEF Jobs
  <2>3. CopyInv'
    BY <2>1, <2>2 DEF CopyInv
  <2>4. CASE job.old.phase # job.phase /\ Note!Notify(job.phase)
    <3>1. /\ told' \in [Note!EventTypes -> 0..2] /\ told'[job.phase] <= told[job.phase] + 1
          /\ \A d \in Note!EventTypes : d # job.phase => told'[d] = told[d]
          /\ cached' \in BOOLEAN /\ sending' \subseteq Note!EventTypes \X Channels /\ faults' \in 0..MaxFaults
      BY <1>a, <1>b, <2>4, NotifyTells
    <3>2. job.phase \in entered /\ told[job.phase] = 0
      BY <2>1, <2>4 DEF ToldInv
    <3>3. told'["approval"] = told["approval"]
      BY <1>a, <1>b, <3>1
    <3>4. \A p \in Note!Phases : told'[p] <= 1 /\ (told'[p] = 1 => p \in entered)
      BY <1>0, <1>a, <1>b, <3>1, <3>2 DEF ToldInv, Note!ToldOnceAndTrue
    <3>5. Note!TypeOK'
      BY <1>0, <2>1, <2>2, <3>1 DEF Note!TypeOK, Jobs
    <3>6. ToldInv'
      BY <2>1, <2>2, <3>3, <3>4 DEF ToldInv, Note!ToldOnceAndTrue, Level
    <3> QED
      BY <2>3, <3>5, <3>6
  <2>5. CASE UNCHANGED <<told, cached, sending, faults>>
    BY <1>0, <2>1, <2>2, <2>3, <2>5 DEF Note!TypeOK, Jobs, ToldInv, Note!ToldOnceAndTrue, Level
  <2> QED
    BY <2>1, <2>4, <2>5
<1>5. CASE Note!notifyApprovalRequest
  <2>1. /\ UNCHANGED <<target, seen, entered>> /\ job.pc = "ask" /\ job' = Note!NoJob
        /\ IF job.asked /\ ~job.old.asked
           THEN Note!Notify("approval") ELSE UNCHANGED <<told, cached, sending, faults>>
    BY <1>5 DEF Note!notifyApprovalRequest
  <2>2. CopyInv'
    BY <1>c, <2>1 DEF CopyInv
  <2>3. CASE job.asked /\ ~job.old.asked /\ Note!Notify("approval")
    <3>1. /\ told' \in [Note!EventTypes -> 0..2] /\ told'["approval"] <= told["approval"] + 1
          /\ \A d \in Note!EventTypes : d # "approval" => told'[d] = told[d]
          /\ cached' \in BOOLEAN /\ sending' \subseteq Note!EventTypes \X Channels /\ faults' \in 0..MaxFaults
      BY <1>b, <2>3, NotifyTells
    <3>2. told["approval"] = 0 /\ target.asked
      BY <2>1, <2>3 DEF ToldInv
    <3>3. \A p \in Note!Phases : told'[p] <= 1 /\ (told'[p] = 1 => p \in entered)
      BY <1>b, <3>1 DEF ToldInv, Note!ToldOnceAndTrue
    <3>4. told'["approval"] <= 1
      BY <1>b, <3>1, <3>2
    <3>5. Note!TypeOK'
      BY <1>0, <1>c, <2>1, <3>1 DEF Note!TypeOK, Jobs
    <3>6. ToldInv'
      BY <1>c, <2>1, <3>2, <3>3, <3>4 DEF ToldInv, Note!ToldOnceAndTrue, Level
    <3> QED
      BY <2>2, <3>5, <3>6
  <2>4. CASE UNCHANGED <<told, cached, sending, faults>>
    BY <1>0, <1>c, <2>1, <2>2, <2>4 DEF Note!TypeOK, Jobs, ToldInv, Note!ToldOnceAndTrue, Level
  <2> QED
    BY <2>1, <2>3, <2>4
<1>6. ASSUME target'.phase \in Note!Phases, target' \in Note!Target, target'.asked = target.asked,
             target'.rv = target.rv + 1, UNCHANGED <<seen, job, cached, sending, told, faults>>,
             \/ target'.phase = target.phase /\ entered' = entered
             \/ target'.phase = "Failed" /\ entered' = entered \cup {"Failed"}
      PROVE  NoteInv'
  <2>1. Note!TypeOK'
    BY <1>0, <1>6, <1>b DEF Note!TypeOK, Jobs
  <2>2. CopyInv'
    BY <1>a, <1>6 DEF CopyInv, Level
  <2>3. \A p \in entered' : Level(p) <= Level(target'.phase)
    BY <1>0, <1>6, <1>b, Levels DEF ToldInv
  <2>4. ToldInv'
    BY <1>6, <2>3 DEF ToldInv, Note!ToldOnceAndTrue, Level
  <2> QED
    BY <2>1, <2>2, <2>4
<1>7. CASE Note!cancel
  <2> DEFINE new == [target EXCEPT !.phase = "Failed", !.rv = target.rv + 1]
  <2>1. target' = new /\ entered' = entered \cup {"Failed"} /\ target.rv < MaxWrites
        /\ UNCHANGED <<seen, job, cached, sending, told, faults>>
    BY <1>7 DEF Note!cancel, Note!notifier
  <2>2. new \in Note!Target /\ new.phase = "Failed" /\ new.asked = target.asked /\ new.rv = target.rv + 1
    <3>1. PICK n \in 0..MaxWrites : n = target.rv + 1
      BY <1>a, <2>1
    <3>2. new = [target EXCEPT !.phase = "Failed", !.rv = n]
      BY <3>1
    <3> HIDE DEF new
    <3> QED
      BY <1>0, <1>b, <3>1, <3>2 DEF Note!Target
  <2> HIDE DEF new
  <2> QED
    BY <1>6, <1>b, <2>1, <2>2
<1>8. CASE Note!reject
  <2> DEFINE new == [target EXCEPT !.rejected = TRUE, !.rv = target.rv + 1]
  <2>1. target' = new /\ target.rv < MaxWrites
        /\ UNCHANGED <<seen, job, cached, sending, told, entered, faults>>
    BY <1>8 DEF Note!reject, Note!notifier
  <2>2. new \in Note!Target /\ new.phase = target.phase /\ new.asked = target.asked /\ new.rv = target.rv + 1
    <3>1. PICK n \in 0..MaxWrites : n = target.rv + 1
      BY <1>a, <2>1
    <3>2. new = [target EXCEPT !.rejected = TRUE, !.rv = n]
      BY <3>1
    <3> HIDE DEF new
    <3> QED
      BY <1>0, <1>b, <3>1, <3>2 DEF Note!Target
  <2> HIDE DEF new
  <2> QED
    BY <1>6, <1>a, <2>1, <2>2
<1>9. CASE Note!cancelTarget
  <2> DEFINE new == [target EXCEPT !.cancelled = TRUE, !.rv = target.rv + 1]
  <2>1. target' = new /\ target.rv < MaxWrites
        /\ UNCHANGED <<seen, job, cached, sending, told, entered, faults>>
    BY <1>9 DEF Note!cancelTarget, Note!notifier
  <2>2. new \in Note!Target /\ new.phase = target.phase /\ new.asked = target.asked /\ new.rv = target.rv + 1
    <3>1. PICK n \in 0..MaxWrites : n = target.rv + 1
      BY <1>a, <2>1
    <3>2. new = [target EXCEPT !.cancelled = TRUE, !.rv = n]
      BY <3>1
    <3> HIDE DEF new
    <3> QED
      BY <1>0, <1>b, <3>1, <3>2 DEF Note!Target
  <2> HIDE DEF new
  <2> QED
    BY <1>6, <1>a, <2>1, <2>2
<1>10. ASSUME UNCHANGED <<target, job, told, entered>>, seen' \in {seen, target},
              cached' \in BOOLEAN, sending' \subseteq sending, UNCHANGED faults
       PROVE  NoteInv'
  BY <1>0, <1>10, <1>a DEF Note!TypeOK, Jobs, CopyInv, ToldInv, Note!ToldOnceAndTrue, Level
<1>11. CASE \E m \in sending : Note!dispatch(m)
  BY <1>0, <1>10, <1>11 DEF Note!dispatch
<1>12. CASE Note!expire
  BY <1>0, <1>10, <1>12 DEF Note!expire
<1>13. CASE Note!syncTarget
  BY <1>0, <1>10, <1>13 DEF Note!syncTarget, Note!notifier
<1>14. CASE Note!crash
  <2>1. /\ job' = Note!NoJob /\ sending' = {} /\ cached' = FALSE /\ faults' \in 0..MaxFaults
        /\ UNCHANGED <<target, seen, told, entered>>
    BY <1>0, <1>14, <1>a DEF Note!crash, Note!Fault
  <2> QED
    BY <1>0, <1>c, <2>1 DEF Note!TypeOK, Jobs, CopyInv, ToldInv, Note!ToldOnceAndTrue, Level
<1>15. CASE UNCHANGED Note!vars
  BY <1>0, <1>10, <1>15 DEF Note!vars, Note!notifier
<1> QED
  BY <1>1, <1>2, <1>3, <1>4, <1>5, <1>7, <1>8, <1>9, <1>11, <1>12, <1>13, <1>14, <1>15 DEF Note!Next

\* Nobody is told of a phase the target did not enter, or told twice, and an
\* approval is asked for once, although the reconciler reads old copies, loses
\* its writes to others and crashes (notifyPersistedTransitions).
THEOREM PeopleAreToldOnce ==
    ASSUME NoteAssumption
    PROVE  Note!Spec => []Note!ToldOnceAndTrue
<1>1. Note!Init => NoteInv
  BY NoteInit
<1>2. NoteInv => Note!ToldOnceAndTrue
  BY DEF NoteInv, ToldInv
<1> QED
  BY <1>1, <1>2, NoteStep, PTL DEF Note!Spec

-----------------------------------------------------------------------------
(* Push.                                                                   *)

\* The version that the object of a slot wants, where each slot has its own.
Wanted(s) == object[{s}].want[s]

\* An object that is fresh and ready has its version running; so has a cached
\* copy that wants the same.
ObjectsInv ==
    /\ DOMAIN object = {{s} : s \in Push!Slots} /\ DOMAIN seen = {{s} : s \in Push!Slots}
    /\ \A s \in Push!Slots : object[{s}] \in Push!Object({s}) /\ seen[{s}] \in Push!Object({s})
    /\ running \in [Push!Slots -> Versions]
    /\ \A s \in Push!Slots : object[{s}].fresh /\ object[{s}].ready => running[s] = Wanted(s)
    /\ kind = "direct" => \A s \in Push!Slots :
          seen[{s}].want[s] = Wanted(s) /\ seen[{s}].fresh /\ seen[{s}].ready => running[s] = Wanted(s)

\* A patch is of a slot of the cluster, and no copy that is still to be seen
\* has taken for its version what it is about to write.
Patching(c) ==
    \E s \in Push!SlotsOf(c) :
        /\ work[c].at = {s} /\ work[c].new = [x \in {s} |-> target[c].version]
        /\ kind = "direct" /\ Wanted(s) # target[c].version => seen[{s}].want[s] # target[c].version

WorkInv(c) ==
    /\ work[c].todo \subseteq Push!SlotsOf(c)
    /\ work[c].pc \in {"idle", "read", "patch", "poll"}
    /\ work[c].pc # "idle" => target[c].phase = "Applying"
    /\ work[c].pc = "patch" => Patching(c)

\* The slots of the cluster outside S want the target's version.
Applied(c, S) == \A s \in Push!SlotsOf(c) \ S : Wanted(s) = target[c].version

\* Unless a copy was stale, what has been gone through is applied, and what has
\* converged runs.
AppliedInv(c) ==
    c \notin overtaken =>
        /\ work[c].pc = "read" => Applied(c, work[c].todo)
        /\ work[c].pc = "patch" => Applied(c, work[c].todo \cup work[c].at)
        /\ \/ work[c].pc = "poll" \/ target[c].phase = "Converged"
           \/ target[c].issued /\ target[c].phase = "Applying"
           => Applied(c, {})
        /\ target[c].phase = "Converged" => \A s \in Push!SlotsOf(c) : running[s] = target[c].version

TargetsInv ==
    /\ target \in [Clusters -> [version : Versions, issued : BOOLEAN, n : Nat,
                                phase : {"Applying", "Converged", "Failed"}]]
    /\ DOMAIN work = Clusters
    /\ \A c \in Clusters : WorkInv(c) /\ AppliedInv(c)

PushInv == kind \in {"direct", "plugin"} => ObjectsInv /\ TargetsInv

\* A slot is of one cluster, and has its own object.
LEMMA SlotsAreApart ==
    /\ \A c \in Clusters : Push!SlotsOf(c) \subseteq Push!Slots
    /\ \A c, d \in Clusters : \A s \in Push!SlotsOf(c) : s \in Push!SlotsOf(d) => c = d
    /\ kind # "flux" => Push!Objects = {{s} : s \in Push!Slots} /\ \A s \in Push!Slots : Push!ObjectOf(s) = {s}
  BY DEF Push!SlotsOf, Push!Slots, Push!Objects, Push!ObjectOf

\* Versions of the objects are versions.
LEMMA WantedIsVersion ==
    ASSUME ObjectsInv, NEW s \in Push!Slots
    PROVE  /\ Wanted(s) \in Versions /\ seen[{s}].want[s] \in Versions
           /\ object[{s}].want = [x \in {s} |-> Wanted(s)]
           /\ seen[{s}].want = [x \in {s} |-> seen[{s}].want[s]]
  BY DEF ObjectsInv, Wanted, Push!Object

\* Initially every copy is current and nothing is in progress.
LEMMA PushInit == Push!Init => PushInv
<1> SUFFICES ASSUME Push!Init, kind \in {"direct", "plugin"} PROVE ObjectsInv /\ TargetsInv
  BY DEF PushInv
<1>1. PICK v \in Versions :
        /\ object = [o \in Push!Objects |-> [want |-> [s \in o |-> v], fresh |-> TRUE, ready |-> TRUE]]
        /\ running = [s \in Push!Slots |-> v]
        /\ target \in [Clusters -> {[version |-> w, issued |-> FALSE, n |-> 1, phase |-> "Applying"] :
                                      w \in Versions \ {v}}]
  BY DEF Push!Init
<1>2. seen = object /\ work = [c \in Clusters |-> Push!Idle]
  BY DEF Push!Init
<1>3. \A s \in Push!Slots : object[{s}] = [want |-> [x \in {s} |-> v], fresh |-> TRUE, ready |-> TRUE]
  BY <1>1, SlotsAreApart
<1>4. \A s \in Push!Slots : object[{s}] \in Push!Object({s}) /\ Wanted(s) = v /\ running[s] = v
  <2> SUFFICES ASSUME NEW s \in Push!Slots
               PROVE  object[{s}] \in Push!Object({s}) /\ Wanted(s) = v /\ running[s] = v
    OBVIOUS
  <2> DEFINE f == [x \in {s} |-> v]
  <2>1. f \in [{s} -> Versions] /\ f[s] = v
    OBVIOUS
  <2>2. object[{s}] = [want |-> f, fresh |-> TRUE, ready |-> TRUE]
    BY <1>3
  <2> HIDE DEF f
  <2>3. object[{s}] \in Push!Object({s})
    BY <2>1, <2>2 DEF Push!Object
  <2>4. Wanted(s) = v
    BY <2>1, <2>2 DEF Wanted
  <2> QED
    BY <1>1, <2>3, <2>4
<1>5. ObjectsInv
  BY <1>1, <1>2, <1>4, SlotsAreApart DEF ObjectsInv
<1>6. target \in [Clusters -> [version : Versions, issued : BOOLEAN, n : Nat,
                               phase : {"Applying", "Converged", "Failed"}]]
  <2>1. {[version |-> w, issued |-> FALSE, n |-> 1, phase |-> "Applying"] : w \in Versions \ {v}}
           \subseteq [version : Versions, issued : BOOLEAN, n : Nat,
                      phase : {"Applying", "Converged", "Failed"}]
    <3> SUFFICES ASSUME NEW w \in Versions
                 PROVE  [version |-> w, issued |-> FALSE, n |-> 1, phase |-> "Applying"]
                           \in [version : Versions, issued : BOOLEAN, n : Nat,
                                phase : {"Applying", "Converged", "Failed"}]
      OBVIOUS
    <3> QED
      OBVIOUS
  <2> QED
    BY <1>1, <2>1
<1>7. \A c \in Clusters : /\ work[c].pc = "idle" /\ work[c].todo = {}
                          /\ target[c].phase = "Applying" /\ target[c].issued = FALSE
  BY <1>1, <1>2 DEF Push!Idle
<1>8. \A c \in Clusters : WorkInv(c) /\ AppliedInv(c)
  BY <1>7 DEF WorkInv, AppliedInv
<1> QED
  BY <1>2, <1>5, <1>6, <1>8 DEF TargetsInv

\* What does not concern a cluster leaves its part of the invariant alone.
LEMMA OthersAreLeftAlone ==
    ASSUME NEW c \in Clusters, WorkInv(c), AppliedInv(c), UNCHANGED kind,
           work'[c] = work[c], target'[c] = target[c], c \in overtaken => c \in overtaken',
           \A s \in Push!SlotsOf(c) : Wanted(s)' = Wanted(s) /\ seen'[{s}].want[s] = seen[{s}].want[s]
                                      /\ running'[s] = running[s]
    PROVE  WorkInv(c)' /\ AppliedInv(c)'
<1>1. Push!SlotsOf(c)' = Push!SlotsOf(c)
  BY DEF Push!SlotsOf, Push!Slots
<1>2. Patching(c) => Patching(c)'
  <2> SUFFICES ASSUME Patching(c) PROVE Patching(c)'
    OBVIOUS
  <2>1. PICK s \in Push!SlotsOf(c) :
          /\ work[c].at = {s} /\ work[c].new = [x \in {s} |-> target[c].version]
          /\ kind = "direct" /\ Wanted(s) # target[c].version => seen[{s}].want[s] # target[c].version
    BY DEF Patching
  <2>2. work'[c].at = {s} /\ work'[c].new = [x \in {s} |-> target'[c].version]
    BY <2>1
  <2>3. kind' = "direct" /\ Wanted(s)' # target'[c].version => seen'[{s}].want[s] # target'[c].version
    <3>1. Wanted(s)' = Wanted(s) /\ seen'[{s}].want[s] = seen[{s}].want[s]
      BY <2>1
    <3> QED
      BY <2>1, <3>1
  <2>4. s \in Push!SlotsOf(c)'
    BY <1>1, <2>1
  <2> QED
    BY <2>2, <2>3, <2>4 DEF Patching
<1>3. WorkInv(c)'
  BY <1>1, <1>2 DEF WorkInv
<1>4. \A S : Applied(c, S) => Applied(c, S)'
  BY <1>1 DEF Applied
<1>5. AppliedInv(c)'
  BY <1>1, <1>4 DEF AppliedInv, Applied
<1> QED
  BY <1>3, <1>5

\* The version that a reconcile wants of a slot of its own.
LEMMA WrittenIs ==
    ASSUME NEW c \in Clusters, NEW s \in Push!SlotsOf(c), NEW w
    PROVE  Push!Written(c, [x \in {s} |-> w]) = [x \in {s} |-> target[c].version]
  BY DEF Push!Written, Push!SlotsOf

\* A step of one cluster, of its objects or of an informer keeps what all of
\* them rely on.
LEMMA PushStep ==
    ASSUME PushInv, [Push!Next]_(Push!vars)
    PROVE  PushInv'
<1>0. kind' = kind
  BY DEF Push!Next, Push!vars, Push!Apply, Push!Follow, Push!beginApplying, Push!ApplyDelta,
         Push!setTargetRevision, Push!pollConvergence, Push!failReconcile, Push!failTarget, Push!promote,
         Push!observe, Push!observeRelease, Push!rollOut, Push!syncObject
<1> SUFFICES ASSUME kind \in {"direct", "plugin"}, ObjectsInv, TargetsInv
             PROVE  ObjectsInv' /\ TargetsInv'
  BY <1>0 DEF PushInv
<1> DEFINE Targets == [version : Versions, issued : BOOLEAN, n : Nat, phase : {"Applying", "Converged", "Failed"}]
<1>a. /\ target \in [Clusters -> Targets] /\ DOMAIN work = Clusters
      /\ \A c \in Clusters : WorkInv(c) /\ AppliedInv(c)
  BY DEF TargetsInv
<1>b. /\ Push!Slots' = Push!Slots /\ Push!Objects = {{s} : s \in Push!Slots}
      /\ \A s \in Push!Slots : Push!ObjectOf(s) = {s}
      /\ \A c \in Clusters : Push!SlotsOf(c) \subseteq Push!Slots /\ Push!SlotsOf(c)' = Push!SlotsOf(c)
      /\ \A c, d \in Clusters : \A s \in Push!SlotsOf(c) : s \in Push!SlotsOf(d) => c = d
  BY SlotsAreApart DEF Push!Slots, Push!SlotsOf
<1> HIDE DEF Targets
\* What there is to show of the objects.
<1>c. ASSUME DOMAIN object' = {{s} : s \in Push!Slots}, DOMAIN seen' = {{s} : s \in Push!Slots},
             running' \in [Push!Slots -> Versions],
             \A s \in Push!Slots :
                /\ object'[{s}] \in Push!Object({s}) /\ seen'[{s}] \in Push!Object({s})
                /\ object'[{s}].fresh /\ object'[{s}].ready => running'[s] = Wanted(s)'
                /\ kind = "direct" /\ seen'[{s}].want[s] = Wanted(s)' /\ seen'[{s}].fresh /\ seen'[{s}].ready
                     => running'[s] = Wanted(s)'
      PROVE  ObjectsInv'
  <2>1. \A s \in Push!Slots : Push!Object({s})' = Push!Object({s})
    BY DEF Push!Object
  <2> QED
    BY <1>0, <1>b, <1>c, <2>1 DEF ObjectsInv
\* A step of one cluster that writes no object.
<1>1. ASSUME NEW c \in Clusters, UNCHANGED <<object, seen, running>>,
             DOMAIN work' = Clusters, target' \in [Clusters -> Targets],
             \A d \in Clusters \ {c} : work'[d] = work[d] /\ target'[d] = target[d],
             \A d \in Clusters \ {c} : d \in overtaken => d \in overtaken',
             WorkInv(c)', AppliedInv(c)'
      PROVE  ObjectsInv' /\ TargetsInv'
  <2>1. ObjectsInv'
    BY <1>0, <1>1, <1>b DEF ObjectsInv, Wanted, Push!Object
  <2>2. ASSUME NEW d \in Clusters PROVE WorkInv(d)' /\ AppliedInv(d)'
    <3>1. CASE d = c
      BY <1>1, <3>1
    <3>2. CASE d # c
      <4>1. WorkInv(d) /\ AppliedInv(d)
        BY <1>a
      <4>2. work'[d] = work[d] /\ target'[d] = target[d]
        BY <1>1, <3>2
      <4>3. d \in overtaken => d \in overtaken'
        BY <1>1, <3>2
      <4>4. \A s \in Push!SlotsOf(d) : Wanted(s)' = Wanted(s) /\ seen'[{s}].want[s] = seen[{s}].want[s]
                                        /\ running'[s] = running[s]
        BY <1>1 DEF Wanted
      <4> QED
        BY <1>0, <4>1, <4>2, <4>3, <4>4, OthersAreLeftAlone
    <3> QED
      BY <3>1, <3>2
  <2> QED
    BY <1>1, <2>1, <2>2 DEF TargetsInv, Targets
\* A step that changes no target.
<1>2. ASSUME UNCHANGED <<target, work, overtaken>>, ObjectsInv',
             \A c \in Clusters : \A s \in Push!SlotsOf(c) :
                /\ Wanted(s)' = Wanted(s)
                /\ running'[s] \in {running[s], Wanted(s)}
                /\ seen'[{s}].want[s] \in {seen[{s}].want[s], Wanted(s)}
      PROVE  ObjectsInv' /\ TargetsInv'
  <2>1. ASSUME NEW c \in Clusters
        PROVE  WorkInv(c)' /\ AppliedInv(c)'
    <3>1. Patching(c) => Patching(c)'
      BY <1>0, <1>2, <1>b, <2>1 DEF Patching
    <3>2. WorkInv(c)'
      BY <1>2, <1>a, <1>b, <2>1, <3>1 DEF WorkInv
    <3>3. \A S : Applied(c, S) => Applied(c, S)'
      BY <1>2, <1>b, <2>1 DEF Applied
    <3>4. AppliedInv(c)'
      BY <1>2, <1>a, <1>b, <2>1, <3>3 DEF AppliedInv, Applied
    <3> QED
      BY <3>2, <3>4
  <2> QED
    BY <1>2, <1>a, <2>1 DEF TargetsInv, Targets
<1>3. ASSUME NEW c \in Clusters, Push!beginApplying(c)
      PROVE  ObjectsInv' /\ TargetsInv'
  <2> DEFINE new == IF target[c].issued THEN [Push!Idle EXCEPT !.pc = "poll"]
                    ELSE [Push!Idle EXCEPT !.pc = "read", !.todo = Push!SlotsOf(c)]
  <2>1. /\ work' = [work EXCEPT ![c] = new] /\ target[c].phase = "Applying"
        /\ UNCHANGED <<kind, object, seen, running, target, overtaken>>
    BY <1>3 DEF Push!beginApplying, Push!Substrate
  <2>2. /\ target[c].issued => new.pc = "poll" /\ new.todo = {}
        /\ ~target[c].issued => new.pc = "read" /\ new.todo = Push!SlotsOf(c)
    BY DEF Push!Idle
  <2> HIDE DEF new
  <2>3. work'[c] = new /\ DOMAIN work' = Clusters /\ \A d \in Clusters \ {c} : work'[d] = work[d]
    BY <1>a, <2>1
  <2>4. target[c].issued \in BOOLEAN
    BY <1>a DEF Targets
  <2>5. WorkInv(c)'
    BY <1>b, <2>1, <2>2, <2>3, <2>4 DEF WorkInv
  <2>6. AppliedInv(c)'
    BY <1>a, <1>b, <2>1, <2>2, <2>3, <2>4 DEF AppliedInv, Applied, Wanted
  <2> QED
    BY <1>1, <1>a, <2>1, <2>3, <2>5, <2>6
<1>4. ASSUME NEW c \in Clusters, Push!ApplyDelta(c)
      PROVE  ObjectsInv' /\ TargetsInv'
  <2>1. work[c].pc = "read" /\ UNCHANGED <<kind, object, seen, running, target>> /\ target[c].phase = "Applying"
    BY <1>4, <1>a DEF Push!ApplyDelta, Push!Substrate, WorkInv
  <2>2. CASE work[c].todo = {}
    <3> DEFINE new == [Push!Idle EXCEPT !.pc = "poll"]
    <3>1. work' = [work EXCEPT ![c] = new] /\ UNCHANGED overtaken
      BY <1>4, <2>2 DEF Push!ApplyDelta
    <3>2. new.pc = "poll" /\ new.todo = {}
      BY DEF Push!Idle
    <3> HIDE DEF new
    <3>3. work'[c] = new /\ DOMAIN work' = Clusters /\ \A d \in Clusters \ {c} : work'[d] = work[d]
      BY <1>a, <3>1
    <3>4. WorkInv(c)'
      BY <2>1, <3>2, <3>3 DEF WorkInv
    <3>5. AppliedInv(c)'
      BY <1>a, <1>b, <2>1, <2>2, <3>1, <3>2, <3>3 DEF AppliedInv, Applied, Wanted
    <3> QED
      BY <1>1, <1>a, <2>1, <3>1, <3>3, <3>4, <3>5
  <2>3. CASE work[c].todo # {}
    <3>1. PICK s \in work[c].todo :
            /\ work' = [work EXCEPT ![c] =
                  IF Push!NothingToWrite(c, Push!ObjectOf(s))
                  THEN [Push!Idle EXCEPT !.pc = "read", !.todo = work[c].todo \ Push!ObjectOf(s)]
                  ELSE [pc |-> "patch", todo |-> work[c].todo \ Push!ObjectOf(s), at |-> Push!ObjectOf(s),
                        new |-> Push!Written(c, Push!CopyOf(Push!ObjectOf(s)).want)]]
            /\ overtaken' = IF Push!CopyOf(Push!ObjectOf(s)).want = object[Push!ObjectOf(s)].want
                            THEN overtaken ELSE overtaken \union {c}
      BY <1>4, <2>3 DEF Push!ApplyDelta
    <3>2. s \in Push!SlotsOf(c) /\ s \in Push!Slots /\ Push!ObjectOf(s) = {s}
          /\ work[c].todo \subseteq Push!SlotsOf(c)
      BY <1>a, <1>b, <3>1 DEF WorkInv
    <3> DEFINE copy == Push!CopyOf({s}).want
               w == copy[s]
               left == work[c].todo \ {s}
    <3>3. /\ copy = [x \in {s} |-> w]
          /\ kind = "direct" => w = seen[{s}].want[s]
          /\ kind # "direct" => w = Wanted(s)
      BY <3>2, WantedIsVersion DEF Push!CopyOf, Wanted
    <3>4. object[{s}].want = [x \in {s} |-> Wanted(s)]
      BY <3>2, WantedIsVersion
    <3>5. Push!Written(c, copy) = [x \in {s} |-> target[c].version]
      <4>1. Push!Written(c, [x \in {s} |-> w]) = [x \in {s} |-> target[c].version]
        BY <3>2, WrittenIs
      <4> HIDE DEF copy, w
      <4> QED
        BY <3>3, <4>1
    <3> HIDE DEF copy, w
    <3>6. /\ overtaken \subseteq overtaken'
          /\ c \notin overtaken' => w = Wanted(s) /\ c \notin overtaken
      BY <3>1, <3>2, <3>3, <3>4 DEF copy
    <3>7. CASE Push!NothingToWrite(c, {s})
      <4> DEFINE new == [Push!Idle EXCEPT !.pc = "read", !.todo = left]
      <4>1. work' = [work EXCEPT ![c] = new]
        BY <3>1, <3>2, <3>7
      <4>2. new.pc = "read" /\ new.todo = left
        BY DEF Push!Idle
      <4>3. w = target[c].version
        <5>1. Push!Written(c, copy) = copy
          BY <3>7 DEF Push!NothingToWrite, copy
        <5>2. [x \in {s} |-> target[c].version][s] = copy[s]
          BY <3>5, <5>1
        <5> QED
          BY <5>2 DEF w
      <4> HIDE DEF new
      <4>4. work'[c] = new /\ DOMAIN work' = Clusters /\ \A d \in Clusters \ {c} : work'[d] = work[d]
        BY <1>a, <4>1
      <4>5. WorkInv(c)'
        BY <1>b, <2>1, <3>2, <4>2, <4>4 DEF WorkInv
      <4>6. AppliedInv(c)'
        BY <1>a, <1>b, <2>1, <3>2, <3>6, <4>2, <4>3, <4>4 DEF AppliedInv, Applied, Wanted
      <4> QED
        BY <1>1, <1>a, <2>1, <3>6, <4>4, <4>5, <4>6
    <3>8. CASE ~Push!NothingToWrite(c, {s})
      <4> DEFINE new == [pc |-> "patch", todo |-> left, at |-> {s}, new |-> Push!Written(c, copy)]
      <4>1. work' = [work EXCEPT ![c] = new]
        BY <3>1, <3>2, <3>8 DEF copy
      <4>2. /\ new.pc = "patch" /\ new.todo = left /\ new.at = {s}
            /\ new.new = [x \in {s} |-> target[c].version]
        BY <3>5
      <4>3. kind = "direct" => seen[{s}].want[s] # target[c].version
        BY <3>3, <3>5, <3>8 DEF Push!NothingToWrite, copy
      <4> HIDE DEF new
      <4>4. work'[c] = new /\ DOMAIN work' = Clusters /\ \A d \in Clusters \ {c} : work'[d] = work[d]
        BY <1>a, <4>1
      <4>5. Patching(c)'
        BY <1>b, <2>1, <3>2, <4>2, <4>3, <4>4 DEF Patching
      <4>6. WorkInv(c)'
        BY <1>b, <2>1, <3>2, <4>2, <4>4, <4>5 DEF WorkInv
      <4>7. AppliedInv(c)'
        BY <1>a, <1>b, <2>1, <3>2, <3>6, <4>2, <4>4 DEF AppliedInv, Applied, Wanted
      <4> QED
        BY <1>1, <1>a, <2>1, <3>6, <4>4, <4>6, <4>7
    <3> QED
      BY <3>7, <3>8
  <2> QED
    BY <2>2, <2>3
<1>5. ASSUME NEW c \in Clusters, Push!setTargetRevision(c)
      PROVE  ObjectsInv' /\ TargetsInv'
  <2>1. /\ work[c].pc = "patch" /\ object' = Push!Wanting(work[c].at, work[c].new)
        /\ work' = [work EXCEPT ![c] = [Push!Idle EXCEPT !.pc = "read", !.todo = work[c].todo]]
        /\ overtaken \subseteq overtaken' /\ UNCHANGED <<kind, seen, running, target>>
    BY <1>5 DEF Push!setTargetRevision, Push!Substrate
  <2>2. PICK s \in Push!SlotsOf(c) :
          /\ work[c].at = {s} /\ work[c].new = [x \in {s} |-> target[c].version]
          /\ kind = "direct" /\ Wanted(s) # target[c].version => seen[{s}].want[s] # target[c].version
    BY <1>a, <2>1 DEF WorkInv, Patching
  <2>3. s \in Push!Slots /\ target[c].version \in Versions /\ target[c].phase = "Applying"
        /\ work[c].todo \subseteq Push!SlotsOf(c)
    BY <1>a, <1>b, <2>1 DEF Targets, WorkInv
  <2> DEFINE want == [x \in {s} |-> target[c].version]
             fresh == object[{s}].fresh /\ object[{s}].want = want
             new == [object[{s}] EXCEPT !.want = want, !.fresh = fresh]
  <2>4. object' = [object EXCEPT ![{s}] = new]
    BY <2>1, <2>2 DEF Push!Wanting
  <2>5. want \in [{s} -> Versions] /\ want[s] = target[c].version
    BY <2>3
  <2>6. object[{s}] \in Push!Object({s}) /\ fresh \in BOOLEAN
        /\ (fresh => object[{s}].fresh /\ Wanted(s) = target[c].version)
    BY <2>3, <2>5 DEF ObjectsInv, Wanted
  <2> HIDE DEF want, fresh
  <2>7. new \in Push!Object({s}) /\ new.want[s] = target[c].version /\ new.fresh = fresh
        /\ new.ready = object[{s}].ready
    BY <2>5, <2>6 DEF Push!Object
  <2> HIDE DEF new
  <2>8. /\ DOMAIN object' = {{t} : t \in Push!Slots} /\ object'[{s}] = new
        /\ \A t \in Push!Slots \ {s} : object'[{t}] = object[{t}] /\ Wanted(t)' = Wanted(t)
        /\ Wanted(s)' = target[c].version
    BY <2>3, <2>4, <2>7 DEF ObjectsInv, Wanted
  <2>9. ObjectsInv'
    <3>1. /\ DOMAIN seen' = {{t} : t \in Push!Slots} /\ running' \in [Push!Slots -> Versions]
          /\ DOMAIN object' = {{t} : t \in Push!Slots}
      BY <2>1, <2>8 DEF ObjectsInv
    <3>2. ASSUME NEW t \in Push!Slots
          PROVE  /\ object'[{t}] \in Push!Object({t}) /\ seen'[{t}] \in Push!Object({t})
                 /\ object'[{t}].fresh /\ object'[{t}].ready => running'[t] = Wanted(t)'
                 /\ kind = "direct" /\ seen'[{t}].want[t] = Wanted(t)' /\ seen'[{t}].fresh /\ seen'[{t}].ready
                      => running'[t] = Wanted(t)'
      <4>1. CASE t = s
        BY <2>1, <2>2, <2>3, <2>6, <2>7, <2>8, <4>1 DEF ObjectsInv
      <4>2. CASE t # s
        BY <2>1, <2>8, <4>2 DEF ObjectsInv
      <4> QED
        BY <4>1, <4>2
    <3> QED
      BY <1>c, <3>1, <3>2
  <2> DEFINE rest == [Push!Idle EXCEPT !.pc = "read", !.todo = work[c].todo]
  <2>10. rest.pc = "read" /\ rest.todo = work[c].todo
    BY DEF Push!Idle
  <2>11. work' = [work EXCEPT ![c] = rest]
    BY <2>1
  <2> HIDE DEF rest
  <2>12. work'[c] = rest /\ DOMAIN work' = Clusters /\ \A d \in Clusters \ {c} : work'[d] = work[d]
    BY <1>a, <2>11
  <2>13. WorkInv(c)'
    BY <1>b, <2>1, <2>3, <2>10, <2>12 DEF WorkInv
  <2>14. AppliedInv(c)'
    <3>1. c \notin overtaken' => \A t \in Push!SlotsOf(c) \ (work[c].todo \cup {s}) : Wanted(t) = target[c].version
      BY <1>a, <2>1, <2>2 DEF AppliedInv, Applied
    <3>2. c \notin overtaken' => \A t \in Push!SlotsOf(c) \ work[c].todo : Wanted(t)' = target[c].version
      BY <1>b, <2>8, <3>1
    <3>3. /\ work'[c].pc = "read" /\ work'[c].todo = work[c].todo /\ target' = target
          /\ target[c].phase = "Applying"
      BY <2>1, <2>3, <2>10, <2>12
    <3>4. c \notin overtaken' /\ target[c].issued =>
             \A t \in Push!SlotsOf(c) : Wanted(t)' = target[c].version
      <4>1. c \notin overtaken' /\ target[c].issued =>
               \A t \in Push!SlotsOf(c) : Wanted(t) = target[c].version
        BY <1>a, <2>1, <2>3 DEF AppliedInv, Applied
      <4> QED
        BY <1>b, <2>8, <4>1
    <3> QED
      BY <1>b, <3>2, <3>3, <3>4 DEF AppliedInv, Applied
  <2>15. ASSUME NEW d \in Clusters, d # c
         PROVE  WorkInv(d)' /\ AppliedInv(d)'
    <3>1. WorkInv(d) /\ AppliedInv(d) /\ work'[d] = work[d] /\ target'[d] = target[d]
      BY <1>a, <2>1, <2>12, <2>15
    <3>2. d \in overtaken => d \in overtaken'
      BY <2>1
    <3>3. \A t \in Push!SlotsOf(d) : Wanted(t)' = Wanted(t) /\ seen'[{t}].want[t] = seen[{t}].want[t]
                                      /\ running'[t] = running[t]
      BY <1>b, <2>1, <2>8, <2>15
    <3> QED
      BY <1>0, <3>1, <3>2, <3>3, OthersAreLeftAlone
  <2>16. target' \in [Clusters -> Targets]
    BY <1>a, <2>1
  <2> QED
    BY <2>9, <2>12, <2>13, <2>14, <2>15, <2>16 DEF TargetsInv, Targets
<1>6. ASSUME NEW c \in Clusters, Push!pollConvergence(c)
      PROVE  ObjectsInv' /\ TargetsInv'
  <2> DEFINE after == IF Push!IsAllConverged(c) THEN "Converged" ELSE target[c].phase
             new == [target[c] EXCEPT !.issued = TRUE, !.phase = after]
  <2>1. /\ work[c].pc = "poll" /\ work' = [work EXCEPT ![c] = Push!Idle]
        /\ target' = [target EXCEPT ![c] = new]
        /\ UNCHANGED <<kind, object, seen, running, overtaken>>
    BY <1>6 DEF Push!pollConvergence, Push!Substrate
  <2>2. target[c] \in Targets /\ target[c].phase = "Applying"
    BY <1>a, <2>1 DEF WorkInv
  <2>3. after \in {"Applying", "Converged"} /\ (after = "Converged" => Push!IsAllConverged(c))
    BY <2>2
  <2> HIDE DEF after
  <2>4. new \in Targets /\ new.version = target[c].version /\ new.issued = TRUE /\ new.phase = after
    BY <2>2, <2>3 DEF Targets
  <2> HIDE DEF new
  <2>5. /\ work'[c] = Push!Idle /\ DOMAIN work' = Clusters /\ target'[c] = new
        /\ target' \in [Clusters -> Targets]
        /\ \A d \in Clusters \ {c} : work'[d] = work[d] /\ target'[d] = target[d]
    BY <1>a, <2>1, <2>4
  <2>6. Push!Idle.pc = "idle" /\ Push!Idle.todo = {}
    BY DEF Push!Idle
  <2>7. WorkInv(c)'
    BY <2>5, <2>6 DEF WorkInv
  <2>8. c \notin overtaken => \A s \in Push!SlotsOf(c) : Wanted(s) = target[c].version
    BY <1>a, <2>1 DEF AppliedInv, Applied
  <2>9. c \notin overtaken /\ after = "Converged" => \A s \in Push!SlotsOf(c) : running[s] = target[c].version
    <3>1. SUFFICES ASSUME c \notin overtaken, Push!IsAllConverged(c), NEW s \in Push!SlotsOf(c)
                   PROVE  running[s] = target[c].version
      BY <2>3
    <3>2. s \in Push!Slots /\ Push!ObjectOf(s) = {s}
      BY <1>b
    <3>3. CASE kind = "direct"
      <4>1. Push!DirectConverged(c)
        BY <3>1, <3>3 DEF Push!IsAllConverged
      <4>2. seen[{s}].want[s] = target[c].version /\ seen[{s}].fresh /\ seen[{s}].ready
        BY <3>1, <3>2, <3>3, <4>1 DEF Push!DirectConverged, Push!Wants, Push!CopyOf
      <4> QED
        BY <2>8, <3>1, <3>2, <3>3, <4>2 DEF ObjectsInv
    <3>4. CASE kind = "plugin"
      BY <3>1, <3>4 DEF Push!IsAllConverged, Push!PluginConverged
    <3> QED
      BY <3>3, <3>4
  <2>10. AppliedInv(c)'
    BY <1>b, <2>1, <2>3, <2>4, <2>5, <2>6, <2>8, <2>9 DEF AppliedInv, Applied, Wanted
  <2>11. \A d \in Clusters \ {c} : d \in overtaken => d \in overtaken'
    BY <2>1
  <2> QED
    BY <1>1, <2>1, <2>5, <2>7, <2>10, <2>11
<1>7. ASSUME NEW c \in Clusters, Push!failReconcile(c)
      PROVE  ObjectsInv' /\ TargetsInv'
  <2>1. work' = [work EXCEPT ![c] = Push!Idle] /\ UNCHANGED <<kind, object, seen, running, target, overtaken>>
    BY <1>7 DEF Push!failReconcile, Push!Substrate
  <2>2. work'[c] = Push!Idle /\ DOMAIN work' = Clusters /\ \A d \in Clusters \ {c} : work'[d] = work[d]
    BY <1>a, <2>1
  <2>3. Push!Idle.pc = "idle" /\ Push!Idle.todo = {}
    BY DEF Push!Idle
  <2>4. WorkInv(c)'
    BY <2>2, <2>3 DEF WorkInv
  <2>5. AppliedInv(c)'
    BY <1>a, <1>b, <2>1, <2>2, <2>3 DEF AppliedInv, Applied, Wanted
  <2> QED
    BY <1>1, <1>a, <2>1, <2>2, <2>4, <2>5
<1>8. ASSUME NEW c \in Clusters, Push!failTarget(c)
      PROVE  ObjectsInv' /\ TargetsInv'
  <2> DEFINE new == [target[c] EXCEPT !.phase = "Failed"]
  <2>1. /\ work[c] = Push!Idle /\ target' = [target EXCEPT ![c] = new]
        /\ UNCHANGED <<kind, object, seen, running, work, overtaken>>
    BY <1>8 DEF Push!failTarget, Push!Substrate
  <2>2. new \in Targets /\ new.version = target[c].version /\ new.phase = "Failed"
    BY <1>a DEF Targets
  <2> HIDE DEF new
  <2>3. /\ target'[c] = new /\ target' \in [Clusters -> Targets]
        /\ \A d \in Clusters \ {c} : target'[d] = target[d]
    BY <1>a, <2>1, <2>2
  <2>4. work'[c].pc = "idle" /\ work'[c].todo = {}
    BY <2>1 DEF Push!Idle
  <2>5. WorkInv(c)' /\ AppliedInv(c)'
    BY <2>2, <2>3, <2>4 DEF WorkInv, AppliedInv
  <2> QED
    BY <1>1, <1>a, <2>1, <2>3, <2>5
<1>9. ASSUME NEW c \in Clusters, Push!promote(c)
      PROVE  ObjectsInv' /\ TargetsInv'
  <2>1. PICK v \in Versions \ {target[c].version} :
          target' = [target EXCEPT ![c] =
                       [version |-> v, issued |-> FALSE, n |-> target[c].n + 1, phase |-> "Applying"]]
    BY <1>9 DEF Push!promote
  <2> DEFINE new == [version |-> v, issued |-> FALSE, n |-> target[c].n + 1, phase |-> "Applying"]
  <2>2. /\ target[c].phase # "Applying" /\ overtaken' = overtaken \ {c}
        /\ UNCHANGED <<kind, object, seen, running, work>>
    BY <1>9 DEF Push!promote, Push!Substrate
  <2>3. target[c].n + 1 \in Nat
    BY <1>a DEF Targets
  <2>4. new \in Targets /\ new.issued = FALSE /\ new.phase = "Applying"
    BY <2>3 DEF Targets
  <2>5. target' = [target EXCEPT ![c] = new]
    BY <2>1
  <2> HIDE DEF new
  <2>6. /\ target'[c] = new /\ target' \in [Clusters -> Targets]
        /\ \A d \in Clusters \ {c} : target'[d] = target[d]
    BY <1>a, <2>4, <2>5
  <2>7. work'[c].pc = "idle" /\ work'[c].todo \subseteq Push!SlotsOf(c)
    BY <1>a, <2>2 DEF WorkInv
  <2>8. WorkInv(c)' /\ AppliedInv(c)'
    BY <1>b, <2>4, <2>6, <2>7 DEF WorkInv, AppliedInv
  <2>9. \A d \in Clusters \ {c} : d \in overtaken => d \in overtaken'
    BY <2>2
  <2> QED
    BY <1>1, <1>a, <2>2, <2>6, <2>8, <2>9
<1>10. ASSUME NEW o \in Push!Objects, Push!observe(o)
       PROVE  ObjectsInv' /\ TargetsInv'
  <2>1. PICK s \in Push!Slots : o = {s}
    BY <1>b
  <2> DEFINE ready == \A t \in {s} : running[t] = object[{s}].want[t]
             new == [object[{s}] EXCEPT !.fresh = TRUE, !.ready = ready]
  <2>2. object' = [object EXCEPT ![{s}] = new] /\ UNCHANGED <<kind, seen, running, target, work, overtaken>>
    BY <1>10, <2>1 DEF Push!observe
  <2>3. ready \in BOOLEAN /\ (ready => running[s] = Wanted(s)) /\ object[{s}] \in Push!Object({s})
    BY DEF Wanted, ObjectsInv
  <2> HIDE DEF ready
  <2>4. new \in Push!Object({s}) /\ new.want = object[{s}].want /\ (new.ready => running[s] = Wanted(s))
    BY <2>3 DEF Push!Object
  <2> HIDE DEF new
  <2>5. /\ DOMAIN object' = {{t} : t \in Push!Slots} /\ object'[{s}] = new
        /\ \A t \in Push!Slots \ {s} : object'[{t}] = object[{t}]
        /\ \A t \in Push!Slots : Wanted(t)' = Wanted(t)
    BY <2>2, <2>4 DEF ObjectsInv, Wanted
  <2>6. \A t \in Push!Slots :
          /\ object'[{t}] \in Push!Object({t})
          /\ object'[{t}].fresh /\ object'[{t}].ready => running[t] = Wanted(t)
    BY <2>4, <2>5 DEF ObjectsInv
  <2>7. ObjectsInv'
    BY <1>c, <2>2, <2>5, <2>6 DEF ObjectsInv
  <2> QED
    BY <1>2, <1>b, <2>2, <2>5, <2>7
<1>11. ASSUME NEW s \in Push!Slots, Push!rollOut(s)
       PROVE  ObjectsInv' /\ TargetsInv'
  <2> DEFINE from == [object[{s}] EXCEPT !.want = object[{s}].want[s]]
  <2>1. /\ kind # "flux" /\ Push!ObjectOf(s) = {s} /\ object[{s}] \in Push!Object({s})
        /\ Wanted(s) \in Versions
    BY <1>b, WantedIsVersion DEF ObjectsInv
  <2>2. from.want = Wanted(s)
    BY <2>1 DEF Wanted, Push!Object
  <2>3. running' = [running EXCEPT ![s] = from.want] /\ UNCHANGED <<kind, object, seen, target, work, overtaken>>
    BY <1>11, <2>1 DEF Push!rollOut
  <2> HIDE DEF from
  <2>4. /\ running' \in [Push!Slots -> Versions] /\ running'[s] = Wanted(s)
        /\ \A t \in Push!Slots \ {s} : running'[t] = running[t]
        /\ \A t \in Push!Slots : Wanted(t)' = Wanted(t)
    BY <2>1, <2>2, <2>3 DEF ObjectsInv, Wanted
  <2>5. ObjectsInv'
    BY <1>c, <2>3, <2>4 DEF ObjectsInv
  <2> QED
    BY <1>2, <1>b, <2>3, <2>4, <2>5
<1>12. ASSUME NEW o \in Push!Objects, Push!syncObject(o)
       PROVE  ObjectsInv' /\ TargetsInv'
  <2>1. PICK s \in Push!Slots : o = {s}
    BY <1>b
  <2>2. /\ kind = "direct" /\ seen' = [seen EXCEPT ![{s}] = object[{s}]]
        /\ UNCHANGED <<kind, object, running, target, work, overtaken>>
    BY <1>12, <2>1 DEF Push!syncObject, Push!Substrate
  <2>3. /\ DOMAIN seen' = {{t} : t \in Push!Slots} /\ seen'[{s}] = object[{s}]
        /\ \A t \in Push!Slots \ {s} : seen'[{t}] = seen[{t}]
        /\ \A t \in Push!Slots : Wanted(t)' = Wanted(t)
        /\ seen'[{s}].want[s] = Wanted(s)
    BY <2>2 DEF ObjectsInv, Wanted
  <2>4. ObjectsInv'
    BY <1>c, <2>2, <2>3 DEF ObjectsInv
  <2>5. \A t \in Push!Slots : seen'[{t}].want[t] \in {seen[{t}].want[t], Wanted(t)}
    BY <2>3
  <2> QED
    BY <1>2, <1>b, <2>2, <2>3, <2>4, <2>5
<1>13. ASSUME UNCHANGED <<object, seen, running, target, work, overtaken>>
       PROVE  ObjectsInv' /\ TargetsInv'
  <2>1. ObjectsInv' /\ \A t \in Push!Slots : Wanted(t)' = Wanted(t)
    BY <1>0, <1>13, <1>b DEF ObjectsInv, Wanted, Push!Object
  <2> QED
    BY <1>2, <1>13, <1>b, <2>1
<1>14. ~\E s \in Push!Slots : Push!observeRelease(s)
  BY DEF Push!observeRelease
<1>15. CASE UNCHANGED Push!vars
  BY <1>13, <1>15 DEF Push!vars
<1> QED
  BY <1>3, <1>4, <1>5, <1>6, <1>7, <1>8, <1>9, <1>10, <1>11, <1>12, <1>14, <1>15
     DEF Push!Next, Push!Apply, Push!Follow

\* With Deployments and with a plugin a target that has converged runs its
\* version in all its units, unless a copy hid an earlier write: a stale status
\* and a stale copy are both told by the generation, whatever calls fail,
\* targets end and informers lag (direct's ApplyDelta and IsConverged).
THEOREM ConvergedIsWhatRuns == Push!Spec => []Push!DirectIsRunning
<1>1. PushInv => Push!DirectIsRunning
  BY DEF PushInv, TargetsInv, AppliedInv, Push!DirectIsRunning, Push!ConvergedIsRunning
<1> QED
  BY <1>1, PushInit, PushStep, PTL DEF Push!Spec

-----------------------------------------------------------------------------
(* Metrics.                                                                *)

\* Metrics are configured as the API admits, values are integers, and the
\* window of a range query has room for a sample.
MetricAssumption == Metrics \subseteq Met!MetricGate /\ Values \subseteq Int /\ MaxWindow \in Nat \ {0}

\* The samples are values, and a result is what the answers and the samples
\* make it.
MetricInv ==
    /\ metric \in Metrics
    /\ samples \in Seq(Values)
    /\ result.phase # "none" => result.answers \in Met!Answers /\ result.phase = Met!Evaluate(result.answers)

\* Initially there is no result.
LEMMA MetricInit == MetricAssumption /\ Met!Init => MetricInv
  BY DEF Met!Init, MetricInv, Met!NoResult

\* Scrapes replace the samples, and evaluations the result.
LEMMA MetricStep ==
    ASSUME MetricAssumption, MetricInv, [Met!Next]_(Met!vars)
    PROVE  MetricInv'
<1>1. ASSUME UNCHANGED <<metric, samples>>, NEW a
      PROVE  Met!Answers' = Met!Answers /\ Met!Evaluate(a)' = Met!Evaluate(a)
  BY <1>1 DEF Met!Answers, Met!Evaluate, Met!evaluateBaseline, Met!evaluateScore, Met!evaluateInstant,
              Met!evaluateSequential, Met!evaluateChangePoint, Met!baselineHealthy, Met!compare,
              Met!comparator, Met!threshold, Met!ScoreSuffices, Met!LowerIsBetter, Met!Decided,
              Met!minSamples, Met!OneSampleConfident, Met!ChangeConfident, Met!changeIsRegression, Met!Shift
<1>2. CASE Met!scrape
  <2>1. PICK v \in Values : samples' = IF Len(samples) < MaxWindow THEN Append(samples, v)
                                       ELSE Append(Tail(samples), v)
    BY <1>2 DEF Met!scrape
  <2>2. samples \in Seq(Values) /\ Len(samples) \in Nat /\ MaxWindow \in Nat \ {0}
    BY DEF MetricInv, MetricAssumption
  <2>3. samples' \in Seq(Values)
    <3>1. CASE Len(samples) < MaxWindow
      BY <2>1, <2>2, <3>1
    <3>2. CASE ~(Len(samples) < MaxWindow)
      <4>1. samples # <<>>
        BY <2>2, <3>2
      <4>2. Tail(samples) \in Seq(Values)
        BY <2>2, <4>1
      <4> QED
        BY <2>1, <3>2, <4>2
    <3> QED
      BY <3>1, <3>2
  <2> QED
    BY <1>2, <2>3 DEF MetricInv, Met!scrape, Met!NoResult
<1>3. CASE Met!evaluate
  <2>1. PICK a \in Met!Answers : result' = [phase |-> Met!Evaluate(a), answers |-> a]
    BY <1>3 DEF Met!evaluate
  <2>2. UNCHANGED <<metric, samples>>
    BY <1>3 DEF Met!evaluate
  <2> QED
    BY <1>1, <2>1, <2>2 DEF MetricInv
<1>4. CASE UNCHANGED Met!vars
  <2>1. UNCHANGED <<metric, samples>> /\ result' = result
    BY <1>4 DEF Met!vars
  <2>2. PICK a : a = result.answers
    OBVIOUS
  <2>3. Met!Answers' = Met!Answers /\ Met!Evaluate(a)' = Met!Evaluate(a)
    BY <1>1, <2>1
  <2> QED
    BY <2>1, <2>2, <2>3 DEF MetricInv
<1> QED
  BY <1>2, <1>3, <1>4 DEF Met!Next

\* The configuration of a metric.
LEMMA MetricTypes ==
    ASSUME MetricAssumption, metric \in Metrics
    PROVE  /\ Met!comparator \in {"gt", "gte", "lt", "lte"} /\ Met!threshold \in Int
           /\ metric.mode \in Met!Modes /\ metric.scoreThreshold \in 0..100
           /\ Met!minSamples \in Nat \ {0}
<1>1. metric \in Met!MetricGate
  BY DEF MetricAssumption
<1>2. Met!comparator \in {"gt", "gte", "lt", "lte"}
  BY <1>1 DEF Met!comparator, Met!MetricGate, Met!Comparators
<1>3. metric.threshold \in Seq(Int) /\ metric.minSamples \in Nat
  BY <1>1 DEF Met!MetricGate
<1>4. metric.threshold # <<>> => metric.threshold[1] \in Int
  BY <1>3
<1>5. Met!threshold \in Int
  BY <1>4 DEF Met!threshold
<1>6. Met!minSamples \in Nat \ {0}
  BY <1>3 DEF Met!minSamples
<1> QED
  BY <1>1, <1>2, <1>5, <1>6 DEF Met!MetricGate

\* A better value compares no worse.
LEMMA BetterCompares ==
    ASSUME Met!comparator \in {"gt", "gte", "lt", "lte"}, NEW v \in Int, NEW w \in Int, NEW bound \in Int,
           Met!Better(v, w), Met!compare(w, bound)
    PROVE  Met!compare(v, bound)
<1>1. CASE Met!comparator = "gt"
  BY <1>1 DEF Met!Better, Met!LowerIsBetter, Met!compare
<1>2. CASE Met!comparator = "gte"
  BY <1>2 DEF Met!Better, Met!LowerIsBetter, Met!compare
<1>3. CASE Met!comparator = "lt"
  BY <1>3 DEF Met!Better, Met!LowerIsBetter, Met!compare
<1>4. CASE Met!comparator = "lte"
  BY <1>4 DEF Met!Better, Met!LowerIsBetter, Met!compare
<1> QED
  BY <1>1, <1>2, <1>3, <1>4

\* A better value scores no less.
LEMMA BetterScores ==
    ASSUME MetricAssumption, metric \in Metrics, Met!threshold >= 0,
           NEW v \in Int, NEW w \in Int, v > 0, Met!Better(v, w), Met!ScoreSuffices(w)
    PROVE  Met!ScoreSuffices(v)
<1> DEFINE t == Met!threshold
           required == metric.scoreThreshold
<1>1. /\ t \in Int /\ t >= 0 /\ required \in 0..100 /\ 0 \in Int
      /\ Met!comparator \in {"gt", "gte", "lt", "lte"}
  BY MetricTypes
<1>2. CASE t = 0
  <2>1. Met!compare(w, 0) => Met!compare(v, 0)
    BY <1>1, BetterCompares
  <2> QED
    BY <1>2, <2>1 DEF Met!ScoreSuffices
<1>3. CASE required = 0
  BY <1>3 DEF Met!ScoreSuffices
<1>4. CASE t # 0 /\ required # 0 /\ Met!LowerIsBetter
  <2>1. v < w
    BY <1>4 DEF Met!Better
  <2>2. 100 * t >= required * w
    BY <1>1, <1>4, <2>1 DEF Met!ScoreSuffices
  <2>3. required * (w - v) >= 0
    BY <1>1, <2>1
  <2>4. required * (w - v) = required * w - required * v
    BY <1>1
  <2>5. 100 * t >= required * v
    BY <1>1, <2>2, <2>3, <2>4
  <2> QED
    BY <1>4, <2>5 DEF Met!ScoreSuffices
<1>5. CASE t # 0 /\ required # 0 /\ ~Met!LowerIsBetter
  <2>1. v > w
    BY <1>5 DEF Met!Better
  <2>2. 100 * w >= required * t
    BY <1>1, <1>5 DEF Met!ScoreSuffices
  <2>3. required * t \in Int
    BY <1>1
  <2>4. 100 * v >= required * t
    BY <2>1, <2>2, <2>3
  <2> QED
    BY <1>1, <1>5, <2>4 DEF Met!ScoreSuffices
<1> QED
  BY <1>2, <1>3, <1>4, <1>5

\* Answers are of a kind, and have a value if it is "value".
LEMMA AnswerTypes ==
    ASSUME MetricAssumption, NEW a \in Met!Answers
    PROVE  /\ a = [health |-> a.health, current |-> a.current, baseline |-> a.baseline]
           /\ a.current.kind = "value" => a.current.value \in Int
           /\ a.baseline.kind = "value" => a.baseline.value \in Int
<1>1. a.current \in Met!Answer /\ a.baseline \in Met!Answer \cup {Met!NoAnswer}
      /\ a = [health |-> a.health, current |-> a.current, baseline |-> a.baseline]
  BY DEF Met!Answers
<1>2. \A x \in Met!Answer \cup {Met!NoAnswer} : x.kind = "value" => x.value \in Values
  BY DEF Met!Answer, Met!NoAnswer
<1> QED
  BY <1>1, <1>2 DEF MetricAssumption

\* A better value passes what passed.
LEMMA BetterPasses ==
    ASSUME MetricAssumption, metric \in Metrics, metric.mode \in Met!InstantModes,
           NEW a \in Met!Answers, Met!Evaluate(a) = "Passed",
           NEW v \in Values, Met!Better(v, a.current.value),
           metric.mode = "score" => v > 0 /\ Met!threshold >= 0
    PROVE  Met!Evaluate([a EXCEPT !.current = [kind |-> "value", value |-> v]]) = "Passed"
<1> DEFINE b == [a EXCEPT !.current = [kind |-> "value", value |-> v]]
           w == a.current.value
<1>1. /\ b.health = a.health /\ b.baseline = a.baseline
      /\ b.current.kind = "value" /\ b.current.value = v
  BY AnswerTypes
<1>2. v \in Int /\ Met!threshold \in Int /\ Met!comparator \in {"gt", "gte", "lt", "lte"}
  BY MetricTypes DEF MetricAssumption
<1> HIDE DEF b
<1>3. CASE metric.mode = "baseline"
  <2>1. Met!evaluateBaseline(a) = "Passed"
    BY <1>3 DEF Met!Evaluate
  <2>2. /\ metric.baselineQuery /\ Met!baselineHealthy(a) /\ a.current.kind = "value"
        /\ a.baseline.kind = "value" /\ a.baseline.value > 0
        /\ Met!compare(w, Met!threshold * a.baseline.value)
    BY <2>1 DEF Met!evaluateBaseline, Met!Passes
  <2>3. w \in Int /\ a.baseline.value \in Int /\ Met!threshold * a.baseline.value \in Int
    BY <1>2, <2>2, AnswerTypes
  <2>4. Met!compare(v, Met!threshold * a.baseline.value)
    BY <1>2, <2>2, <2>3, BetterCompares
  <2>5. Met!evaluateBaseline(b) = "Passed"
    BY <1>1, <2>2, <2>4 DEF Met!evaluateBaseline, Met!Passes, Met!baselineHealthy
  <2> QED
    BY <1>3, <2>5 DEF Met!Evaluate, b
<1>4. CASE metric.mode = "score"
  <2>1. Met!evaluateScore(a) = "Passed"
    BY <1>4 DEF Met!Evaluate
  <2>2. Met!baselineHealthy(a) /\ a.current.kind = "value" /\ Met!ScoreSuffices(w)
    BY <2>1 DEF Met!evaluateScore, Met!Passes
  <2>3. w \in Int
    BY <2>2, AnswerTypes
  <2>4. Met!ScoreSuffices(v)
    BY <1>2, <1>4, <2>2, <2>3, BetterScores
  <2>5. Met!evaluateScore(b) = "Passed"
    BY <1>1, <2>2, <2>4 DEF Met!evaluateScore, Met!Passes, Met!baselineHealthy
  <2> QED
    BY <1>4, <2>5 DEF Met!Evaluate, b
<1>5. CASE metric.mode \in {"threshold", "sloBurnRate"}
  <2>1. Met!evaluateInstant(a) = "Passed"
    BY <1>5 DEF Met!Evaluate
  <2>2. a.current.kind = "value" /\ Met!compare(w, Met!threshold)
    BY <2>1 DEF Met!evaluateInstant, Met!Passes
  <2>3. w \in Int
    BY <2>2, AnswerTypes
  <2>4. Met!compare(v, Met!threshold)
    BY <1>2, <2>2, <2>3, BetterCompares
  <2>5. Met!evaluateInstant(b) = "Passed"
    BY <1>1, <2>4 DEF Met!evaluateInstant, Met!Passes
  <2> QED
    BY <1>5, <2>5 DEF Met!Evaluate, b
<1> QED
  BY <1>3, <1>4, <1>5 DEF Met!InstantModes

\* A better current value never turns a passing metric into one that blocks,
\* for all metrics, values and answers (evaluateInstant, evaluateBaseline,
\* evaluateScore).
THEOREM BetterValuesPass ==
    ASSUME MetricAssumption
    PROVE  Met!Spec => []Met!BetterNeverBlocks
<1>1. MetricInv => Met!BetterNeverBlocks
  BY BetterPasses DEF MetricInv, Met!BetterNeverBlocks
<1> QED
  BY <1>1, MetricInit, MetricStep, PTL DEF Met!Spec

\* MetricsGate sums up as above.
LEMMA SumsAreOne == ASSUME NEW s PROVE Met!Sum(s) = SumFunction(s)
<1>1. Met!SumFunction(s) = SumFunction(s)
  BY Zenon DEF SumFunction, SumFunctionOnSet, FoldFunctionOnSet, MapThenFoldSet,
               Met!SumFunction, Met!SumFunctionOnSet, Met!FoldFunctionOnSet, Met!MapThenFoldSet
<1> QED
  BY <1>1 DEF Met!Sum

\* The mean of samples that are all on one side of the threshold is on it, too.
LEMMA MeanIsOnTheSide ==
    ASSUME Met!comparator \in {"gt", "gte", "lt", "lte"}, Met!threshold \in Int,
           NEW s \in Seq(Int), Len(s) > 0, NEW b \in BOOLEAN,
           \A i \in DOMAIN s : Met!compare(s[i], Met!threshold) <=> b
    PROVE  Met!compare(Met!Sum(s), Len(s) * Met!threshold) <=> b
<1> DEFINE t == Met!threshold
           all == Met!Sum(s)
           n == Len(s)
<1>1. all \in Int /\ n \in Nat \ {0} /\ t \in Int /\ n * t \in Int /\ \A i \in DOMAIN s : s[i] \in Int
  BY SequenceSum, SumsAreOne
<1>2. (\A i \in DOMAIN s : s[i] <= t) => all <= n * t
  BY SequenceSum, SumsAreOne
<1>3. (\A i \in DOMAIN s : s[i] >= t) => all >= n * t
  BY SequenceSum, SumsAreOne
<1>4. n * (t - 1) = n * t - n /\ n * (t + 1) = n * t + n /\ t - 1 \in Int /\ t + 1 \in Int
  BY <1>1
<1>5. ASSUME \A i \in DOMAIN s : s[i] < t PROVE all < n * t
  <2>1. \A i \in DOMAIN s : s[i] <= t - 1
    BY <1>1, <1>5
  <2>2. all <= n * (t - 1)
    BY <1>4, <2>1, SequenceSum, SumsAreOne
  <2> HIDE DEF t, all, n
  <2> QED
    BY <1>1, <1>4, <2>2
<1>6. ASSUME \A i \in DOMAIN s : s[i] > t PROVE all > n * t
  <2>1. \A i \in DOMAIN s : s[i] >= t + 1
    BY <1>1, <1>6
  <2>2. all >= n * (t + 1)
    BY <1>4, <2>1, SequenceSum, SumsAreOne
  <2> HIDE DEF t, all, n
  <2> QED
    BY <1>1, <1>4, <2>2
<1>7. \A i \in DOMAIN s : Met!compare(s[i], t) <=> b
  OBVIOUS
<1> SUFFICES Met!compare(all, n * t) <=> b
  OBVIOUS
<1> HIDE DEF t, all, n
<1>8. CASE Met!comparator = "gt"
  <2>1. \A i \in DOMAIN s : s[i] > t <=> b
    BY <1>7, <1>8 DEF Met!compare
  <2>2. CASE b
    BY <1>6, <1>8, <2>1, <2>2 DEF Met!compare
  <2>3. CASE ~b
    <3>1. \A i \in DOMAIN s : s[i] <= t
      BY <1>1, <2>1, <2>3
    <3>2. all <= n * t
      BY <1>2, <3>1
    <3> QED
      BY <1>1, <1>8, <2>3, <3>2 DEF Met!compare
  <2> QED
    BY <2>2, <2>3
<1>9. CASE Met!comparator = "gte"
  <2>1. \A i \in DOMAIN s : s[i] >= t <=> b
    BY <1>7, <1>9 DEF Met!compare
  <2>2. CASE b
    BY <1>3, <1>9, <2>1, <2>2 DEF Met!compare
  <2>3. CASE ~b
    <3>1. \A i \in DOMAIN s : s[i] < t
      BY <1>1, <2>1, <2>3
    <3>2. all < n * t
      BY <1>5, <3>1
    <3> QED
      BY <1>1, <1>9, <2>3, <3>2 DEF Met!compare
  <2> QED
    BY <2>2, <2>3
<1>10. CASE Met!comparator = "lt"
  <2>1. \A i \in DOMAIN s : s[i] < t <=> b
    BY <1>7, <1>10 DEF Met!compare
  <2>2. CASE b
    BY <1>5, <1>10, <2>1, <2>2 DEF Met!compare
  <2>3. CASE ~b
    <3>1. \A i \in DOMAIN s : s[i] >= t
      BY <1>1, <2>1, <2>3
    <3>2. all >= n * t
      BY <1>3, <3>1
    <3> QED
      BY <1>1, <1>10, <2>3, <3>2 DEF Met!compare
  <2> QED
    BY <2>2, <2>3
<1>11. CASE Met!comparator = "lte"
  <2>1. \A i \in DOMAIN s : s[i] <= t <=> b
    BY <1>7, <1>11 DEF Met!compare
  <2>2. CASE b
    BY <1>2, <1>11, <2>1, <2>2 DEF Met!compare
  <2>3. CASE ~b
    <3>1. \A i \in DOMAIN s : s[i] > t
      BY <1>1, <2>1, <2>3
    <3>2. all > n * t
      BY <1>6, <3>1
    <3> QED
      BY <1>1, <1>11, <2>3, <3>2 DEF Met!compare
  <2> QED
    BY <2>2, <2>3
<1> QED
  BY <1>8, <1>9, <1>10, <1>11

\* The halves of a window with two samples are not empty, and that of one with
\* a single sample shifts by nothing.
LEMMA Halves ==
    ASSUME NEW s \in Seq(Int)
    PROVE  /\ Met!Before(s) \in Seq(Int) /\ Met!After(s) \in Seq(Int)
           /\ Len(s) >= 2 => Len(Met!Before(s)) > 0 /\ Len(Met!After(s)) > 0
           /\ Len(s) < 2 => Met!Shift(s) = 0
<1>1. PICK n \in Nat : n = Len(s)
  OBVIOUS
<1>2. PICK h \in Nat : h = n \div 2
  OBVIOUS
<1>3. h <= n /\ (n >= 2 => h >= 1 /\ h < n) /\ (n < 2 => h = 0)
  BY <1>2
<1>4. /\ Met!Before(s) = SubSeq(s, 1, h)
      /\ Met!After(s) = SubSeq(s, h + 1, n)
  BY <1>1, <1>2 DEF Met!Before, Met!After
<1>5. /\ SubSeq(s, 1, h) \in Seq(Int) /\ Len(SubSeq(s, 1, h)) = h
      /\ SubSeq(s, h + 1, n) \in Seq(Int) /\ Len(SubSeq(s, h + 1, n)) = n - h
  BY <1>1, <1>3
<1>6. ASSUME n < 2 PROVE Met!Shift(s) = 0
  <2>1. Met!Before(s) \in Seq(Int) /\ Len(Met!Before(s)) = 0 /\ Len(Met!After(s)) \in Nat
    BY <1>3, <1>4, <1>5, <1>6
  <2>2. DOMAIN Met!Before(s) = {}
    BY <2>1
  <2>3. PICK k \in Int : k = 0
    OBVIOUS
  <2>4. SumFunction(Met!Before(s)) <= 0 * k /\ SumFunction(Met!Before(s)) >= 0 * k
        /\ SumFunction(Met!Before(s)) \in Int
    BY <2>1, <2>2, SequenceSum
  <2>5. SumFunction(Met!After(s)) \in Int
    BY <1>4, <1>5, <2>3, SequenceSum
  <2>6. Met!Sum(Met!Before(s)) = 0 /\ Met!Sum(Met!After(s)) \in Int
    BY <2>3, <2>4, <2>5, SumsAreOne
  <2> QED
    BY <2>1, <2>6 DEF Met!Shift
<1> QED
  BY <1>1, <1>3, <1>4, <1>5, <1>6

\* A window that got worse throughout has shifted to the worse side, and one
\* that never got worse has not.
LEMMA ShiftIsTheChange ==
    ASSUME NEW s \in Seq(Int)
    PROVE  /\ /\ Len(s) >= 2
              /\ \A i \in DOMAIN Met!Before(s), j \in DOMAIN Met!After(s) :
                    Met!Better(Met!Before(s)[i], Met!After(s)[j])
              => Met!changeIsRegression(s)
           /\ (\A i \in DOMAIN Met!Before(s), j \in DOMAIN Met!After(s) :
                  ~Met!Better(Met!Before(s)[i], Met!After(s)[j]))
              => ~Met!changeIsRegression(s)
<1> DEFINE p == Met!Before(s)
           q == Met!After(s)
<1>1. p \in Seq(Int) /\ q \in Seq(Int) /\ (Len(s) >= 2 => Len(p) > 0 /\ Len(q) > 0)
      /\ (Len(s) < 2 => Met!Shift(s) = 0)
  BY Halves
<1>2. Met!Shift(s) = SumFunction(q) * Len(p) - SumFunction(p) * Len(q)
  BY SumsAreOne DEF Met!Shift
<1> SUFFICES /\ Len(s) >= 2 /\ (\A i \in DOMAIN p, j \in DOMAIN q : Met!Better(p[i], q[j]))
                => Met!changeIsRegression(s)
             /\ (\A i \in DOMAIN p, j \in DOMAIN q : ~Met!Better(p[i], q[j])) => ~Met!changeIsRegression(s)
  OBVIOUS
<1> HIDE DEF p, q
<1>3. /\ Len(p) \in Nat /\ Len(q) \in Nat
      /\ \A i \in DOMAIN p : p[i] \in Int
      /\ \A j \in DOMAIN q : q[j] \in Int
  BY <1>1
<1>4. ASSUME Len(s) < 2 PROVE ~Met!changeIsRegression(s)
  BY <1>1, <1>4 DEF Met!changeIsRegression
<1>5. Len(s) < 2 \/ Len(s) >= 2
  OBVIOUS
<1>6. ASSUME Len(s) >= 2
      PROVE  /\ (\A i \in DOMAIN p, j \in DOMAIN q : p[i] < q[j]) => Met!Shift(s) > 0
             /\ (\A i \in DOMAIN p, j \in DOMAIN q : p[i] > q[j]) => Met!Shift(s) < 0
             /\ (\A i \in DOMAIN p, j \in DOMAIN q : p[i] <= q[j]) => Met!Shift(s) >= 0
             /\ (\A i \in DOMAIN p, j \in DOMAIN q : p[i] >= q[j]) => Met!Shift(s) <= 0
  <2>1. PICK sp \in Int, sq \in Int : sp = SumFunction(p) /\ sq = SumFunction(q)
    BY <1>1, <1>6, MeansCompare
  <2>2. PICK a \in Int, b \in Int : a = sp * Len(q) /\ b = sq * Len(p)
    BY <1>3
  <2>3. Met!Shift(s) = b - a
    BY <1>2, <2>1, <2>2
  <2>4. /\ (\A i \in DOMAIN p, j \in DOMAIN q : p[i] <= q[j]) => a <= b
        /\ (\A i \in DOMAIN p, j \in DOMAIN q : p[i] < q[j]) => a < b
    BY <1>1, <1>6, <2>1, <2>2, MeansCompare
  <2>5. /\ (\A j \in DOMAIN q, i \in DOMAIN p : q[j] <= p[i]) => b <= a
        /\ (\A j \in DOMAIN q, i \in DOMAIN p : q[j] < p[i]) => b < a
    BY <1>1, <1>6, <2>1, <2>2, MeansCompare
  <2>6. /\ (\A i \in DOMAIN p, j \in DOMAIN q : p[i] > q[j]) => b < a
        /\ (\A i \in DOMAIN p, j \in DOMAIN q : p[i] >= q[j]) => b <= a
    BY <1>3, <2>5
  <2> QED
    BY <2>3, <2>4, <2>6
<1>7. CASE Met!LowerIsBetter
  <2>1. ASSUME Len(s) >= 2, \A i \in DOMAIN p, j \in DOMAIN q : Met!Better(p[i], q[j])
        PROVE  Met!changeIsRegression(s)
    BY <1>6, <1>7, <2>1 DEF Met!Better, Met!changeIsRegression
  <2>2. ASSUME Len(s) >= 2, \A i \in DOMAIN p, j \in DOMAIN q : ~Met!Better(p[i], q[j])
        PROVE  ~Met!changeIsRegression(s)
    <3>1. \A i \in DOMAIN p, j \in DOMAIN q : p[i] >= q[j]
      BY <1>3, <1>7, <2>2 DEF Met!Better
    <3>2. Met!Shift(s) <= 0
      BY <1>6, <2>2, <3>1
    <3>3. Met!Shift(s) \in Int
      BY <1>1, <1>2, <1>3, <2>2, MeansCompare
    <3> QED
      BY <1>7, <3>2, <3>3 DEF Met!changeIsRegression
  <2>3. CASE Len(s) >= 2
    BY <2>1, <2>2, <2>3
  <2>4. CASE Len(s) < 2
    <3>1. ~(Len(s) >= 2)
      BY <2>4
    <3> QED
      BY <1>4, <2>4, <3>1
  <2> QED
    BY <1>5, <2>3, <2>4
<1>8. CASE ~Met!LowerIsBetter
  <2>1. ASSUME Len(s) >= 2, \A i \in DOMAIN p, j \in DOMAIN q : Met!Better(p[i], q[j])
        PROVE  Met!changeIsRegression(s)
    BY <1>6, <1>8, <2>1 DEF Met!Better, Met!changeIsRegression
  <2>2. ASSUME Len(s) >= 2, \A i \in DOMAIN p, j \in DOMAIN q : ~Met!Better(p[i], q[j])
        PROVE  ~Met!changeIsRegression(s)
    <3>1. \A i \in DOMAIN p, j \in DOMAIN q : p[i] <= q[j]
      BY <1>3, <1>8, <2>2 DEF Met!Better
    <3>2. Met!Shift(s) >= 0
      BY <1>6, <2>2, <3>1
    <3>3. Met!Shift(s) \in Int
      BY <1>1, <1>2, <1>3, <2>2, MeansCompare
    <3> QED
      BY <1>8, <3>2, <3>3 DEF Met!changeIsRegression
  <2>3. CASE Len(s) >= 2
    BY <2>1, <2>2, <2>3
  <2>4. CASE Len(s) < 2
    <3>1. ~(Len(s) >= 2)
      BY <2>4
    <3> QED
      BY <1>4, <2>4, <3>1
  <2> QED
    BY <1>5, <2>3, <2>4
<1> QED
  BY <1>7, <1>8

\* A test that decides agrees with samples that do.
LEMMA TestsAgree ==
    ASSUME MetricAssumption, metric \in Metrics, samples \in Seq(Int),
           metric.mode \in {"sequential", "changePoint"}, NEW a
    PROVE  /\ Met!AllBad => Met!Evaluate(a) # "Passed"
           /\ Met!AllGood => Met!Evaluate(a) # "Failed"
<1>1. /\ Met!comparator \in {"gt", "gte", "lt", "lte"} /\ Met!threshold \in Int
      /\ Met!minSamples \in Nat \ {0} /\ Len(samples) \in Nat
  BY MetricTypes
<1>2. CASE metric.mode = "sequential"
  <2>1. Met!Evaluate(a) = Met!evaluateSequential(a)
    BY <1>2 DEF Met!Evaluate
  <2>2. ASSUME Met!Evaluate(a) \in {"Passed", "Failed"}
        PROVE  /\ Len(samples) > 0
               /\ Met!Evaluate(a) = "Passed" <=> Met!compare(Met!Sum(samples), Len(samples) * Met!threshold)
    BY <1>1, <2>1, <2>2 DEF Met!evaluateSequential, Met!Decided
  <2>3. ASSUME NEW b \in BOOLEAN, Len(samples) > 0,
               \A i \in DOMAIN samples : Met!compare(samples[i], Met!threshold) <=> b
        PROVE  Met!compare(Met!Sum(samples), Len(samples) * Met!threshold) <=> b
    BY <1>1, <2>3, MeanIsOnTheSide
  <2>4. ASSUME Met!AllBad, Met!Evaluate(a) = "Passed" PROVE FALSE
    <3>1. \A i \in DOMAIN samples : Met!compare(samples[i], Met!threshold) <=> FALSE
      BY <1>2, <2>4 DEF Met!AllBad
    <3> QED
      BY <2>2, <2>3, <2>4, <3>1
  <2>5. ASSUME Met!AllGood, Met!Evaluate(a) = "Failed" PROVE FALSE
    <3>1. \A i \in DOMAIN samples : Met!compare(samples[i], Met!threshold) <=> TRUE
      BY <1>2, <2>5 DEF Met!AllGood
    <3> QED
      BY <2>2, <2>3, <2>5, <3>1
  <2> QED
    BY <2>4, <2>5
<1>3. CASE metric.mode = "changePoint"
  <2>1. Met!Evaluate(a) = Met!evaluateChangePoint(a)
    BY <1>3 DEF Met!Evaluate
  <2>2. /\ Met!Evaluate(a) = "Passed" => ~Met!changeIsRegression(samples)
        /\ Met!Evaluate(a) = "Failed" => Met!changeIsRegression(samples)
    BY <2>1 DEF Met!evaluateChangePoint
  <2>3. Met!AllBad => Met!changeIsRegression(samples)
    BY <1>3, ShiftIsTheChange DEF Met!AllBad
  <2>4. Met!AllGood => ~Met!changeIsRegression(samples)
    BY <1>3, ShiftIsTheChange DEF Met!AllGood
  <2> QED
    BY <2>2, <2>3, <2>4
<1> QED
  BY <1>2, <1>3

\* A statistical test never decides against unanimous samples, for all
\* metrics, thresholds and windows (evaluateSequential, evaluateChangePoint).
THEOREM UnanimousSamplesDecide ==
    ASSUME MetricAssumption
    PROVE  Met!Spec => []Met!SamplesDecide
<1>1. MetricInv => Met!SamplesDecide
  <2> SUFFICES ASSUME MetricInv, metric.mode \in {"sequential", "changePoint"}
               PROVE  /\ Met!AllBad => result.phase # "Passed"
                      /\ Met!AllGood => result.phase # "Failed"
    BY DEF Met!SamplesDecide
  <2>1. samples \in Seq(Int) /\ metric \in Metrics
    <3>1. samples \in Seq(Values) /\ Values \subseteq Int /\ metric \in Metrics
      BY DEF MetricInv, MetricAssumption
    <3>2. samples \in Seq(Int)
      BY <3>1, SeqMonotonic
    <3> QED
      BY <3>1, <3>2
  <2>2. /\ Met!AllBad => Met!Evaluate(result.answers) # "Passed"
        /\ Met!AllGood => Met!Evaluate(result.answers) # "Failed"
    BY <2>1, TestsAgree
  <2> QED
    BY <2>2 DEF MetricInv
<1> QED
  BY <1>1, MetricInit, MetricStep, PTL DEF Met!Spec

-----------------------------------------------------------------------------
(* Listings.                                                               *)

\* A request names its resources once, and names are numbers from 1.
ListingAssumption ==
    /\ Len(Resources) \in Nat \ {0} /\ DOMAIN Resources = 1..Len(Resources)
    /\ \A i, j \in DOMAIN Resources : Resources[i] = Resources[j] => i = j
    /\ Names \subseteq Nat \ {0} /\ IsFiniteSet(Names)
    /\ Limit \in Nat /\ ScanFactor \in Nat

\* What a request can be; TypeOK bounds what has been scanned, too.
ListRequests ==
    [api : {"graph", "decision"}, at : 1..Len(Resources) + 1, pc : {"list", "answered", "failed"},
     from : Names \union {0}, page : [Names -> {"absent", "asked", "other"}], scanned : Nat,
     out : SUBSET Listing!Items, answer : SUBSET Listing!Items, truncated : BOOLEAN]

\* The resource of an object is done with.
IsListed(x) == \E j \in DOMAIN Resources : j < req.at /\ x[1] = Resources[j]

\* What has been asked for all the time is, at any time.
ItemsInv ==
    /\ item \in [Listing!Items -> {"absent", "asked", "other"}]
    /\ always \subseteq Listing!Asked /\ Listing!Asked \subseteq ever

\* What is done with is in the answer.
ListedInv ==
    /\ req \in ListRequests
    /\ req.pc = "list" => req.at \in DOMAIN Resources
    /\ req.pc = "answered" => req.at = Len(Resources) + 1
    /\ req.answer \subseteq ever
    /\ \A x \in req.answer : IsListed(x)
    /\ \A i \in DOMAIN Resources : Cardinality({x \in req.answer : x[1] = Resources[i]}) <= Limit
    /\ req.api = "decision" /\ ~req.truncated => \A x \in always : IsListed(x) => x \in req.answer

\* The pages so far have all that was asked for up to the last name, and what
\* the token names is a state there was.
PagesInv ==
    /\ req.scanned < Listing!scanLimit
    /\ req.out \subseteq ever /\ Cardinality(req.out) <= Limit
    /\ \A x \in req.out : x[1] = Listing!Resource
    /\ req.from = 0 => req.out = {}
    /\ req.from # 0 =>
        \A n \in Names :
          /\ req.page[n] = "asked" => <<Listing!Resource, n>> \in ever
          /\ <<Listing!Resource, n>> \in always =>
                req.page[n] = "asked" /\ (n <= req.from => <<Listing!Resource, n>> \in req.out)

ListInv == ItemsInv /\ ListedInv /\ (req.pc = "list" => PagesInv)

\* Both modules count alike.
LEMMA CountsAreOne == ASSUME NEW S PROVE Listing!Cardinality(S) = Cardinality(S)
  BY DEF Listing!Cardinality, Cardinality

\* The lesser and the greater of two numbers.
LEMMA OfTwo ==
    ASSUME NEW a \in Int, NEW b \in Int
    PROVE  /\ Listing!Max({a, b}) = IF a >= b THEN a ELSE b
           /\ Listing!Min({a, b}) = IF a <= b THEN a ELSE b
  BY DEF Listing!Max, Listing!Min

\* How many come up to a name grows with it.
LEMMA CountsGrow ==
    ASSUME NEW S \in SUBSET Nat, IsFiniteSet(S), NEW n \in S, NEW m \in S, n <= m
    PROVE  /\ Cardinality({k \in S : k <= n}) \in 1..Cardinality(S)
           /\ Cardinality({k \in S : k <= n}) <= Cardinality({k \in S : k <= m})
           /\ n < m => Cardinality({k \in S : k <= n}) < Cardinality({k \in S : k <= m})
<1> DEFINE A == {k \in S : k <= n}
           B == {k \in S : k <= m}
<1>1. n \in Nat /\ m \in Nat /\ S \in SUBSET Nat
  OBVIOUS
<1>2. A \in SUBSET S /\ B \in SUBSET S /\ A \in SUBSET B /\ n \in A /\ m \in B /\ (n < m => m \notin A)
  <2>1. \A k \in S : k \in Nat /\ (k <= n => k <= m)
    BY <1>1
  <2>2. n <= n /\ m <= m /\ (n < m => ~(m <= n))
    BY <1>1
  <2> QED
    BY <2>1, <2>2
<1> HIDE DEF A, B
<1>3. IsFiniteSet(A) /\ IsFiniteSet(B) /\ Cardinality(A) <= Cardinality(S)
  BY <1>2, FS_Subset
<1>4. Cardinality(A) <= Cardinality(B) /\ (Cardinality(A) = Cardinality(B) => A = B)
  BY <1>2, <1>3, FS_Subset
<1>5. Cardinality(A) \in Nat /\ Cardinality(B) \in Nat /\ Cardinality(S) \in Nat /\ Cardinality(A) # 0
  BY <1>2, <1>3, FS_CardinalityType, FS_EmptySet
<1> QED
  BY <1>2, <1>3, <1>4, <1>5 DEF A, B

\* A finite set of numbers has a greatest one.
LEMMA GreatestOf ==
    ASSUME NEW S \in SUBSET Nat, IsFiniteSet(S), S # {}
    PROVE  \E m \in S : \A n \in S : n <= m
<1> DEFINE count(n) == Cardinality({k \in S : k <= n})
           Left == {Cardinality(S) - count(n) : n \in S}
<1>1. Cardinality(S) \in Nat
  BY FS_CardinalityType
<1>2. \A n \in S : count(n) \in 1..Cardinality(S)
  BY CountsGrow
<1>3. \A n, m \in S : n < m => count(n) < count(m)
  BY CountsGrow
<1> HIDE DEF count
<1>4. Left \in SUBSET Nat /\ Left # {}
  <2>1. ASSUME NEW n \in S PROVE Cardinality(S) - count(n) \in Nat
    BY <1>1, <1>2
  <2> QED
    BY <2>1
<1>5. PICK l \in Left : \A r \in Left : l <= r
  BY <1>4, LeastOf
<1>6. PICK m \in S : l = Cardinality(S) - count(m)
  BY <1>5
<1>7. ASSUME NEW n \in S PROVE n <= m
  <2>1. Cardinality(S) - count(m) <= Cardinality(S) - count(n)
    BY <1>5, <1>6
  <2>2. ~(count(m) < count(n))
    BY <1>1, <1>2, <2>1
  <2>3. ~(m < n)
    BY <1>3, <2>2
  <2> QED
    BY <2>3
<1> QED
  BY <1>7

\* Of what a resource has the first ones are at most Limit.
LEMMA FirstAreBounded ==
    ASSUME ListingAssumption, NEW r, NEW out \in SUBSET ({r} \X Names)
    PROVE  /\ IsFiniteSet(out)
           /\ Listing!First(out) \in SUBSET out
           /\ Cardinality(Listing!First(out)) <= Limit
<1> DEFINE upTo(x) == {y \in out : y[2] <= x[2]}
           F == Listing!First(out)
<1>1. IsFiniteSet(out)
  <2>1. IsFiniteSet({r}) /\ IsFiniteSet(Names)
    BY FS_Singleton DEF ListingAssumption
  <2>2. IsFiniteSet({r} \X Names)
    BY <2>1, FS_Product
  <2> QED
    BY <2>2, FS_Subset
<1>2. F = {x \in out : Cardinality(upTo(x)) <= Limit}
  BY CountsAreOne DEF Listing!First
<1>3. CASE F = {}
  <2>1. Cardinality(F) = 0 /\ Limit \in Nat /\ F \in SUBSET out
    BY <1>3, FS_EmptySet DEF ListingAssumption
  <2> HIDE DEF F
  <2> QED
    BY <1>1, <2>1 DEF F
<1>4. CASE F # {}
  <2> DEFINE N == {x[2] : x \in F}
  <2>1. F \in SUBSET out /\ N \in SUBSET Names /\ N # {}
    BY <1>2, <1>4
  <2>2. N \in SUBSET Nat /\ IsFiniteSet(N)
    BY <2>1, FS_Subset DEF ListingAssumption
  <2>3. PICK m \in N : \A n \in N : n <= m
    BY <2>1, <2>2, GreatestOf
  <2>4. PICK x \in F : x[2] = m
    BY <2>3
  <2>5. F \in SUBSET upTo(x)
    BY <2>1, <2>3, <2>4
  <2>6. Cardinality(upTo(x)) <= Limit /\ upTo(x) \in SUBSET out
    BY <1>2
  <2> HIDE DEF upTo, F
  <2>7. IsFiniteSet(upTo(x)) /\ IsFiniteSet(F) /\ Cardinality(F) <= Cardinality(upTo(x))
    BY <1>1, <2>5, <2>6, FS_Subset
  <2>8. Cardinality(F) \in Nat /\ Cardinality(upTo(x)) \in Nat
    BY <2>7, FS_CardinalityType
  <2> QED
    BY <1>1, <2>1, <2>6, <2>7, <2>8 DEF F, ListingAssumption
<1> QED
  BY <1>3, <1>4

\* The greatest number that the model's Max stands for.
LEMMA MaxIsGreatest ==
    ASSUME NEW S \in SUBSET Nat, IsFiniteSet(S), S # {}
    PROVE  Listing!Max(S) \in S /\ \A n \in S : n <= Listing!Max(S)
<1>1. PICK m \in S : \A n \in S : n <= m
  BY GreatestOf
<1>2. \A n \in S : m >= n
  BY <1>1
<1>3. Listing!Max(S) \in S /\ \A n \in S : Listing!Max(S) >= n
  BY <1>2 DEF Listing!Max
<1> QED
  BY <1>3

\* A page has room for one object at least.
LEMMA PageHasRoom ==
    ASSUME ListingAssumption, ListInv, req.pc = "list"
    PROVE  Listing!scanLimit \in Nat /\ Listing!pageSize \in Nat /\ Listing!pageSize >= 1
<1>1. Limit \in Nat /\ ScanFactor \in Nat /\ Limit * ScanFactor \in Nat /\ Limit + 1 \in Nat
  BY DEF ListingAssumption
<1>2. Listing!scanLimit \in Nat
  BY <1>1, OfTwo DEF Listing!scanLimit
<1>3. req.scanned \in Nat /\ req.scanned < Listing!scanLimit
  BY DEF ListInv, ListedInv, PagesInv, ListRequests
<1>4. Listing!scanLimit - req.scanned \in Nat /\ Listing!scanLimit - req.scanned >= 1
  BY <1>2, <1>3
<1> DEFINE left == Listing!scanLimit - req.scanned
<1>5. left \in Nat /\ left >= 1 /\ left \in Int /\ Limit + 1 \in Int /\ Limit + 1 >= 1
  BY <1>1, <1>4
<1>6. Listing!pageSize = Listing!Min({Limit + 1, left})
  BY DEF Listing!pageSize
<1> HIDE DEF left
<1>7. Listing!Min({Limit + 1, left}) = IF Limit + 1 <= left THEN Limit + 1 ELSE left
  BY <1>5, OfTwo
<1> QED
  BY <1>1, <1>2, <1>5, <1>6, <1>7

\* The state a page is read from has all that is asked for all the time, of
\* which the pages before had what is not still to come.
LEMMA SnapshotIsHonest ==
    ASSUME ListingAssumption, ListInv, req.pc = "list"
    PROVE  /\ Listing!Snapshot \in [Names -> {"absent", "asked", "other"}]
           /\ Listing!Resource \in Listing!wants
           /\ \A n \in Names :
                /\ Listing!Snapshot[n] = "asked" => <<Listing!Resource, n>> \in ever
                /\ <<Listing!Resource, n>> \in always =>
                      Listing!Snapshot[n] = "asked" /\ (n <= req.from => <<Listing!Resource, n>> \in req.out)
<1> USE DEF ListRequests
<1>1. req.at \in DOMAIN Resources /\ req.from \in Names \union {0}
      /\ req.page \in [Names -> {"absent", "asked", "other"}]
  BY DEF ListInv, ListedInv
<1>2. Listing!Resource \in Listing!wants
  BY <1>1 DEF Listing!Resource, Listing!wants
<1>3. \A n \in Names : <<Listing!Resource, n>> \in Listing!Items
  BY <1>2 DEF Listing!Items
<1>4. CASE req.from = 0
  <2>1. Listing!Snapshot = Listing!Current
    BY <1>4 DEF Listing!Snapshot
  <2>2. \A n \in Names : ~(n <= 0)
    BY DEF ListingAssumption
  <2> QED
    BY <1>2, <1>3, <1>4, <2>1, <2>2 DEF Listing!Current, ListInv, ItemsInv, Listing!Asked
<1>5. CASE req.from # 0
  <2>1. Listing!Snapshot = req.page
    BY <1>5 DEF Listing!Snapshot
  <2> QED
    BY <1>1, <1>2, <1>5, <2>1 DEF ListInv, PagesInv
<1> QED
  BY <1>4, <1>5

\* What is kept of a page was asked for, and is of the resource.
LEMMA KeptIsAsked ==
    ASSUME ListingAssumption, ListInv, req.pc = "list", NEW page \in SUBSET Listing!Rest
    PROVE  /\ page \in SUBSET Names /\ IsFiniteSet(page) /\ IsFiniteSet(Listing!Rest)
           /\ Listing!Kept(page) \in SUBSET ({Listing!Resource} \X Names)
           /\ Listing!Kept(page) \in SUBSET ever /\ Listing!Kept(page) \in SUBSET Listing!Items
           /\ \A n \in page : <<Listing!Resource, n>> \in always => <<Listing!Resource, n>> \in Listing!Kept(page)
           /\ \A n \in Names : <<Listing!Resource, n>> \in always /\ n \notin Listing!Rest =>
                 <<Listing!Resource, n>> \in req.out
<1> USE DEF ListRequests
<1>1. Listing!Rest \in SUBSET Names
  BY DEF Listing!Rest
<1>2. page \in SUBSET Names /\ IsFiniteSet(page) /\ IsFiniteSet(Listing!Rest)
  BY <1>1, FS_Subset DEF ListingAssumption
<1>3. Listing!Kept(page) \in SUBSET ({Listing!Resource} \X Names)
  BY <1>2 DEF Listing!Kept
<1>4. Listing!Kept(page) \in SUBSET ever
  BY <1>2, SnapshotIsHonest DEF Listing!Kept
<1>5. Listing!Kept(page) \in SUBSET Listing!Items
  BY <1>3, SnapshotIsHonest DEF Listing!Items
<1>6. \A n \in page : <<Listing!Resource, n>> \in always => <<Listing!Resource, n>> \in Listing!Kept(page)
  BY <1>2, SnapshotIsHonest DEF Listing!Kept
<1>7. ASSUME NEW n \in Names, <<Listing!Resource, n>> \in always, n \notin Listing!Rest
      PROVE  <<Listing!Resource, n>> \in req.out
  <2>1. Listing!Snapshot[n] = "asked" /\ (n <= req.from => <<Listing!Resource, n>> \in req.out)
    BY <1>7, SnapshotIsHonest
  <2>2. ~(n > req.from)
    BY <1>7, <2>1 DEF Listing!Rest
  <2>3. n \in Nat /\ req.from \in Nat
    <3>1. req.from \in Names \union {0}
      BY DEF ListInv, ListedInv
    <3>2. \A k \in Names : k \in Nat
      BY DEF ListingAssumption
    <3>3. CASE req.from \in Names
      BY <3>2, <3>3
    <3>4. CASE req.from = 0
      BY <3>2, <3>4
    <3> QED
      BY <3>1, <3>3, <3>4
  <2> QED
    BY <2>1, <2>2, <2>3
<1> QED
  BY <1>2, <1>3, <1>4, <1>5, <1>6, <1>7

\* A page that is not the last one has all up to its last name.
LEMMA PageIsPrefix ==
    ASSUME ListingAssumption, ListInv, req.pc = "list", Listing!Rest # Listing!Page
    PROVE  /\ Listing!Max(Listing!Page) \in Listing!Page
           /\ \A n \in Listing!Rest : n <= Listing!Max(Listing!Page) => n \in Listing!Page
<1> DEFINE S == Listing!Rest
           P == Listing!Page
           upTo(n) == {k \in S : k <= n}
<1>1. P = {n \in S : Cardinality(upTo(n)) <= Listing!pageSize}
  BY CountsAreOne DEF Listing!Page
<1>2. S \in SUBSET Nat /\ IsFiniteSet(S) /\ S # {} /\ P \in SUBSET S
  <2>1. S \in SUBSET S
    OBVIOUS
  <2> QED
    BY <1>1, <2>1, KeptIsAsked DEF ListingAssumption
<1>3. Listing!pageSize \in Nat /\ Listing!pageSize >= 1
  BY PageHasRoom
<1>4. P # {}
  <2>1. PICK l \in S : \A n \in S : l <= n
    BY <1>2, LeastOf
  <2>2. upTo(l) = {l}
    <3>1. \A k \in S : k <= l => k = l
      BY <1>2, <2>1
    <3>2. l <= l
      BY <2>1
    <3> QED
      BY <3>1, <3>2
  <2>3. Cardinality(upTo(l)) = 1
    BY <2>2, FS_Singleton
  <2> QED
    BY <1>1, <1>3, <2>3
<1>5. IsFiniteSet(P) /\ P \in SUBSET Nat
  BY <1>2, FS_Subset
<1> HIDE DEF P, S
<1>6. Listing!Max(P) \in P /\ \A n \in P : n <= Listing!Max(P)
  BY <1>4, <1>5, MaxIsGreatest
<1>7. ASSUME NEW n \in S, n <= Listing!Max(P)
      PROVE  n \in P
  <2> DEFINE m == Listing!Max(P)
  <2>1. m \in S
    BY <1>2, <1>6
  <2> HIDE DEF m
  <2>2. /\ Cardinality(upTo(n)) \in 1..Cardinality(S)
        /\ Cardinality(upTo(n)) <= Cardinality(upTo(m))
    BY <1>2, <1>7, <2>1, CountsGrow DEF m
  <2>3. Cardinality(upTo(m)) \in 1..Cardinality(S)
    <3>1. m <= m
      BY <1>2, <2>1
    <3> QED
      BY <1>2, <2>1, <3>1, CountsGrow
  <2>4. Cardinality(upTo(m)) <= Listing!pageSize
    BY <1>1, <1>6 DEF m
  <2>5. Cardinality(S) \in Nat
    BY <1>2, FS_CardinalityType
  <2> HIDE DEF upTo
  <2>6. Cardinality(upTo(n)) <= Listing!pageSize
    BY <1>3, <2>2, <2>3, <2>4, <2>5
  <2> QED
    BY <1>1, <2>6
<1> QED
  BY <1>6, <1>7 DEF P, S

\* A resource that is done with is in the answer, with at most Limit objects and,
\* where it is not truncated, with all that was asked for all the time.
LEMMA DoneIsListed ==
    ASSUME ListingAssumption, ListInv, req.pc = "list", NEW out, NEW truncated \in BOOLEAN,
           out \in SUBSET ({Listing!Resource} \X Names), out \in SUBSET ever, out \in SUBSET Listing!Items,
           Cardinality(out) <= Limit,
           req.api = "decision" /\ ~truncated =>
              \A n \in Names : <<Listing!Resource, n>> \in always => <<Listing!Resource, n>> \in out,
           Listing!Done(out, truncated), UNCHANGED <<item, always, ever>>
    PROVE  ListInv'
<1> USE DEF ListRequests
<1> DEFINE at == req.at
           last == at = Len(Resources)
<1>1. /\ req \in ListRequests
      /\ at \in DOMAIN Resources
  BY DEF ListInv, ListedInv
<1>2. Len(Resources) \in Nat \ {0} /\ DOMAIN Resources = 1..Len(Resources) /\ Limit \in Nat
  BY DEF ListingAssumption
<1>3. at \in 1..Len(Resources) /\ at \in Nat /\ at + 1 \in 1..Len(Resources) + 1
  BY <1>1, <1>2
<1>4. req' = [req EXCEPT !.answer = req.answer \union out, !.truncated = req.truncated \/ truncated,
                         !.at = at + 1, !.pc = IF last THEN "answered" ELSE req.pc,
                         !.from = 0, !.page = [n \in Names |-> "absent"], !.scanned = 0, !.out = {}]
  BY DEF Listing!Done, Listing!Fresh
<1>5. /\ req'.answer = req.answer \union out /\ req'.truncated = (req.truncated \/ truncated)
      /\ req'.at = at + 1 /\ req'.pc = (IF last THEN "answered" ELSE "list") /\ req'.api = req.api
      /\ req'.from = 0 /\ req'.scanned = 0 /\ req'.out = {}
      /\ req'.page = [n \in Names |-> "absent"]
  BY <1>1, <1>4
<1>6. req' \in ListRequests
  BY <1>1, <1>3, <1>4
<1>7. \A x : IsListed(x)' <=> IsListed(x) \/ x[1] = Listing!Resource
  <2>1. \A j \in DOMAIN Resources : j < at + 1 <=> j < at \/ j = at
    BY <1>2, <1>3
  <2>2. Listing!Resource = Resources[at]
    BY DEF Listing!Resource
  <2> HIDE DEF at
  <2> QED
    BY <1>1, <1>5, <2>1, <2>2 DEF IsListed, at
<1>8. \A x \in out : x[1] = Listing!Resource /\ x[2] \in Names /\ x = <<Listing!Resource, x[2]>>
  OBVIOUS
<1>9. \A x : x[1] = Listing!Resource => ~IsListed(x)
  <2>1. SUFFICES ASSUME NEW x, x[1] = Listing!Resource, NEW j \in DOMAIN Resources, j < at, x[1] = Resources[j]
                 PROVE  FALSE
    BY DEF IsListed
  <2>2. Resources[j] = Resources[at]
    BY <2>1 DEF Listing!Resource
  <2>3. j = at
    BY <1>1, <2>2 DEF ListingAssumption
  <2> QED
    BY <1>3, <2>1, <2>3
<1>10. ItemsInv'
  BY DEF ListInv, ItemsInv, Listing!Asked
<1>11. \A i \in DOMAIN Resources : Cardinality({x \in req'.answer : x[1] = Resources[i]}) <= Limit
  <2>1. SUFFICES ASSUME NEW i \in DOMAIN Resources
                 PROVE  Cardinality({x \in req'.answer : x[1] = Resources[i]}) <= Limit
    OBVIOUS
  <2>2. CASE Resources[i] = Listing!Resource
    <3>1. \A x \in req.answer : x[1] # Resources[i]
      BY <1>9, <2>2 DEF ListInv, ListedInv
    <3>2. {x \in req'.answer : x[1] = Resources[i]} = out
      BY <1>5, <1>8, <2>2, <3>1
    <3> QED
      BY <3>2
  <2>3. CASE Resources[i] # Listing!Resource
    <3>1. {x \in req'.answer : x[1] = Resources[i]} = {x \in req.answer : x[1] = Resources[i]}
      BY <1>5, <1>8, <2>3
    <3> QED
      BY <3>1 DEF ListInv, ListedInv
  <2> QED
    BY <2>2, <2>3
<1>12. ASSUME req.api = "decision", ~req.truncated, ~truncated, NEW x \in always, IsListed(x)'
       PROVE  x \in req'.answer
  <2>1. CASE IsListed(x)
    BY <1>5, <1>12, <2>1 DEF ListInv, ListedInv
  <2>2. CASE x[1] = Listing!Resource
    <3>1. x \in Listing!Items
      BY <1>12 DEF ListInv, ItemsInv, Listing!Asked
    <3>2. x[2] \in Names /\ x = <<Listing!Resource, x[2]>>
      BY <2>2, <3>1 DEF Listing!Items
    <3> QED
      BY <1>5, <1>12, <3>2
  <2> QED
    BY <1>7, <1>12, <2>1, <2>2
<1>13. \A x \in req'.answer : IsListed(x)'
  BY <1>5, <1>7, <1>8 DEF ListInv, ListedInv
<1>14. req'.answer \subseteq ever
  BY <1>5 DEF ListInv, ListedInv
<1>15. ListedInv'
  <2>1. req'.pc = "list" => req'.at \in DOMAIN Resources
    BY <1>2, <1>3, <1>5
  <2>2. req'.pc = "answered" => req'.at = Len(Resources) + 1
    BY <1>5
  <2> HIDE DEF at, last
  <2>3. req'.api = "decision" /\ ~req'.truncated => \A x \in always : IsListed(x)' => x \in req'.answer
    BY <1>5, <1>12
  <2> QED
    BY <1>6, <1>11, <1>13, <1>14, <2>1, <2>2, <2>3 DEF ListedInv
<1>16. PagesInv'
  <2>1. Listing!scanLimit' = Listing!scanLimit /\ Listing!scanLimit \in Nat /\ 0 < Listing!scanLimit
    <3>1. Listing!scanLimit \in Nat /\ req.scanned \in Nat /\ req.scanned < Listing!scanLimit
      BY <1>1, PageHasRoom DEF ListInv, PagesInv
    <3> QED
      BY <3>1 DEF Listing!scanLimit
  <2>2. Cardinality({}) = 0
    BY FS_EmptySet
  <2> QED
    BY <1>2, <1>5, <2>1, <2>2 DEF PagesInv
<1> QED
  BY <1>10, <1>15, <1>16 DEF ListInv

\* A page of the Decision API ends its resource or leaves a token.
LEMMA DecisionPage ==
    ASSUME ListingAssumption, ListInv, Listing!listDecisionItems
    PROVE  ListInv'
<1> USE DEF ListRequests
<1> DEFINE page == Listing!Page
           out == req.out \union Listing!Kept(page)
           scanned == req.scanned + Listing!Cardinality(page)
<1>1. req.pc = "list" /\ req.api = "decision" /\ UNCHANGED <<item, always, ever, changes>>
  BY DEF Listing!listDecisionItems
<1>2. page \in SUBSET Listing!Rest
  BY DEF Listing!Page
<1>3. /\ page \in SUBSET Names /\ IsFiniteSet(page)
      /\ Listing!Kept(page) \in SUBSET ({Listing!Resource} \X Names)
      /\ Listing!Kept(page) \in SUBSET ever /\ Listing!Kept(page) \in SUBSET Listing!Items
      /\ \A n \in page : <<Listing!Resource, n>> \in always => <<Listing!Resource, n>> \in Listing!Kept(page)
      /\ \A n \in Names : <<Listing!Resource, n>> \in always /\ n \notin Listing!Rest =>
            <<Listing!Resource, n>> \in req.out
  BY <1>1, <1>2, KeptIsAsked
<1>4. /\ req \in ListRequests
      /\ PagesInv
  BY <1>1 DEF ListInv, ListedInv
<1>5. out \in SUBSET ({Listing!Resource} \X Names) /\ out \in SUBSET ever /\ out \in SUBSET Listing!Items
  <2>1. req.out \in SUBSET Listing!Items /\ req.out \in SUBSET ever /\ \A x \in req.out : x[1] = Listing!Resource
    BY <1>4 DEF PagesInv
  <2>2. req.out \in SUBSET ({Listing!Resource} \X Names)
    BY <2>1 DEF Listing!Items
  <2> QED
    BY <1>3, <2>1, <2>2
<1>6. IsFiniteSet(out) /\ Cardinality(out) \in Nat /\ Limit \in Nat
  BY <1>5, FirstAreBounded, FS_CardinalityType DEF ListingAssumption
<1>7. Listing!Cardinality(out) = Cardinality(out) /\ Listing!Cardinality(page) = Cardinality(page)
      /\ Cardinality(page) \in Nat
  BY <1>3, CountsAreOne, FS_CardinalityType
<1> HIDE DEF out, page, scanned
<1>8. CASE Cardinality(out) > Limit /\ Listing!Done(Listing!First(out), TRUE)
  <2>1. Listing!First(out) \in SUBSET out /\ Cardinality(Listing!First(out)) <= Limit
    BY <1>5, FirstAreBounded
  <2> DEFINE first == Listing!First(out)
  <2>2. first \in SUBSET ({Listing!Resource} \X Names) /\ first \in SUBSET ever /\ first \in SUBSET Listing!Items
        /\ Cardinality(first) <= Limit /\ Listing!Done(first, TRUE)
    BY <1>5, <1>8, <2>1
  <2> HIDE DEF first
  <2> QED
    BY <1>1, <2>2, DoneIsListed
<1>9. CASE Cardinality(out) <= Limit /\ Listing!Rest = page /\ Listing!Done(out, FALSE)
  <2>1. \A n \in Names : <<Listing!Resource, n>> \in always => <<Listing!Resource, n>> \in out
    BY <1>3, <1>9 DEF out
  <2> QED
    BY <1>1, <1>5, <1>9, <2>1, DoneIsListed
<1>10. CASE Cardinality(out) <= Limit /\ Listing!Done(out, TRUE)
  BY <1>1, <1>5, <1>10, DoneIsListed
<1>11. CASE /\ Cardinality(out) <= Limit /\ Listing!Rest # page /\ ~(scanned >= Listing!scanLimit)
            /\ req' = [req EXCEPT !.page = Listing!Snapshot, !.from = Listing!Max(page),
                                  !.out = out, !.scanned = scanned]
  <2>1. Listing!Max(page) \in page /\ \A n \in Listing!Rest : n <= Listing!Max(page) => n \in page
    BY <1>1, <1>11, PageIsPrefix DEF page
  <2> DEFINE last == Listing!Max(page)
  <2>2. last \in Names /\ last # 0
    BY <1>3, <2>1 DEF ListingAssumption
  <2>3. /\ Listing!Snapshot \in [Names -> {"absent", "asked", "other"}]
        /\ \A n \in Names :
             /\ Listing!Snapshot[n] = "asked" => <<Listing!Resource, n>> \in ever
             /\ <<Listing!Resource, n>> \in always => Listing!Snapshot[n] = "asked"
    BY <1>1, SnapshotIsHonest
  <2>4. scanned \in Nat /\ Listing!scanLimit \in Nat /\ scanned < Listing!scanLimit
    BY <1>1, <1>4, <1>7, <1>11, PageHasRoom DEF scanned
  <2>5. \A n \in Names : <<Listing!Resource, n>> \in always /\ n <= last => <<Listing!Resource, n>> \in out
    <3>1. SUFFICES ASSUME NEW n \in Names, <<Listing!Resource, n>> \in always, n <= last
                   PROVE  <<Listing!Resource, n>> \in out
      OBVIOUS
    <3>2. CASE n \in Listing!Rest
      BY <1>3, <2>1, <3>1, <3>2 DEF out
    <3>3. CASE n \notin Listing!Rest
      BY <1>3, <3>1, <3>3 DEF out
    <3> QED
      BY <3>2, <3>3
  <2> HIDE DEF last
  <2>6. req' = [req EXCEPT !.page = Listing!Snapshot, !.from = last, !.out = out, !.scanned = scanned]
    BY <1>11 DEF last
  <2>7. /\ req'.page = Listing!Snapshot /\ req'.from = last /\ req'.out = out /\ req'.scanned = scanned
        /\ req'.api = req.api /\ req'.at = req.at /\ req'.pc = req.pc /\ req'.answer = req.answer
        /\ req'.truncated = req.truncated
    BY <1>4, <2>6
  <2>8. req' \in ListRequests
    BY <1>4, <1>5, <2>2, <2>3, <2>4, <2>6
  <2>9. ItemsInv'
    BY <1>1 DEF ListInv, ItemsInv, Listing!Asked
  <2>10. \A x : IsListed(x)' <=> IsListed(x)
    BY <2>7 DEF IsListed
  <2>11. ListedInv'
    BY <1>1, <2>7, <2>8, <2>10 DEF ListInv, ListedInv
  <2>12. Listing!scanLimit' = Listing!scanLimit /\ Listing!Resource' = Listing!Resource
    BY <2>7 DEF Listing!scanLimit, Listing!Resource
  <2>13. PagesInv'
    <3>1. \A x \in out : x[1] = Listing!Resource
      BY <1>5
    <3> QED
      BY <1>1, <1>5, <1>11, <2>2, <2>3, <2>4, <2>5, <2>7, <2>12, <3>1 DEF PagesInv
  <2> QED
    BY <2>9, <2>11, <2>13 DEF ListInv
<1>12. \/ Cardinality(out) > Limit /\ Listing!Done(Listing!First(out), TRUE)
       \/ Cardinality(out) <= Limit /\ Listing!Rest = page /\ Listing!Done(out, FALSE)
       \/ Cardinality(out) <= Limit /\ Listing!Done(out, TRUE)
       \/ /\ Cardinality(out) <= Limit /\ Listing!Rest # page /\ ~(scanned >= Listing!scanLimit)
          /\ req' = [req EXCEPT !.page = Listing!Snapshot, !.from = Listing!Max(page),
                                !.out = out, !.scanned = scanned]
  <2>1. IF Listing!Cardinality(out) > Limit THEN Listing!Done(Listing!First(out), TRUE)
        ELSE IF Listing!Rest = page THEN Listing!Done(out, FALSE)
        ELSE IF scanned >= Listing!scanLimit THEN Listing!Done(out, TRUE)
        ELSE req' = [req EXCEPT !.page = Listing!Snapshot, !.from = Listing!Max(page),
                                !.out = out, !.scanned = scanned]
    BY DEF Listing!listDecisionItems, page, out, scanned
  <2>2. Cardinality(out) > Limit \/ Cardinality(out) <= Limit
    BY <1>6
  <2>3. Cardinality(out) <= Limit => ~(Cardinality(out) > Limit)
    BY <1>6
  <2> QED
    BY <1>7, <2>1, <2>2, <2>3
<1> QED
  BY <1>8, <1>9, <1>10, <1>11, <1>12

\* The one page of the Hub Gateway ends its resource.
LEMMA GraphPage ==
    ASSUME ListingAssumption, ListInv, Listing!listGraphItems
    PROVE  ListInv'
<1>1. req.pc = "list" /\ req.api = "graph" /\ UNCHANGED <<item, always, ever, changes>>
  BY DEF Listing!listGraphItems
<1>2. PICK page \in SUBSET Listing!Rest :
        Listing!Done(Listing!First(Listing!Kept(page)), Listing!Cardinality(Listing!Kept(page)) > Limit)
  BY DEF Listing!listGraphItems, Listing!kSubset
<1> DEFINE first == Listing!First(Listing!Kept(page))
           more == Listing!Cardinality(Listing!Kept(page)) > Limit
<1>3. /\ Listing!Kept(page) \in SUBSET ({Listing!Resource} \X Names)
      /\ Listing!Kept(page) \in SUBSET ever /\ Listing!Kept(page) \in SUBSET Listing!Items
  BY <1>1, KeptIsAsked
<1>4. first \in SUBSET Listing!Kept(page) /\ Cardinality(first) <= Limit
  BY <1>3, FirstAreBounded
<1>5. first \in SUBSET ({Listing!Resource} \X Names) /\ first \in SUBSET ever /\ first \in SUBSET Listing!Items
  BY <1>3, <1>4
<1>6. more \in BOOLEAN /\ Listing!Done(first, more)
  BY <1>2
<1> HIDE DEF first, more
<1> QED
  BY <1>1, <1>4, <1>5, <1>6, DoneIsListed

\* Every step keeps what the pages so far are worth.
LEMMA ListStep ==
    ASSUME ListingAssumption, ListInv, [Listing!Next]_(Listing!vars)
    PROVE  ListInv'
<1> USE DEF ListRequests
<1>1. CASE Listing!listDecisionItems
  BY <1>1, DecisionPage
<1>2. CASE Listing!listGraphItems
  BY <1>2, GraphPage
<1>3. CASE Listing!failList
  <2>1. /\ req' = [req EXCEPT !.pc = "failed"] /\ UNCHANGED <<item, always, ever>>
    BY <1>3 DEF Listing!failList
  <2>2. req \in ListRequests
    BY DEF ListInv, ListedInv
  <2>3. /\ req'.pc = "failed" /\ req'.api = req.api /\ req'.at = req.at /\ req'.answer = req.answer
        /\ req'.truncated = req.truncated
    BY <2>1, <2>2
  <2>4. req' \in ListRequests
    BY <2>1, <2>2
  <2>5. ItemsInv'
    BY <2>1 DEF ListInv, ItemsInv, Listing!Asked
  <2>6. \A x : IsListed(x)' <=> IsListed(x)
    BY <2>3 DEF IsListed
  <2> QED
    BY <2>1, <2>3, <2>4, <2>5, <2>6 DEF ListInv, ListedInv
<1>4. ASSUME NEW x \in Listing!Items, Listing!changeItem(x)
      PROVE  ListInv'
  <2>1. /\ req' = req
        /\ always' = always \intersect Listing!Asked' /\ ever' = ever \union Listing!Asked'
    BY <1>4 DEF Listing!changeItem
  <2>2. item' \in [Listing!Items -> {"absent", "asked", "other"}]
    <3>1. PICK s \in {"absent", "asked", "other"} \ {item[x]} : item' = [item EXCEPT ![x] = s]
      BY <1>4 DEF Listing!changeItem
    <3> QED
      BY <3>1 DEF ListInv, ItemsInv
  <2>3. always' \subseteq always /\ ever \subseteq ever'
    BY <2>1
  <2>4. ItemsInv'
    BY <2>1, <2>2 DEF ItemsInv
  <2>5. \A y : IsListed(y)' <=> IsListed(y)
    BY <2>1 DEF IsListed
  <2>6. ListedInv'
    BY <2>1, <2>3, <2>5 DEF ListInv, ListedInv
  <2>7. req.pc = "list" => PagesInv'
    <3>1. Listing!scanLimit' = Listing!scanLimit /\ Listing!Resource' = Listing!Resource
      BY <2>1 DEF Listing!scanLimit, Listing!Resource
    <3> QED
      BY <2>1, <2>3, <3>1 DEF ListInv, PagesInv
  <2> QED
    BY <2>1, <2>4, <2>6, <2>7 DEF ListInv
<1>5. CASE UNCHANGED Listing!vars
  <2>1. req' = req /\ item' = item /\ always' = always /\ ever' = ever
    BY <1>5 DEF Listing!vars
  <2>2. Listing!scanLimit' = Listing!scanLimit /\ Listing!Resource' = Listing!Resource
    BY <2>1 DEF Listing!scanLimit, Listing!Resource
  <2> QED
    BY <2>1, <2>2 DEF ListInv, ItemsInv, ListedInv, PagesInv, IsListed, Listing!Asked
<1> QED
  BY <1>1, <1>2, <1>3, <1>4, <1>5 DEF Listing!Next

\* At first nothing is listed.
LEMMA ListInit ==
    ASSUME ListingAssumption, Listing!Init
    PROVE  ListInv
<1> USE DEF ListRequests
<1>1. PICK api \in {"graph", "decision"} :
        req = [api |-> api, at |-> 1, pc |-> "list", answer |-> {}, truncated |-> FALSE,
               from |-> 0, page |-> [n \in Names |-> "absent"], scanned |-> 0, out |-> {}]
  BY DEF Listing!Init, Listing!Fresh
<1>2. Len(Resources) \in Nat \ {0} /\ DOMAIN Resources = 1..Len(Resources) /\ Limit \in Nat
  BY DEF ListingAssumption
<1>3. 1 \in DOMAIN Resources /\ 1 \in 1..Len(Resources) + 1
  BY <1>2
<1>4. req \in ListRequests
  BY <1>1, <1>3
<1>5. ItemsInv
  BY DEF Listing!Init, ItemsInv, Listing!Asked
<1>6. \A x : ~IsListed(x)
  <2>1. \A j \in DOMAIN Resources : ~(j < 1)
    BY <1>2
  <2> QED
    BY <1>1, <2>1 DEF IsListed
<1>7. \A i \in DOMAIN Resources : Cardinality({x \in req.answer : x[1] = Resources[i]}) <= Limit
  <2>1. \A i \in DOMAIN Resources : {x \in req.answer : x[1] = Resources[i]} = {}
    BY <1>1
  <2>2. Cardinality({}) = 0 /\ 0 <= Limit
    BY <1>2, FS_EmptySet
  <2> QED
    BY <2>1, <2>2
<1>8. ListedInv
  BY <1>1, <1>3, <1>4, <1>6, <1>7 DEF ListedInv
<1>9. PagesInv
  <2>1. 0 < Listing!scanLimit
    <3>1. Limit * ScanFactor \in Nat /\ Limit + 1 \in Nat /\ Limit + 1 > 0
      BY DEF ListingAssumption
    <3> QED
      BY <3>1, OfTwo DEF Listing!scanLimit
  <2> QED
    BY <1>1, <1>2, <2>1, FS_EmptySet DEF PagesInv
<1> QED
  BY <1>5, <1>8, <1>9 DEF ListInv

\* An answer of the Decision API has only what was asked for and, where it does
\* not say that it is truncated, all that was asked for all the time, however
\* the objects change between its pages; no answer has more than Limit objects
\* of a resource (listDecisionItems).
THEOREM AnswersAreHonest ==
    ASSUME ListingAssumption
    PROVE  Listing!Spec => []Listing!AnswerIsHonest
<1>1. ListingAssumption /\ ListInv => Listing!AnswerIsHonest
  <2> SUFFICES ASSUME ListInv, req.pc = "answered" PROVE Listing!AnswerIsHonest
    BY DEF Listing!AnswerIsHonest
  <2>1. ListedInv /\ ItemsInv /\ req.at = Len(Resources) + 1
    BY DEF ListInv, ListedInv
  <2>2. \A x \in always : IsListed(x)
    <3>1. SUFFICES ASSUME NEW x \in always PROVE IsListed(x)
      OBVIOUS
    <3>2. PICK j \in DOMAIN Resources : x[1] = Resources[j]
      BY <2>1, <3>1 DEF ItemsInv, Listing!Asked, Listing!Items, Listing!wants
    <3>3. j < req.at
      BY <2>1 DEF ListingAssumption
    <3> QED
      BY <3>2, <3>3 DEF IsListed
  <2> QED
    BY <2>1, <2>2, CountsAreOne DEF Listing!AnswerIsHonest, ListedInv
<1>2. Listing!Init => ListInv
  BY ListInit
<1> QED
  BY <1>1, <1>2, ListStep, PTL DEF Listing!Spec

-----------------------------------------------------------------------------
(* Retention.                                                              *)

\* The retention's limits are numbers.
RetentionAssumption ==
    /\ MaxRuns \in Nat /\ MaxRetainedPerPromotion \in Nat
    /\ MinRetainedPerOutcome \in Nat /\ MaxDeletesPerReconcile \in Nat

\* Retention counts as above.
LEMMA RunsAreCounted == ASSUME NEW S PROVE Ret!Cardinality(S) = Cardinality(S)
  BY DEF Ret!Cardinality, Cardinality

\* The order of creation.
Age == {p \in Ret!Runs \X Ret!Runs : p[1] < p[2]}
Rank(S, r) == Cardinality(UpTo(Age, S, r))
Newer(list, r) == {s \in Ret!Runs : list[s] = list[r] /\ s > r}

\* What attempts are older and newer than one follows from its rank.
LEMMA AgesAreRanks ==
    ASSUME RetentionAssumption, NEW S \in SUBSET Ret!Runs
    PROVE  /\ IsFiniteSet(S) /\ IsOrder(Age, S)
           /\ \A r \in S : /\ UpTo(Age, S, r) = {s \in S : s <= r}
                           /\ Rank(S, r) \in 1..Cardinality(S)
                           /\ Cardinality({s \in S : s < r}) = Rank(S, r) - 1
                           /\ Cardinality({s \in S : s > r}) = Cardinality(S) - Rank(S, r)
<1>1. IsFiniteSet(S) /\ Cardinality(S) \in Nat /\ \A r \in S : r \in Nat
  <2>1. 1 \in Int /\ MaxRuns \in Int
    BY DEF RetentionAssumption
  <2>2. IsFiniteSet(1..MaxRuns)
    BY <2>1, FS_Interval, Zenon
  <2>3. S \in SUBSET (1..MaxRuns)
    BY DEF Ret!Runs
  <2>4. IsFiniteSet(S)
    BY <2>2, <2>3, FS_Subset
  <2> QED
    BY <2>3, <2>4, FS_CardinalityType
<1>2. \A r, s \in S : <<r, s>> \in Age <=> r < s
  BY DEF Age
<1>3. IsOrder(Age, S)
  BY <1>1, <1>2 DEF IsOrder
<1>4. ASSUME NEW r \in S
      PROVE  /\ UpTo(Age, S, r) = {s \in S : s <= r}
             /\ Rank(S, r) \in 1..Cardinality(S)
             /\ Cardinality({s \in S : s < r}) = Rank(S, r) - 1
             /\ Cardinality({s \in S : s > r}) = Cardinality(S) - Rank(S, r)
  <2> DEFINE below == {s \in S : s < r}
             above == {s \in S : s > r}
             upto == UpTo(Age, S, r)
  <2>1. upto = {s \in S : s <= r}
    <3>1. \A s \in S : (s = r \/ <<s, r>> \in Age) <=> s <= r
      BY <1>1, <1>2
    <3> QED
      BY <3>1 DEF UpTo
  <2>2. below = upto \ {r} /\ r \in upto /\ above = S \ upto /\ upto \in SUBSET S /\ S \cap upto = upto
    BY <1>1, <2>1
  <2> HIDE DEF below, above, upto
  <2>3. IsFiniteSet(upto) /\ Cardinality(upto) \in Nat
    BY <1>1, <2>2, FS_Subset, FS_CardinalityType
  <2>4. Cardinality(below) = Cardinality(upto) - 1
    BY <2>2, <2>3, FS_RemoveElement
  <2>5. Cardinality(above) = Cardinality(S) - Cardinality(upto)
    <3>1. Cardinality(S \ upto) = Cardinality(S) - Cardinality(S \cap upto)
      BY <1>1, FS_Difference, Zenon
    <3> QED
      BY <2>2, <3>1
  <2>6. Cardinality(upto) \in 1..Cardinality(S)
    BY <1>1, <1>3, RanksGrow DEF upto
  <2> QED
    BY <2>1, <2>4, <2>5, <2>6 DEF below, above, upto, Rank
<1> QED
  BY <1>1, <1>3, <1>4

\* Oldest takes as many as it is asked for, if there are.
LEMMA OldestAreFirst ==
    ASSUME RetentionAssumption, NEW S \in SUBSET Ret!Runs, NEW n \in Nat
    PROVE  /\ Ret!Oldest(S, n) = {r \in S : Rank(S, r) <= n}
           /\ Ret!Oldest(S, 0) = {}
           /\ n <= Cardinality(S) => Cardinality(Ret!Oldest(S, n)) = n
<1>1. ASSUME NEW m \in Nat PROVE Ret!Oldest(S, m) = {r \in S : Rank(S, r) <= m}
  <2>1. ASSUME NEW r \in S PROVE Ret!Cardinality({s \in S : s < r}) < m <=> Rank(S, r) <= m
    <3>1. Ret!Cardinality({s \in S : s < r}) = Rank(S, r) - 1 /\ Rank(S, r) \in 1..Cardinality(S)
      BY AgesAreRanks, RunsAreCounted
    <3>2. PICK k \in Nat : k = Rank(S, r)
      BY <3>1
    <3> QED
      BY <3>1, <3>2
  <2> QED
    BY <2>1 DEF Ret!Oldest
<1>2. Ret!Oldest(S, 0) = {}
  <2>1. ASSUME NEW r \in S PROVE ~(Rank(S, r) <= 0)
    <3>1. PICK c \in Nat : c = Cardinality(S)
      BY AgesAreRanks, FS_CardinalityType
    <3>2. Rank(S, r) \in 1..c
      BY <3>1, AgesAreRanks
    <3> QED
      BY <3>2
  <2>2. {r \in S : Rank(S, r) <= 0} = {}
    BY <2>1
  <2> QED
    BY <1>1, <2>2
<1>3. ASSUME n <= Cardinality(S) PROVE Cardinality(Ret!Oldest(S, n)) = n
  <2>1. Cardinality({r \in S : Cardinality(UpTo(Age, S, r)) <= n}) = n
    BY <1>3, AgesAreRanks, FirstAreCounted
  <2> QED
    BY <1>1, <2>1 DEF Rank
<1> QED
  BY <1>1, <1>2, <1>3

\* InOrder lists attempts.
LEMMA InOrderLists ==
    ASSUME RetentionAssumption, NEW S \in SUBSET Ret!Runs
    PROVE  /\ Ret!InOrder(S) \in Seq(S)
           /\ S = {} => Ret!InOrder(S) = <<>>
<1>1. PICK c \in Nat : c = Cardinality(S)
  BY AgesAreRanks, FS_CardinalityType
<1>2. Ret!InOrder(S) = [i \in 1..c |-> CHOOSE r \in S : Ret!Cardinality({s \in S : s <= r}) = i]
  BY <1>1, RunsAreCounted DEF Ret!InOrder
<1>3. ASSUME NEW i \in 1..c PROVE (CHOOSE r \in S : Ret!Cardinality({s \in S : s <= r}) = i) \in S
  <2>1. PICK r \in S : Cardinality(UpTo(Age, S, r)) = i
    BY <1>1, AgesAreRanks, RanksAreTaken
  <2>2. Ret!Cardinality({s \in S : s <= r}) = i
    BY <2>1, AgesAreRanks, RunsAreCounted
  <2> QED
    BY <2>2
<1> DEFINE at(i) == CHOOSE r \in S : Ret!Cardinality({s \in S : s <= r}) = i
<1>4. Ret!InOrder(S) = [i \in 1..c |-> at(i)] /\ \A i \in 1..c : at(i) \in S
  BY <1>2, <1>3
<1> HIDE DEF at
<1>5. Ret!InOrder(S) \in Seq(S)
  BY <1>4
<1>6. S = {} => c = 0
  BY <1>1, FS_EmptySet
<1> QED
  BY <1>4, <1>5, <1>6

\* What selectVictims of a list of attempts works with.
LEMMA SelectionTypes ==
    ASSUME RetentionAssumption, NEW list \in [Ret!Runs -> Ret!Phases]
    PROVE  /\ Ret!Excess(list) \in Nat
           /\ Ret!AboveFloor(list) \in SUBSET Ret!IsTerminal(list)
           /\ Ret!IsTerminal(list) \in SUBSET Ret!Runs
           /\ \A r \in Ret!AboveFloor(list) : Cardinality(Newer(list, r)) >= MinRetainedPerOutcome
<1>1. ASSUME NEW S \in SUBSET Ret!Runs PROVE Ret!Cardinality(S) \in Nat
  BY <1>1, RunsAreCounted, AgesAreRanks, FS_CardinalityType
<1>2. ASSUME NEW a \in Nat, NEW b \in Nat PROVE Ret!Less(a, b) \in Nat
  BY <1>2 DEF Ret!Less
<1>3. Ret!IsTerminal(list) \in SUBSET Ret!Runs /\ \A o : Ret!With(list, o) \in SUBSET Ret!Runs
  BY DEF Ret!IsTerminal, Ret!With
<1>4. Ret!Excess(list) \in Nat
  BY <1>1, <1>2, <1>3 DEF Ret!Excess, RetentionAssumption
<1>5. ASSUME NEW r \in Ret!AboveFloor(list)
      PROVE  r \in Ret!IsTerminal(list) /\ Cardinality(Newer(list, r)) >= MinRetainedPerOutcome
  <2>1. PICK o \in Ret!Outcomes :
          r \in Ret!Oldest(Ret!With(list, o), Ret!Less(Ret!Cardinality(Ret!With(list, o)), MinRetainedPerOutcome))
    BY DEF Ret!AboveFloor
  <2> DEFINE W == Ret!With(list, o)
  <2>2. PICK c \in Nat : c = Cardinality(W)
    BY <1>3, AgesAreRanks, FS_CardinalityType
  <2>3. PICK m \in Nat : m = MinRetainedPerOutcome
    BY DEF RetentionAssumption
  <2>4. r \in Ret!Oldest(W, Ret!Less(c, m)) /\ Ret!Less(c, m) \in Nat
    BY <1>2, <2>1, <2>2, <2>3, RunsAreCounted
  <2>5. r \in W /\ Rank(W, r) <= Ret!Less(c, m)
    BY <1>3, <2>4, OldestAreFirst
  <2>6. Rank(W, r) \in 1..c /\ Cardinality({s \in W : s > r}) = c - Rank(W, r)
    BY <1>3, <2>2, <2>5, AgesAreRanks
  <2>7. Cardinality({s \in W : s > r}) >= m
    BY <2>5, <2>6 DEF Ret!Less
  <2>8. {s \in W : s > r} = Newer(list, r) /\ r \in Ret!IsTerminal(list)
    BY <2>5 DEF Ret!With, Newer, Ret!IsTerminal
  <2> QED
    BY <2>3, <2>7, <2>8
<1> QED
  BY <1>3, <1>4, <1>5

\* The victims have ended, and are above the floor unless there are too few.
LEMMA VictimsHaveEnded ==
    ASSUME RetentionAssumption, NEW list \in [Ret!Runs -> Ret!Phases]
    PROVE  /\ Ret!selectVictims(list) \in Seq(Ret!IsTerminal(list))
           /\ ~Ret!Forced(list) => Ret!selectVictims(list) \in Seq(Ret!AboveFloor(list))
<1> DEFINE excess == Ret!Excess(list)
           above == Ret!AboveFloor(list)
           ended == Ret!IsTerminal(list)
           first == Ret!Oldest(above, excess)
           rest == Ret!Oldest(ended \ first, Ret!Less(excess, Ret!Cardinality(first)))
<1>1. excess \in Nat /\ above \in SUBSET ended /\ ended \in SUBSET Ret!Runs
  BY SelectionTypes
<1>2. Ret!selectVictims(list) = Ret!InOrder(first) \o Ret!InOrder(rest)
  BY DEF Ret!selectVictims
<1>3. ~Ret!Forced(list) => excess <= Cardinality(above)
  <2>1. Cardinality(above) \in Nat
    BY <1>1, AgesAreRanks, FS_CardinalityType
  <2> HIDE DEF excess, above
  <2>2. ~(excess > Cardinality(above)) => excess <= Cardinality(above)
    BY <1>1, <2>1
  <2> QED
    BY <2>2, RunsAreCounted DEF Ret!Forced, excess, above
<1> HIDE DEF excess, above, ended
<1>4. first \in SUBSET above /\ rest \in SUBSET ended
  BY DEF Ret!Oldest
<1>5. /\ Ret!InOrder(first) \in Seq(first) /\ Ret!InOrder(rest) \in Seq(rest)
      /\ rest = {} => Ret!InOrder(rest) = <<>>
  BY <1>1, <1>4, InOrderLists
<1>6. excess <= Cardinality(above) => rest = {}
  <2>1. ASSUME excess <= Cardinality(above) PROVE Ret!Cardinality(first) = excess
    BY <1>1, <2>1, OldestAreFirst, RunsAreCounted
  <2>2. Ret!Less(excess, excess) = 0
    BY <1>1 DEF Ret!Less
  <2>3. Ret!Oldest(ended \ first, 0) = {}
    <3>1. ended \ first \in SUBSET Ret!Runs /\ 0 \in Nat
      BY <1>1
    <3> QED
      BY <3>1, OldestAreFirst
  <2> QED
    BY <2>1, <2>2, <2>3
<1> HIDE DEF first, rest
<1>7. Ret!InOrder(first) \in Seq(above) /\ Ret!InOrder(first) \in Seq(ended) /\ Ret!InOrder(rest) \in Seq(ended)
  BY <1>1, <1>4, <1>5, SeqMonotonic
<1>8. Ret!InOrder(first) \o Ret!InOrder(rest) \in Seq(ended)
  BY <1>7
<1>9. rest = {} => Ret!InOrder(first) \o Ret!InOrder(rest) \in Seq(above)
  BY <1>5, <1>7
<1> QED
  BY <1>2, <1>3, <1>6, <1>8, <1>9 DEF above, ended

\* What the log tells of an attempt that ended it has been, and so is what the
\* cache has of it.
Told == {e \in Ret!Runs \X Ret!Phases : e[2] \in Ret!Outcomes => e[1] \in Ret!Ever(e[2])}
CacheInv == \A r \in Ret!Runs : cache[r] \in Ret!Outcomes => r \in Ret!Ever(cache[r])

\* Attempts that may be deleted: they have ended, and newer ones have as they did.
Later(o, r) == {s \in Ret!Ever(o) : s > r}
Spare ==
    {r \in Ret!Runs : \E o \in Ret!Outcomes :
        r \in Ret!Ever(o) /\ (forced \/ Cardinality(Later(o, r)) >= MinRetainedPerOutcome)}

\* What will be deleted can be spared, and so could what was, if it was not
\* mistaken for another.
RetentionInv ==
    /\ phase \in [Ret!Runs -> Ret!Phases] /\ cache \in [Ret!Runs -> Ret!Phases] /\ forced \in BOOLEAN
    /\ revived \in SUBSET Ret!Runs
    /\ log \in Seq(Told) /\ CacheInv
    /\ gone \in SUBSET (Spare \union mistaken) /\ victims \in Seq(Spare)

\* Initially there are no attempts.
LEMMA RetentionInit == Ret!Init => RetentionInv
<1> SUFFICES ASSUME Ret!Init PROVE RetentionInv
  OBVIOUS
<1>1. /\ phase \in [Ret!Runs -> Ret!Phases] /\ cache = phase /\ forced \in BOOLEAN
      /\ \A r \in Ret!Runs : cache[r] \notin Ret!Outcomes
  BY DEF Ret!Init, Ret!Phases, Ret!Outcomes
<1>2. log \in Seq(Told) /\ victims \in Seq(Spare) /\ gone = {} /\ revived = {}
  BY DEF Ret!Init
<1> QED
  BY <1>1, <1>2 DEF RetentionInv, CacheInv

\* Those that have had an outcome are attempts.
LEMMA EverAreRuns ==
    ASSUME RetentionInv
    PROVE  \A o : Ret!Ever(o) \in SUBSET Ret!Runs
  BY DEF RetentionInv, Ret!Ever, Ret!With

\* More that have ended spare no fewer.
LEMMA MoreAreSpare ==
    ASSUME RetentionAssumption, NEW r, NEW S \in SUBSET Ret!Runs, NEW T \in SUBSET S,
           Cardinality({s \in T : s > r}) >= MinRetainedPerOutcome
    PROVE  Cardinality({s \in S : s > r}) >= MinRetainedPerOutcome
<1> DEFINE A == {s \in T : s > r}
           B == {s \in S : s > r}
<1>1. A \in SUBSET B /\ B \in SUBSET Ret!Runs
  OBVIOUS
<1>2. IsFiniteSet(B)
  BY <1>1, AgesAreRanks
<1> HIDE DEF A, B
<1>3. Cardinality(A) <= Cardinality(B) /\ Cardinality(A) \in Nat /\ Cardinality(B) \in Nat
  BY <1>1, <1>2, FS_Subset, FS_CardinalityType
<1>4. MinRetainedPerOutcome \in Nat /\ Cardinality(A) >= MinRetainedPerOutcome
  BY DEF RetentionAssumption, A
<1> QED
  BY <1>3, <1>4 DEF B

\* What is spared by a list that is behind is spare.
LEMMA SelectedAreSpare ==
    ASSUME RetentionAssumption, RetentionInv
    PROVE  /\ \A r \in Ret!IsTerminal(cache) : r \in Ret!Runs /\ \E o \in Ret!Outcomes : r \in Ret!Ever(o)
           /\ Ret!AboveFloor(cache) \in SUBSET Spare
<1>1. ASSUME NEW r \in Ret!IsTerminal(cache)
      PROVE  r \in Ret!Runs /\ cache[r] \in Ret!Outcomes /\ r \in Ret!Ever(cache[r])
  BY DEF RetentionInv, CacheInv, Ret!IsTerminal
<1>2. ASSUME NEW r \in Ret!AboveFloor(cache) PROVE r \in Spare
  <2>1. r \in Ret!IsTerminal(cache) /\ Cardinality(Newer(cache, r)) >= MinRetainedPerOutcome
    BY SelectionTypes DEF RetentionInv
  <2> DEFINE o == cache[r]
             T == {s \in Ret!Runs : cache[s] = o}
             S == Ret!Ever(o)
  <2>2. r \in Ret!Runs /\ o \in Ret!Outcomes /\ r \in S /\ S \in SUBSET Ret!Runs
    BY <1>1, <2>1, EverAreRuns
  <2>3. T \in SUBSET S
    BY <2>2 DEF RetentionInv, CacheInv
  <2>4. Newer(cache, r) = {s \in T : s > r}
    BY DEF Newer
  <2> HIDE DEF S, T, o
  <2>5. Cardinality({s \in S : s > r}) >= MinRetainedPerOutcome
    BY <2>1, <2>2, <2>3, <2>4, MoreAreSpare
  <2> QED
    BY <2>2, <2>5 DEF Spare, Later, S
<1> QED
  BY <1>1, <1>2

\* When no attempt loses an outcome it has had, what was known stays true.
LEMMA KnownStays ==
    ASSUME RetentionAssumption, RetentionInv, phase' \in [Ret!Runs -> Ret!Phases],
           revived' \in SUBSET Ret!Runs, forced => forced',
           \A o \in Ret!Outcomes : Ret!Ever(o) \subseteq Ret!Ever(o)'
    PROVE  Told \subseteq Told' /\ Spare \subseteq Spare' /\ (cache' = cache => CacheInv')
<1>1. Told \subseteq Told'
  BY DEF Told
<1>2. cache' = cache => CacheInv'
  BY DEF RetentionInv, CacheInv
<1>3. ASSUME NEW r \in Spare PROVE r \in Spare'
  <2>1. r \in Ret!Runs
    BY DEF Spare
  <2>2. PICK o \in Ret!Outcomes :
          r \in Ret!Ever(o) /\ (forced \/ Cardinality(Later(o, r)) >= MinRetainedPerOutcome)
    BY DEF Spare
  <2> DEFINE T == Ret!Ever(o)
             S == Ret!Ever(o)'
  <2>3. T \in SUBSET S /\ S \in SUBSET Ret!Runs
    BY DEF Ret!Ever, Ret!With
  <2>4. Later(o, r) = {s \in T : s > r} /\ Later(o, r)' = {s \in S : s > r}
    BY DEF Later
  <2>5. r \in S
    BY <2>2, <2>3
  <2> HIDE DEF S, T
  <2>6. ~forced => Cardinality(Later(o, r)') >= MinRetainedPerOutcome
    BY <2>2, <2>3, <2>4, MoreAreSpare
  <2>7. r \in Ret!Ever(o)' /\ (forced' \/ Cardinality(Later(o, r)') >= MinRetainedPerOutcome)
    BY <2>5, <2>6 DEF S
  <2> QED
    BY <2>1, <2>2, <2>7 DEF Spare
<1> QED
  BY <1>1, <1>2, <1>3

\* An attempt that goes on takes nothing from what is known of the others.
LEMMA ChangeKeeps ==
    ASSUME RetentionAssumption, RetentionInv, NEW r \in Ret!Runs, NEW p \in Ret!Phases,
           Ret!Change(r, p),
           \/ phase[r] \notin Ret!Outcomes /\ revived' = revived
           \/ phase[r] = "Superseded" /\ revived' = revived \union {r}
    PROVE  RetentionInv'
<1>1. /\ phase' = [phase EXCEPT ![r] = p] /\ log' = Append(log, <<r, p>>)
      /\ UNCHANGED <<gone, mistaken, cache, victims, forced>>
  BY DEF Ret!Change
<1>2. /\ phase' \in [Ret!Runs -> Ret!Phases] /\ phase'[r] = p
      /\ \A s \in Ret!Runs : s # r => phase'[s] = phase[s]
      /\ revived' \in SUBSET Ret!Runs /\ revived \subseteq revived'
  BY <1>1 DEF RetentionInv
<1>3. ASSUME NEW o \in Ret!Outcomes, NEW s \in Ret!Ever(o) PROVE s \in Ret!Ever(o)'
  <2>1. CASE s \in Ret!With(phase, o) /\ s # r
    BY <1>2, <2>1 DEF Ret!Ever, Ret!With
  <2>2. CASE s \in Ret!With(phase, o) /\ s = r
    <3>1. o = "Superseded" /\ r \in revived'
      BY <2>2 DEF Ret!With
    <3> QED
      BY <2>2, <3>1 DEF Ret!Ever
  <2>3. CASE s \notin Ret!With(phase, o)
    BY <1>2, <2>3 DEF Ret!Ever
  <2> QED
    BY <2>1, <2>2, <2>3
<1>4. Told \subseteq Told' /\ Spare \subseteq Spare' /\ CacheInv'
  BY <1>1, <1>2, <1>3, KnownStays
<1>5. <<r, p>> \in Told'
  BY <1>2 DEF Told, Ret!Ever, Ret!With
<1>6. log' \in Seq(Told')
  <2>1. log \in Seq(Told')
    BY <1>4, SeqMonotonic DEF RetentionInv
  <2> QED
    BY <1>1, <1>5, <2>1
<1>7. gone' \in SUBSET (Spare' \union mistaken') /\ victims' \in Seq(Spare')
  BY <1>1, <1>4, SeqMonotonic DEF RetentionInv
<1> QED
  BY <1>1, <1>2, <1>4, <1>6, <1>7 DEF RetentionInv

\* Every step keeps it.
LEMMA RetentionStep ==
    ASSUME RetentionAssumption, RetentionInv, [Ret!Next]_(Ret!vars)
    PROVE  RetentionInv'
<1>1. CASE Ret!reconcile
  <2> DEFINE all == Ret!selectVictims(cache)
             n == Ret!Min({Len(all), MaxDeletesPerReconcile})
  <2>1. /\ victims' = SubSeq(all, 1, n) /\ forced' = (forced \/ Ret!Forced(cache))
        /\ UNCHANGED <<phase, name, gone, revived, mistaken, log, cache>>
    BY <1>1 DEF Ret!reconcile
  <2>2. \A o : Ret!Ever(o)' = Ret!Ever(o)
    BY <2>1 DEF Ret!Ever, Ret!With
  <2>3. Told \subseteq Told' /\ Spare \subseteq Spare' /\ CacheInv'
    BY <2>1, <2>2, KnownStays DEF RetentionInv
  <2>4. all \in Seq(Spare')
    <3>1. /\ all \in Seq(Ret!IsTerminal(cache))
          /\ ~Ret!Forced(cache) => all \in Seq(Ret!AboveFloor(cache))
      BY VictimsHaveEnded DEF RetentionInv
    <3>2. CASE forced'
      <4>1. Ret!IsTerminal(cache) \subseteq Spare'
        BY <2>2, <3>2, SelectedAreSpare DEF Spare
      <4> QED
        BY <3>1, <4>1, SeqMonotonic
    <3>3. CASE ~forced'
      <4>1. Ret!AboveFloor(cache) \subseteq Spare'
        BY <2>3, SelectedAreSpare
      <4> QED
        BY <2>1, <3>1, <3>3, <4>1, SeqMonotonic
    <3> QED
      BY <3>2, <3>3
  <2>5. n \in Nat /\ n <= Len(all)
    <3>1. PICK a \in Nat, b \in Nat : a = Len(all) /\ b = MaxDeletesPerReconcile
      BY <2>4 DEF RetentionAssumption
    <3>2. Ret!Min({a, b}) = IF a <= b THEN a ELSE b
      BY DEF Ret!Min
    <3> QED
      BY <3>1, <3>2
  <2> HIDE DEF all, n
  <2>6. victims' \in Seq(Spare')
    BY <2>1, <2>4, <2>5
  <2>7. log' \in Seq(Told')
    BY <2>1, <2>3, SeqMonotonic DEF RetentionInv
  <2> QED
    BY <2>1, <2>3, <2>6, <2>7 DEF RetentionInv
<1>2. CASE Ret!deleteVictim
  <2>1. victims # <<>> /\ UNCHANGED <<phase, name, revived, cache, forced>>
    BY <1>2 DEF Ret!deleteVictim
  <2>2. \A o : Ret!Ever(o)' = Ret!Ever(o)
    BY <2>1 DEF Ret!Ever, Ret!With
  <2>3. Told' = Told /\ CacheInv' = CacheInv /\ Spare' = Spare
    BY <2>1, <2>2 DEF Told, CacheInv, Spare, Later
  <2>4. Head(victims) \in Spare /\ Tail(victims) \in Seq(Spare) /\ <<>> \in Seq(Spare)
    BY <2>1 DEF RetentionInv
  <2>5. victims' \in Seq(Spare)
    BY <1>2, <2>4 DEF Ret!deleteVictim
  <2>6. \/ UNCHANGED <<gone, mistaken, log>>
        \/ \E s \in Ret!Runs : Ret!Deleted(Head(victims), s)
    BY <1>2 DEF Ret!deleteVictim, Ret!Holder
  <2>7. gone' \in SUBSET (Spare \union mistaken') /\ log' \in Seq(Told)
    <3>1. CASE UNCHANGED <<gone, mistaken, log>>
      BY <3>1 DEF RetentionInv
    <3>2. ASSUME NEW s \in Ret!Runs, Ret!Deleted(Head(victims), s)
          PROVE  gone' \in SUBSET (Spare \union mistaken') /\ log' \in Seq(Told)
      <4>1. /\ gone' = gone \union {s} /\ log' = Append(log, <<s, "none">>)
            /\ mistaken' = IF s = Head(victims) THEN mistaken ELSE mistaken \union {s}
        BY <3>2 DEF Ret!Deleted
      <4>2. PICK e \in Told : e = <<s, "none">>
        BY DEF Told, Ret!Phases, Ret!Outcomes
      <4>3. Append(log, e) \in Seq(Told)
        BY DEF RetentionInv
      <4>4. gone' \in SUBSET (Spare \union mistaken')
        BY <2>4, <4>1 DEF RetentionInv
      <4> QED
        BY <4>1, <4>2, <4>3, <4>4
    <3> QED
      BY <2>6, <3>1, <3>2
  <2> QED
    BY <2>1, <2>3, <2>5, <2>7 DEF RetentionInv
<1>3. CASE Ret!stampAttempt
  <2>1. PICK r \in Ret!Runs : phase[r] = "none" /\ Ret!Change(r, "active") /\ revived' = revived
    BY <1>3 DEF Ret!stampAttempt
  <2> QED
    BY <2>1, ChangeKeeps DEF Ret!Phases, Ret!Outcomes
<1>4. CASE Ret!finishAttempt
  <2>1. PICK r \in Ret!Runs, o \in Ret!Outcomes :
          phase[r] = "active" /\ Ret!Change(r, o) /\ revived' = revived
    BY <1>4 DEF Ret!finishAttempt
  <2> QED
    BY <2>1, ChangeKeeps DEF Ret!Phases, Ret!Outcomes
<1>5. CASE Ret!restartAttempt
  <2>1. PICK r \in Ret!Runs :
          phase[r] = "Superseded" /\ Ret!Change(r, "active") /\ revived' = revived \union {r}
    BY <1>5 DEF Ret!restartAttempt
  <2> QED
    BY <2>1, ChangeKeeps DEF Ret!Phases
<1>6. CASE Ret!syncRuns
  <2>1. /\ log # <<>> /\ cache' = [cache EXCEPT ![Head(log)[1]] = Head(log)[2]] /\ log' = Tail(log)
        /\ UNCHANGED <<phase, name, gone, revived, mistaken, victims, forced>>
    BY <1>6 DEF Ret!syncRuns
  <2>2. \A o : Ret!Ever(o)' = Ret!Ever(o)
    BY <2>1 DEF Ret!Ever, Ret!With
  <2>3. Told' = Told /\ Spare' = Spare
    BY <2>1, <2>2 DEF Told, Spare, Later
  <2>4. Head(log) \in Told /\ Tail(log) \in Seq(Told)
    BY <2>1 DEF RetentionInv
  <2>5. cache' \in [Ret!Runs -> Ret!Phases] /\ CacheInv'
    BY <2>1, <2>2, <2>4 DEF RetentionInv, Told, CacheInv
  <2> QED
    BY <2>1, <2>3, <2>4, <2>5 DEF RetentionInv
<1>7. CASE UNCHANGED Ret!vars
  <2>1. UNCHANGED <<phase, name, gone, revived, mistaken, log, cache, victims, forced>>
    BY <1>7 DEF Ret!vars
  <2>2. \A o : Ret!Ever(o)' = Ret!Ever(o)
    BY <2>1 DEF Ret!Ever, Ret!With
  <2>3. Told' = Told /\ CacheInv' = CacheInv /\ Spare' = Spare
    BY <2>1, <2>2 DEF Told, CacheInv, Spare, Later
  <2> QED
    BY <2>1, <2>3 DEF RetentionInv
<1> QED
  BY <1>1, <1>2, <1>3, <1>4, <1>5, <1>6, <1>7 DEF Ret!Next

\* An attempt with enough newer ones is not among the newest.
LEMMA SpareAreOlder ==
    ASSUME RetentionAssumption, NEW S \in SUBSET Ret!Runs, NEW r \in S,
           Cardinality({s \in S : s > r}) >= MinRetainedPerOutcome
    PROVE  r \notin Ret!Newest(S)
<1>1. PICK c \in Nat, m \in Nat : c = Cardinality(S) /\ m = MinRetainedPerOutcome
  BY AgesAreRanks, FS_CardinalityType DEF RetentionAssumption
<1> DEFINE newer == {s \in S : s > r}
<1>2. PICK k \in 1..c : k = Rank(S, r) /\ Cardinality(newer) = c - k
  BY <1>1, AgesAreRanks
<1>3. Cardinality(newer) >= MinRetainedPerOutcome
  OBVIOUS
<1> HIDE DEF newer
<1>4. Ret!Less(c, m) \in Nat /\ Rank(S, r) <= Ret!Less(c, m)
  BY <1>1, <1>2, <1>3 DEF Ret!Less
<1>5. r \in Ret!Oldest(S, Ret!Less(c, m))
  <2>1. PICK n \in Nat : n = Ret!Less(c, m)
    BY <1>4
  <2>2. Ret!Oldest(S, n) = {s \in S : Rank(S, s) <= n}
    BY OldestAreFirst
  <2> QED
    BY <1>4, <2>1, <2>2
<1> QED
  BY <1>1, <1>5, RunsAreCounted DEF Ret!Newest

\* An attempt that runs is not deleted, and unless the cap is too small for the
\* floors the newest of every outcome stay, but for attempts that went on after
\* they were superseded and those that took the name of a victim that is gone:
\* for any number of attempts, limits and however far the cache is behind
\* (selectVictims).
THEOREM NewestAttemptsStay ==
    ASSUME RetentionAssumption
    PROVE  Ret!Spec => []Ret!FloorKept
<1>1. RetentionInv => Ret!FloorKept
  <2> SUFFICES ASSUME RetentionInv PROVE Ret!FloorKept
    OBVIOUS
  <2>1. ASSUME NEW r \in gone, r \notin revived \union mistaken
        PROVE  /\ phase[r] \in Ret!Outcomes
               /\ r \in Ret!Ever(phase[r])
               /\ forced \/ Cardinality(Later(phase[r], r)) >= MinRetainedPerOutcome
    <3>1. PICK o \in Ret!Outcomes :
            r \in Ret!Ever(o) /\ (forced \/ Cardinality(Later(o, r)) >= MinRetainedPerOutcome)
      BY <2>1 DEF RetentionInv, Spare
    <3>2. phase[r] = o
      BY <2>1, <3>1 DEF Ret!Ever, Ret!With
    <3> QED
      BY <3>1, <3>2
  <2>2. ASSUME ~forced, NEW o \in Ret!Outcomes, NEW r \in gone,
               r \in Ret!Newest(Ret!Ever(o)), r \notin revived \union mistaken
        PROVE  FALSE
    <3>1. r \in Ret!Ever(o) /\ Ret!Ever(o) \in SUBSET Ret!Runs
      BY <2>2, EverAreRuns DEF Ret!Newest
    <3>2. phase[r] = o
      BY <2>2, <3>1 DEF Ret!Ever, Ret!With
    <3>3. Cardinality({s \in Ret!Ever(o) : s > r}) >= MinRetainedPerOutcome
      BY <2>1, <2>2, <3>2 DEF Later
    <3> QED
      BY <2>2, <3>1, <3>3, SpareAreOlder
  <2> QED
    BY <2>1, <2>2 DEF Ret!FloorKept
<1> QED
  BY <1>1, RetentionInit, RetentionStep, PTL DEF Ret!Spec

-----------------------------------------------------------------------------
(* The planner.                                                            *)

\* Clusters are numbered, and plugins, which may be many, score with integers.
PlannerAssumption ==
    /\ Clusters \subseteq Nat /\ IsFiniteSet(Clusters) /\ IsFiniteSet(Plugins)
    /\ Scores \subseteq Int /\ MaxScore \in Nat

\* The planner counts as above.
LEMMA ClustersAreCounted == ASSUME NEW S PROVE Pl!Cardinality(S) = Cardinality(S)
  BY DEF Pl!Cardinality, Cardinality

\* The planner adds as above.
LEMMA ScoresAreAdded == ASSUME NEW s PROVE Pl!SumFunction(s) = SumFunction(s)
  BY Zenon DEF SumFunction, SumFunctionOnSet, FoldFunctionOnSet, MapThenFoldSet,
               Pl!SumFunction, Pl!SumFunctionOnSet, Pl!FoldFunctionOnSet, Pl!MapThenFoldSet

\* A score that is clamped lies between 0 and MaxScore, and is no other if it
\* does.
LEMMA Clamped ==
    ASSUME PlannerAssumption, NEW n \in Int
    PROVE  /\ Pl!Max({0, n}) = IF n >= 0 THEN n ELSE 0
           /\ Pl!clampScore(n) = IF n < 0 THEN 0 ELSE IF n > MaxScore THEN MaxScore ELSE n
<1>1. ASSUME NEW a \in Int, NEW b \in Int
      PROVE  /\ Pl!Max({a, b}) = IF a >= b THEN a ELSE b
             /\ Pl!Min({a, b}) = IF a <= b THEN a ELSE b
  BY <1>1 DEF Pl!Max, Pl!Min
<1>2. MaxScore \in Nat /\ MaxScore \in Int /\ 0 \in Int
  BY DEF PlannerAssumption
<1>3. Pl!Max({0, n}) = IF n >= 0 THEN n ELSE 0
  BY <1>1, <1>2
<1>4. PICK m \in Int : m = Pl!Min({n, MaxScore}) /\ m = IF n <= MaxScore THEN n ELSE MaxScore
  BY <1>1, <1>2
<1>5. Pl!Max({0, m}) = IF 0 >= m THEN 0 ELSE m
  BY <1>1, <1>2
<1>6. Pl!clampScore(n) = IF 0 >= m THEN 0 ELSE m
  BY <1>4, <1>5 DEF Pl!clampScore
<1> QED
  BY <1>2, <1>3, <1>4, <1>6

\* The sum of the scores as they are, and that of what is left of them when
\* each and the sum are clamped: below MaxScore they are the same.
LEMMA SumsMeet ==
    ASSUME PlannerAssumption, NEW D, IsFiniteSet(D), NEW f \in [D -> Int]
    PROVE  LET plain   == SumFunction([p \in D |-> Pl!Max({0, f[p]})])
               clamped == Pl!clampScore(SumFunction([p \in D |-> Pl!clampScore(f[p])]))
           IN  /\ plain \in Int /\ clamped \in Int
               /\ plain < MaxScore \/ clamped < MaxScore => plain = clamped
<1> DEFINE g == [p \in D |-> Pl!clampScore(f[p])]
           h == [p \in D |-> Pl!Max({0, f[p]})]
           plain == SumFunction(h)
           sum == SumFunction(g)
           clamped == Pl!clampScore(sum)
<1>1. PICK most \in Nat : most = MaxScore
  BY DEF PlannerAssumption
<1>2. ASSUME NEW p \in D
      PROVE  /\ g[p] \in Int /\ h[p] \in Int /\ g[p] >= 0 /\ h[p] >= 0
             /\ h[p] < most \/ g[p] < most => g[p] = h[p]
  <2>1. PICK n \in Int : n = f[p]
    OBVIOUS
  <2>2. g[p] = (IF n < 0 THEN 0 ELSE IF n > most THEN most ELSE n) /\ h[p] = IF n >= 0 THEN n ELSE 0
    BY <1>1, <2>1, Clamped
  <2> HIDE DEF g, h
  <2> QED
    BY <2>2
<1>3. DOMAIN g = D /\ DOMAIN h = D /\ g = [p \in D |-> g[p]] /\ h = [p \in D |-> h[p]]
  OBVIOUS
<1> SUFFICES plain \in Int /\ clamped \in Int /\ (plain < most \/ clamped < most => plain = clamped)
  BY <1>1
<1> HIDE DEF g, h
<1>4. g \in [D -> Int] /\ h \in [D -> Int]
  BY <1>2, <1>3
<1>5. /\ plain \in Int /\ plain >= 0 /\ \A p \in D : h[p] <= plain
      /\ sum \in Int /\ sum >= 0 /\ \A p \in D : g[p] <= sum
  BY <1>2, <1>4, SumIsInt
<1>6. clamped = IF sum > most THEN most ELSE sum
  <2>1. PICK k \in Int : k = sum
    BY <1>5
  <2>2. Pl!clampScore(k) = IF k < 0 THEN 0 ELSE IF k > MaxScore THEN MaxScore ELSE k
    BY Clamped
  <2>3. k >= 0
    BY <1>5, <2>1
  <2>4. Pl!clampScore(k) = IF k > most THEN most ELSE k
    BY <1>1, <2>2, <2>3
  <2> QED
    BY <2>1, <2>4
<1>7. ASSUME plain < most PROVE g = h
  <2>1. ASSUME NEW p \in D PROVE g[p] = h[p]
    <3>1. h[p] <= plain /\ plain \in Int /\ h[p] \in Int
      BY <1>2, <1>5
    <3>2. h[p] < most
      BY <1>7, <3>1
    <3> QED
      BY <1>2, <3>2
  <2> QED
    BY <1>3, <2>1
<1>8. ASSUME clamped < most PROVE g = h
  <2>1. sum < most
    BY <1>5, <1>6, <1>8
  <2>2. ASSUME NEW p \in D PROVE g[p] = h[p]
    <3>1. g[p] <= sum /\ sum \in Int /\ g[p] \in Int
      BY <1>2, <1>5
    <3>2. g[p] < most
      BY <2>1, <3>1
    <3> QED
      BY <1>2, <3>2
  <2> QED
    BY <1>3, <2>2
<1> QED
  BY <1>5, <1>6, <1>7, <1>8

\* What a plan says: all that is admitted, and who comes before whom.
PlanOf(listed, answer, plan) ==
    LET total(c) == SumFunction([p \in DOMAIN answer |-> Pl!Max({0, answer[p].score[c]})])
    IN  /\ {plan[i] : i \in DOMAIN plan} =
              {c \in DOMAIN listed : listed[c] = "ok" /\ \A p \in DOMAIN answer : c \notin answer[p].refused}
        /\ \A i, j \in DOMAIN plan : i < j /\ total(plan[i]) < total(plan[j]) => total(plan[i]) >= MaxScore

\* The answers of a cycle are about the clusters it has listed.
CycleInv ==
    /\ cycle = [pc |-> cycle.pc, listed |-> cycle.listed, plugins |-> cycle.plugins,
                answer |-> cycle.answer, plan |-> cycle.plan, phase |-> cycle.phase]
    /\ DOMAIN cycle.listed \subseteq Clusters /\ cycle.plugins \subseteq Plugins
    /\ DOMAIN cycle.answer \subseteq cycle.plugins
    /\ \A p \in DOMAIN cycle.answer : cycle.answer[p].score \in [DOMAIN cycle.listed -> Scores]

\* A plan is made of the answers of its cycle.
PlannerInv ==
    /\ plugins \subseteq Plugins
    /\ cycle.pc = "plan" => CycleInv
    /\ Pl!PlanIsAgreed

\* The order of a cycle's clusters.
Preference == {e \in Clusters \X Clusters : Pl!Before(e[1], e[2])}

\* Totals and names put the clusters in an order.
LEMMA PreferenceIsOrder ==
    ASSUME PlannerAssumption, CycleInv, DOMAIN cycle.answer = cycle.plugins,
           NEW S \in SUBSET DOMAIN cycle.listed
    PROVE  /\ IsFiniteSet(S) /\ IsOrder(Preference, S)
           /\ \A c, d \in S : <<c, d>> \in Preference <=> Pl!Before(c, d)
           /\ \A c \in S : Pl!Total(c) \in Int
<1>1. S \in SUBSET Clusters /\ IsFiniteSet(S) /\ \A c \in S : c \in Nat
  <2>1. S \in SUBSET Clusters
    BY DEF CycleInv
  <2> QED
    BY <2>1, FS_Subset DEF PlannerAssumption
<1>2. ASSUME NEW c \in S PROVE Pl!Total(c) \in Int
  <2> DEFINE D == DOMAIN cycle.answer
             f == [p \in D |-> cycle.answer[p].score[c]]
  <2>1. f \in [D -> Int] /\ IsFiniteSet(D)
    <3>1. IsFiniteSet(D)
      BY FS_Subset DEF CycleInv, PlannerAssumption
    <3>2. \A p \in D : cycle.answer[p].score[c] \in Int
      BY DEF CycleInv, PlannerAssumption
    <3> QED
      BY <3>1, <3>2
  <2>2. Pl!clampScore(SumFunction([p \in D |-> Pl!clampScore(f[p])])) \in Int
    BY <2>1, SumsMeet
  <2>3. [p \in D |-> Pl!clampScore(f[p])] = [p \in D |-> Pl!clampScore(cycle.answer[p].score[c])]
    OBVIOUS
  <2>4. Pl!Total(c) = Pl!clampScore(SumFunction([p \in D |-> Pl!clampScore(cycle.answer[p].score[c])]))
    BY ScoresAreAdded DEF Pl!Total, Pl!snapshot
  <2> HIDE DEF D, f
  <2> QED
    BY <2>2, <2>3, <2>4
<1>3. \A c, d \in S : <<c, d>> \in Preference <=> Pl!Before(c, d)
  BY <1>1 DEF Preference
<1>4. \A c, d \in S : Pl!Before(c, d) <=> Pl!Total(c) > Pl!Total(d) \/ (Pl!Total(c) = Pl!Total(d) /\ c < d)
  BY DEF Pl!Before
<1>5. IsOrder(Preference, S)
  BY <1>1, <1>2, <1>3, <1>4 DEF IsOrder
<1> QED
  BY <1>1, <1>2, <1>3, <1>5

\* InOrder lists each cluster at its rank.
LEMMA InOrderRanks ==
    ASSUME PlannerAssumption, CycleInv, DOMAIN cycle.answer = cycle.plugins,
           NEW S \in SUBSET DOMAIN cycle.listed
    PROVE  LET plan == Pl!InOrder(S)
           IN  /\ DOMAIN plan = 1..Cardinality(S) /\ Cardinality(S) \in Nat
               /\ {plan[i] : i \in DOMAIN plan} = S
               /\ \A i, j \in DOMAIN plan : i < j => Pl!Total(plan[i]) >= Pl!Total(plan[j])
<1> DEFINE plan == Pl!InOrder(S)
           rank(c) == Cardinality(UpTo(Preference, S, c))
<1>1. /\ IsFiniteSet(S) /\ IsOrder(Preference, S)
      /\ \A c, d \in S : <<c, d>> \in Preference <=> Pl!Before(c, d)
      /\ \A c \in S : Pl!Total(c) \in Int
  BY PreferenceIsOrder
<1>2. PICK n \in Nat : n = Cardinality(S)
  BY <1>1, FS_CardinalityType
<1>3. ASSUME NEW c \in S PROVE Pl!Cardinality({d \in S : d = c \/ Pl!Before(d, c)}) = rank(c)
  <2>1. {d \in S : d = c \/ Pl!Before(d, c)} = UpTo(Preference, S, c)
    BY <1>1 DEF UpTo
  <2> QED
    BY <2>1, ClustersAreCounted
<1>4. plan = [i \in 1..n |-> CHOOSE c \in S : Pl!Cardinality({d \in S : d = c \/ Pl!Before(d, c)}) = i]
  BY <1>2, ClustersAreCounted DEF Pl!InOrder
<1>5. /\ \A c, d \in S : rank(c) = rank(d) => c = d
      /\ \A i \in 1..n : \E c \in S : rank(c) = i
      /\ \A c \in S : rank(c) \in 1..n
      /\ \A c, d \in S : <<c, d>> \in Preference => rank(c) < rank(d)
  BY <1>1, <1>2, RanksAreTaken, RanksGrow
<1> HIDE DEF rank
<1>6. ASSUME NEW i \in 1..n PROVE plan[i] \in S /\ rank(plan[i]) = i
  <2>1. PICK c \in S : rank(c) = i
    BY <1>5
  <2>2. \E d \in S : Pl!Cardinality({e \in S : e = d \/ Pl!Before(e, d)}) = i
    BY <1>3, <2>1
  <2>3. plan[i] \in S /\ Pl!Cardinality({e \in S : e = plan[i] \/ Pl!Before(e, plan[i])}) = i
    BY <1>4, <2>2
  <2> QED
    BY <1>3, <2>3
<1>7. DOMAIN plan = 1..n
  BY <1>4
<1> HIDE DEF plan
<1>8. {plan[i] : i \in DOMAIN plan} = S
  <2>1. ASSUME NEW c \in S PROVE \E i \in 1..n : plan[i] = c
    BY <1>5, <1>6
  <2> QED
    BY <1>6, <1>7, <2>1
<1>9. ASSUME NEW i \in 1..n, NEW j \in 1..n, i < j PROVE Pl!Total(plan[i]) >= Pl!Total(plan[j])
  <2>1. PICK c \in S, d \in S : c = plan[i] /\ d = plan[j] /\ rank(c) = i /\ rank(d) = j
    BY <1>6
  <2>2. ~(rank(d) < rank(c)) /\ c # d
    BY <1>9, <2>1
  <2>3. ~(<<d, c>> \in Preference)
    BY <1>5, <2>2
  <2>4. <<c, d>> \in Preference
    BY <1>1, <2>2, <2>3 DEF IsOrder
  <2>5. Pl!Before(c, d) /\ Pl!Total(c) \in Int /\ Pl!Total(d) \in Int
    BY <1>1, <2>4
  <2>6. Pl!Total(c) >= Pl!Total(d)
    BY <2>5 DEF Pl!Before
  <2> QED
    BY <2>1, <2>6
<1> QED
  BY <1>2, <1>7, <1>8, <1>9 DEF plan

\* A plan is as it was agreed on.
LEMMA PlanAgrees ==
    ASSUME PlannerAssumption, CycleInv, DOMAIN cycle.answer = cycle.plugins
    PROVE  PlanOf(cycle.listed, cycle.answer, Pl!InOrder({c \in DOMAIN cycle.listed : Pl!Filter(c)}))
<1> DEFINE S == {c \in DOMAIN cycle.listed : Pl!Filter(c)}
           plan == Pl!InOrder(S)
           D == DOMAIN cycle.answer
           total(c) == SumFunction([p \in D |-> Pl!Max({0, cycle.answer[p].score[c]})])
<1>1. S = {c \in DOMAIN cycle.listed :
              cycle.listed[c] = "ok" /\ \A p \in D : c \notin cycle.answer[p].refused}
  BY DEF Pl!Filter, Pl!snapshot
<1>2. S \in SUBSET DOMAIN cycle.listed
  OBVIOUS
<1>3. ASSUME NEW c \in DOMAIN cycle.listed
      PROVE  /\ total(c) \in Int /\ Pl!Total(c) \in Int
             /\ total(c) < MaxScore \/ Pl!Total(c) < MaxScore => total(c) = Pl!Total(c)
  <2> DEFINE f == [p \in D |-> cycle.answer[p].score[c]]
  <2>1. f \in [D -> Int] /\ IsFiniteSet(D)
    <3>1. IsFiniteSet(D)
      BY FS_Subset DEF CycleInv, PlannerAssumption
    <3>2. \A p \in D : cycle.answer[p].score[c] \in Int
      BY DEF CycleInv, PlannerAssumption
    <3> QED
      BY <3>1, <3>2
  <2>2. /\ [p \in D |-> Pl!clampScore(f[p])] = [p \in D |-> Pl!clampScore(cycle.answer[p].score[c])]
        /\ [p \in D |-> Pl!Max({0, f[p]})] = [p \in D |-> Pl!Max({0, cycle.answer[p].score[c]})]
    OBVIOUS
  <2>3. Pl!Total(c) = Pl!clampScore(SumFunction([p \in D |-> Pl!clampScore(cycle.answer[p].score[c])]))
    BY ScoresAreAdded DEF Pl!Total, Pl!snapshot
  <2>4. total(c) = SumFunction([p \in D |-> Pl!Max({0, f[p]})])
    BY <2>2
  <2>5. Pl!Total(c) = Pl!clampScore(SumFunction([p \in D |-> Pl!clampScore(f[p])]))
    BY <2>2, <2>3
  <2> HIDE DEF D, f, total
  <2>6. LET plain   == SumFunction([p \in D |-> Pl!Max({0, f[p]})])
            clamped == Pl!clampScore(SumFunction([p \in D |-> Pl!clampScore(f[p])]))
        IN  /\ plain \in Int /\ clamped \in Int
            /\ plain < MaxScore \/ clamped < MaxScore => plain = clamped
    BY <2>1, SumsMeet
  <2> QED
    BY <2>4, <2>5, <2>6
<1> HIDE DEF S
<1>4. /\ DOMAIN plan = 1..Cardinality(S) /\ Cardinality(S) \in Nat
      /\ {plan[i] : i \in DOMAIN plan} = S
      /\ \A i, j \in DOMAIN plan : i < j => Pl!Total(plan[i]) >= Pl!Total(plan[j])
  BY <1>2, InOrderRanks
<1> HIDE DEF plan, total
<1>5. ASSUME NEW i \in DOMAIN plan, NEW j \in DOMAIN plan, i < j, total(plan[i]) < total(plan[j])
      PROVE  total(plan[i]) >= MaxScore
  <2>1. plan[i] \in DOMAIN cycle.listed /\ plan[j] \in DOMAIN cycle.listed
    BY <1>2, <1>4
  <2>2. PICK a \in Int, b \in Int, x \in Int, y \in Int, most \in Nat :
          /\ a = total(plan[i]) /\ b = total(plan[j]) /\ x = Pl!Total(plan[i]) /\ y = Pl!Total(plan[j])
          /\ most = MaxScore
    BY <1>3, <2>1 DEF PlannerAssumption
  <2>3. (a < most \/ x < most => a = x) /\ (b < most \/ y < most => b = y) /\ x >= y /\ a < b
    BY <1>3, <1>4, <1>5, <2>1, <2>2
  <2>4. a >= most
    BY <2>3
  <2> QED
    BY <2>2, <2>4
<1> QED
  BY <1>1, <1>4, <1>5 DEF PlanOf, S, plan, total

\* Every step keeps the invariant.
LEMMA PlannerStep ==
    ASSUME PlannerAssumption, PlannerInv, [Pl!Next]_(Pl!vars)
    PROVE  PlannerInv'
<1>1. ASSUME UNCHANGED cycle, plugins' \subseteq Plugins PROVE PlannerInv'
  BY <1>1 DEF PlannerInv, CycleInv, Pl!PlanIsAgreed, Pl!Planned
<1>2. ASSUME cycle'.pc \in {"idle", "patch"}, UNCHANGED plugins PROVE PlannerInv'
  BY <1>2 DEF PlannerInv, Pl!PlanIsAgreed
<1>3. CASE Pl!listRawTargets
  <2>1. plugins' = plugins /\ cycle' = [Pl!Idle EXCEPT !.pc = "plan", !.plugins = plugins,
          !.listed = [c \in {d \in Clusters : cluster[d] # "suspended"} |-> cluster[c]]]
    BY <1>3 DEF Pl!listRawTargets
  <2>2. cycle'.pc = "plan" /\ CycleInv'
    BY <2>1 DEF Pl!Idle, CycleInv, PlannerInv
  <2> QED
    BY <2>1, <2>2 DEF PlannerInv, Pl!PlanIsAgreed
<1>4. ASSUME NEW p \in Plugins, Pl!PreFilter(p) PROVE PlannerInv'
  <2>1. /\ cycle.pc = "plan" /\ p \in cycle.plugins /\ UNCHANGED plugins /\ CycleInv
        /\ \E a \in [refused : SUBSET DOMAIN cycle.listed, score : [DOMAIN cycle.listed -> Scores]] :
             cycle' = [cycle EXCEPT !.answer = [q \in DOMAIN @ \union {p} |->
                                                  IF q = p THEN a ELSE cycle.answer[q]]]
    BY <1>4 DEF Pl!PreFilter, PlannerInv
  <2>2. PICK a \in [refused : SUBSET DOMAIN cycle.listed, score : [DOMAIN cycle.listed -> Scores]] :
             cycle' = [cycle EXCEPT !.answer = [q \in DOMAIN @ \union {p} |->
                                                  IF q = p THEN a ELSE cycle.answer[q]]]
    BY <2>1
  <2> DEFINE more == [q \in DOMAIN cycle.answer \union {p} |-> IF q = p THEN a ELSE cycle.answer[q]]
  <2>3. cycle' = [cycle EXCEPT !.answer = more]
    BY <2>2
  <2>4. \A q \in DOMAIN more : more[q].score \in [DOMAIN cycle.listed -> Scores]
    BY <2>1, <2>2 DEF CycleInv
  <2>5. DOMAIN more \subseteq cycle.plugins
    BY <2>1 DEF CycleInv
  <2> HIDE DEF more
  <2>6. cycle' = [pc |-> cycle.pc, listed |-> cycle.listed, plugins |-> cycle.plugins,
                  answer |-> more, plan |-> cycle.plan, phase |-> cycle.phase]
    BY <2>1, <2>3 DEF CycleInv
  <2>7. cycle'.pc = "plan" /\ CycleInv'
    BY <2>1, <2>4, <2>5, <2>6 DEF CycleInv
  <2> QED
    BY <2>1, <2>7 DEF PlannerInv, Pl!PlanIsAgreed
<1>5. CASE Pl!PlanWithResult
  <2> DEFINE plan == Pl!InOrder({c \in DOMAIN cycle.listed : Pl!Filter(c)})
  <2>1. /\ cycle.pc = "plan" /\ DOMAIN cycle.answer = cycle.plugins /\ UNCHANGED plugins /\ CycleInv
        /\ cycle' = [cycle EXCEPT !.pc = "bind", !.plan = plan]
    BY <1>5 DEF Pl!PlanWithResult, PlannerInv
  <2>2. PlanOf(cycle.listed, cycle.answer, plan)
    BY <2>1, PlanAgrees
  <2> HIDE DEF plan
  <2>3. cycle' = [pc |-> "bind", listed |-> cycle.listed, plugins |-> cycle.plugins,
                  answer |-> cycle.answer, plan |-> plan, phase |-> cycle.phase]
    BY <2>1 DEF CycleInv
  <2>4. cycle'.pc = "bind" /\ cycle'.listed = cycle.listed /\ cycle'.answer = cycle.answer /\ cycle'.plan = plan
    BY <2>3
  <2>5. PlanOf(cycle'.listed, cycle'.answer, cycle'.plan)
    BY <2>2, <2>4
  <2>6. Pl!PlanIsAgreed'
    BY <2>5, ScoresAreAdded DEF PlanOf, Pl!PlanIsAgreed, Pl!Planned, Pl!ToSet
  <2> QED
    BY <2>1, <2>4, <2>6 DEF PlannerInv
<1>6. CASE Pl!reconcileStage
  BY <1>2, <1>6 DEF Pl!reconcileStage, Pl!Idle
<1>7. CASE Pl!patchStage \/ Pl!failReconcile
  BY <1>2, <1>7 DEF Pl!patchStage, Pl!failReconcile, Pl!Idle
<1>8. ASSUME NEW p \in Plugins, Pl!Upsert(p) \/ Pl!Unregister(p) PROVE PlannerInv'
  BY <1>1, <1>8 DEF Pl!Upsert, Pl!Unregister, PlannerInv
<1>9. ASSUME NEW c \in Clusters, Pl!reportCluster(c) \/ Pl!endTarget(c) PROVE PlannerInv'
  BY <1>1, <1>9 DEF Pl!reportCluster, Pl!endTarget, PlannerInv
<1>10. CASE UNCHANGED Pl!vars
  BY <1>1, <1>10 DEF Pl!vars, PlannerInv
<1> QED
  BY <1>3, <1>4, <1>5, <1>6, <1>7, <1>8, <1>9, <1>10 DEF Pl!Next, Pl!Reconcile

\* A plan has all that the plugins which were asked have let through, the best
\* first, for any number of clusters and plugins, any scores, and whatever
\* happens to the registry meanwhile (Framework.snapshot, PlanWithResult).
THEOREM PlansAreAgreed ==
    ASSUME PlannerAssumption
    PROVE  Pl!Spec => []Pl!PlanIsAgreed
<1>1. Pl!Init => PlannerInv
  <2> SUFFICES ASSUME Pl!Init PROVE PlannerInv
    OBVIOUS
  <2>1. plugins \subseteq Plugins /\ cycle.pc = "idle"
    BY DEF Pl!Init, Pl!Idle
  <2> QED
    BY <2>1 DEF PlannerInv, Pl!PlanIsAgreed
<1>2. PlannerInv => Pl!PlanIsAgreed
  BY DEF PlannerInv
<1> QED
  BY <1>1, <1>2, PlannerStep, PTL DEF Pl!Spec
=============================================================================

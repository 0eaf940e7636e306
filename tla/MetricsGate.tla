----------------------------- MODULE MetricsGate -----------------------------
(***************************************************************************)
(* What makes a metric of a gate pass (internal/gate/metrics.go and its    *)
(* statistics package).  The window of a range query fills with samples;   *)
(* an evaluation queries Prometheus, whose answers are arbitrary, and      *)
(* judges them by the mode of the metric's analysis.                       *)
(*                                                                         *)
(* Samples and thresholds are integers.  The arithmetic of the code on     *)
(* them is exact here: a quotient is compared by multiplying out, and the  *)
(* normal approximation of a p-value by the square of its z-value.         *)
(***************************************************************************)
EXTENDS Integers, Sequences, Functions

CONSTANTS
    Metrics,    \* the MetricGate specs
    Values,     \* what a sample or an answer can be
    MaxWindow   \* bound: samples in the window of a range query

VARIABLES
    metric,   \* the metric of the gate
    samples,  \* the samples of its window, oldest first
    result    \* the last evaluation: its phase and the answers it was based on

vars == <<metric, samples, result>>

-----------------------------------------------------------------------------
(* The configuration.                                                      *)

Modes == {"threshold", "sloBurnRate", "baseline", "sequential", "changePoint", "score"}
Comparators == {"gt", "gte", "lt", "lte"}

\* A MetricGate with its MetricAnalysisSpec: unset fields have their defaults
\* except the comparator, "" when it is not given, and the threshold, which is
\* a sequence of at most one number.
MetricGate == [mode           : Modes,
               comparator     : Comparators \cup {""},
               threshold      : Seq(Int),
               baselineQuery  : BOOLEAN,
               healthQuery    : BOOLEAN,
               minSamples     : Nat,
               maxSamples     : Nat,
               scoreThreshold : 0..100]

comparator ==
    IF metric.comparator # "" THEN metric.comparator
    ELSE IF metric.mode \in {"sloBurnRate", "baseline", "score"} THEN "lte" ELSE "gt"

threshold ==
    IF metric.threshold # <<>> THEN metric.threshold[1]
    ELSE IF metric.mode = "baseline" THEN 1 ELSE 0

minSamples ==
    IF metric.minSamples > 0 THEN metric.minSamples
    ELSE IF metric.mode = "sequential" THEN 5 ELSE 8

\* value cmp bound.
compare(value, bound) ==
    CASE comparator = "gte" -> value >= bound
      [] comparator = "lt"  -> value < bound
      [] comparator = "lte" -> value <= bound
      [] OTHER              -> value > bound

LowerIsBetter == comparator \in {"lt", "lte"}

\* What a query returns: an error, no series, or one finite value.  Several
\* series, or a value that is not finite, are errors.
Answer == [kind : {"error", "empty"}, value : {0}] \cup [kind : {"value"}, value : Values]
NoAnswer == [kind |-> "empty", value |-> 0]

\* The answers of one evaluation, of which a mode asks for those it needs.
Answers ==
    [health   : IF metric.healthQuery /\ metric.mode \in {"baseline", "score"} THEN Answer ELSE {NoAnswer},
     current  : Answer,
     baseline : IF metric.mode = "baseline" THEN Answer ELSE {NoAnswer}]

-----------------------------------------------------------------------------
(* The statistics.                                                         *)

Sum(s) == SumFunction(s)
SumOfSquares(s) == Sum([i \in DOMAIN s |-> s[i] * s[i]])

\* Len(s)^2 times the variance of the samples, which has no fraction.
Spread(s) == Len(s) * SumOfSquares(s) - Sum(s) * Sum(s)

\* z >= 1.96, which is a confidence of 0.95 and a p-value of 0.05, for a z
\* whose square is num / den.  Without spread any difference is certain.
Significant(num, den) ==
    IF den = 0 THEN num # 0 ELSE 100 * num >= 384 * den

\* OneSample: the mean of the samples against the threshold.
OneSampleConfident(s) ==
    LET d == Sum(s) - Len(s) * threshold
    IN  Significant(Len(s) * d * d, Spread(s))

Before(s) == SubSeq(s, 1, Len(s) \div 2)
After(s) == SubSeq(s, Len(s) \div 2 + 1, Len(s))

\* The difference of the means of the two halves, times both their lengths.
Shift(s) == Sum(After(s)) * Len(Before(s)) - Sum(Before(s)) * Len(After(s))

\* ChangePoint: the first half of the window against the second.
ChangeConfident(s) ==
    LET nb == Len(Before(s))
        na == Len(After(s))
        den == na * na * na * Spread(Before(s)) + nb * nb * nb * Spread(After(s))
    IN  Len(s) >= 2 /\ Significant(na * nb * Shift(s) * Shift(s), den)

changeIsRegression(s) == IF LowerIsBetter THEN Shift(s) > 0 ELSE Shift(s) < 0

\* Fault: the quotient is the same for every comparator.
ScoreOfValue(value) ==
    IF threshold = 0 THEN compare(value, 0) \/ metric.scoreThreshold = 0
    ELSE 100 * value >= metric.scoreThreshold * threshold

\* Score(value) >= scoreThreshold.  A quotient that is not finite, as for a
\* value of zero under "lte", scores 0.
ScoreSuffices(value) ==
    LET num == 100 * (IF LowerIsBetter THEN threshold ELSE value)
        den == IF LowerIsBetter THEN value ELSE threshold
        required == metric.scoreThreshold
    IN  IF threshold = 0 THEN compare(value, 0) \/ required = 0
        ELSE \/ required = 0
             \/ den > 0 /\ num >= required * den
             \/ den < 0 /\ num <= required * den

-----------------------------------------------------------------------------
(* The modes.                                                              *)

Passes(b) == IF b THEN "Passed" ELSE "Inconclusive"

evaluateInstant(a) == Passes(a.current.kind = "value" /\ compare(a.current.value, threshold))

baselineHealthy(a) == metric.healthQuery => a.health.kind = "value" /\ a.health.value > 0

\* The ratio of current value and baseline, against the threshold.
evaluateBaseline(a) ==
    IF ~metric.baselineQuery THEN "Failed"
    ELSE Passes(/\ baselineHealthy(a)
                /\ a.current.kind = "value"
                /\ a.baseline.kind = "value" /\ a.baseline.value > 0
                /\ compare(a.current.value, threshold * a.baseline.value))

evaluateScore(a) ==
    Passes(baselineHealthy(a) /\ a.current.kind = "value" /\ ScoreSuffices(a.current.value))

\* A statistical test decides once it is confident, or has seen enough.
Decided(confident) ==
    /\ Len(samples) >= minSamples
    /\ confident \/ (metric.maxSamples > 0 /\ Len(samples) >= metric.maxSamples)

\* A range query that is answered returns the window.
evaluateSequential(a) ==
    IF a.current.kind = "error" \/ ~Decided(OneSampleConfident(samples)) THEN "Inconclusive"
    ELSE IF compare(Sum(samples), Len(samples) * threshold) THEN "Passed" ELSE "Failed"

evaluateChangePoint(a) ==
    IF a.current.kind = "error" \/ ~Decided(ChangeConfident(samples)) THEN "Inconclusive"
    ELSE IF changeIsRegression(samples) THEN "Failed" ELSE "Passed"

Evaluate(a) ==
    CASE metric.mode = "baseline"    -> evaluateBaseline(a)
      [] metric.mode = "sequential"  -> evaluateSequential(a)
      [] metric.mode = "changePoint" -> evaluateChangePoint(a)
      [] metric.mode = "score"       -> evaluateScore(a)
      [] OTHER                       -> evaluateInstant(a)

-----------------------------------------------------------------------------
NoResult == [phase |-> "none", answers |-> [health |-> NoAnswer, current |-> NoAnswer,
                                            baseline |-> NoAnswer]]

Init ==
    /\ metric \in Metrics
    /\ samples = <<>>
    /\ result = NoResult

\* Prometheus scrapes the target; the window of a range query reaches back
\* over MaxWindow scrapes.
scrape ==
    /\ metric.mode \in {"sequential", "changePoint"}
    /\ \E v \in Values : samples' = IF Len(samples) < MaxWindow THEN Append(samples, v)
                                    ELSE Append(Tail(samples), v)
    /\ result' = NoResult
    /\ UNCHANGED metric

\* A reconcile evaluates the metric.
evaluate ==
    /\ \E a \in Answers : result' = [phase |-> Evaluate(a), answers |-> a]
    /\ UNCHANGED <<metric, samples>>

Next == scrape \/ evaluate
Spec == Init /\ [][Next]_vars

-----------------------------------------------------------------------------
(* Properties.                                                             *)

TypeOK ==
    /\ metric \in Metrics /\ Metrics \subseteq MetricGate
    /\ samples \in Seq(Values) /\ Len(samples) <= MaxWindow
    /\ result.phase \in {"none", "Passed", "Failed", "Inconclusive"} /\ result.answers \in Answers

InstantModes == {"threshold", "sloBurnRate", "baseline", "score"}
Better(v, w) == IF LowerIsBetter THEN v < w ELSE v > w

\* A better current value never turns a passing metric into one that blocks,
\* whatever the mode, comparator and default threshold (evaluateInstant,
\* evaluateBaseline, evaluateScore).  Score is held to it for values above
\* zero, and thresholds that are not below it: a value of zero under "lte"
\* scores 0 and blocks, and the quotient by a negative threshold is the lower
\* the higher the value is.
BetterNeverBlocks ==
    metric.mode \in InstantModes /\ result.phase = "Passed" =>
       \A v \in Values :
          Better(v, result.answers.current.value) /\ (metric.mode = "score" => v > 0 /\ threshold >= 0) =>
             Evaluate([result.answers EXCEPT !.current = [kind |-> "value", value |-> v]]) = "Passed"

\* Every sample that the test looks at is on one side.  With fewer than two
\* samples a change has none to compare, and counts as no regression.
AllBad ==
    IF metric.mode = "sequential"
    THEN \A i \in DOMAIN samples : ~compare(samples[i], threshold)
    ELSE Len(samples) >= 2 /\ \A i \in DOMAIN Before(samples), j \in DOMAIN After(samples) :
                                Better(Before(samples)[i], After(samples)[j])
AllGood ==
    IF metric.mode = "sequential"
    THEN \A i \in DOMAIN samples : compare(samples[i], threshold)
    ELSE \A i \in DOMAIN Before(samples), j \in DOMAIN After(samples) :
            ~Better(Before(samples)[i], After(samples)[j])

\* A statistical test never decides against unanimous samples, whether it is
\* confident or out of time: a window that is all bad, or got worse throughout,
\* does not pass, and one that is all good, or never got worse, does not fail
\* (evaluateSequential, evaluateChangePoint).
SamplesDecide ==
    metric.mode \in {"sequential", "changePoint"} =>
       /\ AllBad => result.phase # "Passed"
       /\ AllGood => result.phase # "Failed"
=============================================================================

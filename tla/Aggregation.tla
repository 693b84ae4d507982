----------------------------- MODULE Aggregation -----------------------------
(***************************************************************************)
(* How the oracle verifier turns the readings of a key into one value: the *)
(* outlier filter and the four aggregation methods, as pure operators on a *)
(* set of readings                                                         *)
(*     [oracle, value, weight, ts]                                         *)
(* of which no two are of one oracle.  Values have the width of i128: the  *)
(* averages saturate, and the medians and deviations panic where they      *)
(* leave it.  Weights and durations are narrower and their products and    *)
(* sums are exact.                                                         *)
(***************************************************************************)
EXTENDS Integers, SequencesExt

CONSTANTS
    MinSample, \* 3: readings below which nothing is an outlier
    Limit      \* i128::MAX

ASSUME SampleAssumption == MinSample \in Nat \ {0} /\ Limit \in Nat

Methods == {"WeightedMedian", "WeightedAverage", "Mean", "TimeWeightedAverage"}

FullOdds == 10000

OutlierConfigs == {c \in [enabled: BOOLEAN, threshold: Nat \ {0}, sample: Nat] : c.sample >= MinSample}

NoOutliers == [enabled |-> FALSE, threshold |-> 5 * FullOdds, sample |-> MinSample + 1]

-----------------------------------------------------------------------------
\* Division of i128: towards zero.
Quotient(a, b) == IF a >= 0 THEN a \div b ELSE -((-a) \div b)

Distance(a, b) == IF a >= b THEN a - b ELSE b - a

I128 == -(Limit + 1) .. Limit

\* saturating_add, saturating_sub and saturating_mul give this instead of x.
Saturated(x) == IF x > Limit THEN Limit ELSE IF x < -(Limit + 1) THEN -(Limit + 1) ELSE x

\* a.saturating_sub(b).abs(), but where that panics: there it is more than any i128.
Gap(a, b) == Distance(Saturated(a - b), 0)

TotalWeight(S) == SumFunctionOnSet([r \in S |-> r.weight], S)

\* The k-th smallest of the values of f, each as often as it occurs.
Ranked(f, k) == Min({v \in Range(f) : Cardinality({r \in DOMAIN f : f[r] <= v}) >= k})

\* The median of the values of f, whatever the weights.
PlainMedian(f) ==
    LET n == Cardinality(DOMAIN f)
    IN  IF n % 2 = 1 THEN Ranked(f, n \div 2 + 1)
        ELSE Quotient(Ranked(f, n \div 2) + Ranked(f, n \div 2 + 1), 2)

\* The two middle values are added before they are halved.
HasMedian(f) ==
    LET n == Cardinality(DOMAIN f)
    IN  n % 2 = 0 => Ranked(f, n \div 2) + Ranked(f, n \div 2 + 1) \in I128

\* The order in which filter_outliers drops readings.  Those that differ in none of
\* these are interchangeable.
Farther(r, q, deviation) ==
    \/ deviation[r] > deviation[q]
    \/ deviation[r] = deviation[q] /\ r.value < q.value
    \/ deviation[r] = deviation[q] /\ r.value = q.value /\ r.weight < q.weight

\* The k readings of S that are dropped first.
Farthest(S, k, deviation) ==
    CHOOSE D \in SUBSET S :
        Cardinality(D) = k /\ \A d \in D, r \in S \ D : ~Farther(r, d, deviation)

Deviations(S) ==
    LET middle == PlainMedian([r \in S |-> r.value])
    IN  [r \in S |-> Distance(r.value, middle)]

Filters(S, config) ==
    config.enabled /\ Cardinality(S) >= MinSample /\ Cardinality(S) >= config.sample

\* Where filter_outliers does not panic.
Filterable(S, config) ==
    Filters(S, config) =>
        /\ HasMedian([r \in S |-> r.value])
        /\ \A r \in S : Deviations(S)[r] <= Limit
        /\ HasMedian(Deviations(S))

\* filter_outliers: the readings farthest from the median go, in units of the
\* median deviation, and never so many that fewer than the sample are left.
WithoutOutliers(S, config) ==
    LET deviation == Deviations(S)
        odd == {r \in S : Saturated(deviation[r] * FullOdds)
                            > Saturated(config.threshold * PlainMedian(deviation))}
    IN  IF ~Filters(S, config) THEN S
        ELSE S \ Farthest(odd, Min({Cardinality(odd), Cardinality(S) - config.sample}), deviation)

\* The weight of the readings up to a value.
WeightUpTo(S, v) == TotalWeight({r \in S : r.value <= v})

ValuesOf(S) == {r.value : r \in S}

\* A bug: the first value at half the weight, rounded down, is taken as it is.
MedianWithoutHalves(S) ==
    Min({v \in ValuesOf(S) : WeightUpTo(S, v) >= TotalWeight(S) \div 2})

\* The first value past half the weight; at exactly half, its mean with the next.
WeightedMedian(S) ==
    LET first == Min({v \in ValuesOf(S) : 2 * WeightUpTo(S, v) >= TotalWeight(S)})
        larger == {v \in ValuesOf(S) : v > first}
    IN  IF 2 * WeightUpTo(S, first) = TotalWeight(S) /\ larger # {}
        THEN Quotient(first + Min(larger), 2)
        ELSE first

\* The readings up to half of the weight, when they have exactly half, in the order of
\* values and weights: their last value is added to the next one.
LowerHalves(S) ==
    {P \in SUBSET S :
        /\ 2 * TotalWeight(P) = TotalWeight(S)
        /\ \A p \in P, q \in S \ P : p.value < q.value \/ (p.value = q.value /\ p.weight <= q.weight)}

\* Where weighted_median does not panic.
HasWeightedMedian(S) ==
    \A P \in LowerHalves(S) : Max(ValuesOf(P)) + Min(ValuesOf(S \ P)) \in I128

\* The sum of f[1], ..., f[n] in this order, with saturating_add.
Accumulated(f, n) ==
    LET sum[i \in 0 .. n] == IF i = 0 THEN 0 ELSE Saturated(sum[i - 1] + Saturated(f[i]))
    IN  sum[n]

\* A bug: the sum is divided by the number of readings.
AveragedByCount(order, share) ==
    Quotient(Accumulated([i \in DOMAIN order |-> order[i].value * share[i]], Len(order)), Len(order))

\* The readings of a sequence, in its order, each in proportion to its share.
Averaged(order, share) ==
    Quotient(Accumulated([i \in DOMAIN order |-> order[i].value * share[i]], Len(order)),
             SumFunctionOnSet(share, DOMAIN order))

\* How long the i-th reading holds: until the next one, at least one second.
Held(order, i, now) ==
    Max({1, (IF i < Len(order) THEN order[i + 1].ts ELSE Max({now, order[i].ts})) - order[i].ts})

\* weighted_average, mean, time_weighted_average
Share(order, method, now) ==
    [i \in DOMAIN order |->
        CASE method = "WeightedAverage" -> order[i].weight
          [] method = "Mean" -> 1
          [] method = "TimeWeightedAverage" -> order[i].weight * Held(order, i, now)]

\* The orders the sums may be formed in: that of submission, which a set of readings
\* leaves open, or that of timestamps, whose ties the sort leaves open.
Orders(S, method) ==
    {order \in SetToSeqs(S) :
        method = "TimeWeightedAverage" =>
            \A i, j \in DOMAIN order : i < j => order[i].ts <= order[j].ts}

Average(order, method, now) ==
    IF method = "TimeWeightedAverage" /\ Len(order) = 1 THEN order[1].value
    ELSE Averaged(order, Share(order, method, now))

\* The values an aggregation can come to: none where it panics, several only where the
\* order matters.
Aggregates(S, method, now) ==
    IF method = "WeightedMedian" THEN {v \in {WeightedMedian(S)} : HasWeightedMedian(S)}
    ELSE {Average(order, method, now) : order \in Orders(S, method)}
=============================================================================

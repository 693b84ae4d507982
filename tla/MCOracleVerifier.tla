-------------------------- MODULE MCOracleVerifier --------------------------
(***************************************************************************)
(* The oracle verifier on a small instance: three oracles, one of them     *)
(* with as much weight as the two others.  Readings, batches, conditions   *)
(* and settings are records, which a configuration file cannot write.      *)
(***************************************************************************)
EXTENDS OracleVerifier, TLC

CONSTANTS
    Senior  \* the oracle with the greater weight

SomeWeights == [o \in Oracles |-> IF o = Senior THEN 4 ELSE 2]

TheKey == CHOOSE k \in Keys : TRUE

Reading(value, confidence, ts) == [value |-> value, confidence |-> confidence, ts |-> ts]
Keyed(value, ts) == [key |-> TheKey, value |-> value, confidence |-> 100, ts |-> ts]

SomeReadings == {Reading(-3, 100, 2), Reading(9, 50, 3)}

SameMax == [t \in DataTypes |-> MaxValue]

\* No path but submit_data_batch takes the value of the last one.
SomeBatches ==
    {<<>>, <<Keyed(4, 0)>>, <<Keyed(4, 2), Keyed(9, 3)>>, <<Keyed(1, 1), Keyed(9, 2)>>,
     <<Keyed(9, 3), Keyed(4, 2)>>, <<Keyed(Limit, 2)>>}

SomeConditions ==
    {[comparison |-> "LessThan", threshold |-> 5, tolerance |-> 0],
     [comparison |-> "EqualWithTolerance", threshold |-> 4, tolerance |-> 5]}

FirstRules ==
    [maxAge |-> 1, minConfidence |-> 0, minCount |-> 1, minInterval |-> 1, timestampAge |-> 5,
     futureBuffer |-> 1, staleThreshold |-> 2, staleSlash |-> 2, stalePenalty |-> 600]

OtherRules ==
    {[FirstRules EXCEPT !.minConfidence = 80], [FirstRules EXCEPT !.minCount = 2],
     [FirstRules EXCEPT !.staleThreshold = 1]}

HomeRules ==
    {[DefaultConfig EXCEPT !.paused = TRUE], [DefaultConfig EXCEPT !.encrypted = TRUE],
     [DefaultConfig EXCEPT !.maxAge = 2], [DefaultConfig EXCEPT !.minCount = 2],
     [DefaultConfig EXCEPT !.outliers = [enabled |-> TRUE, threshold |-> FullOdds, sample |-> MinSample]]}
    \cup {[DefaultConfig EXCEPT !.method = m] : m \in Methods \ {"WeightedMedian"}}

OtherTypeRules == [t \in DataTypes |-> IF t = Home THEN HomeRules ELSE {}]

\* Other types are not reported for before the bound is reached.
HomeCorrelations == {Home} \X (DataTypes \ {Home})

OracleSymmetry == Permutations(Oracles \ {Senior}) \cup Permutations(DataTypes \ {Home})
=============================================================================

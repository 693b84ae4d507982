--------------------------- MODULE OracleVerifier ---------------------------
(***************************************************************************)
(* Readings and verdicts: oracles submit readings of a key, one at a time  *)
(* or in batches; anybody has the readings of a key combined and compared  *)
(* with a trigger, which also scores the oracles that contributed.         *)
(*                                                                         *)
(* Abstracted: the ciphertext of encrypted readings, the lengths of symbols *)
(* and keys; MAX_DATA_POINTS (100), which the active oracles of a type     *)
(* cannot reach; regional weights, temporal decay and the confidence       *)
(* interval, which only queries read.                                      *)
(***************************************************************************)
EXTENDS OracleRegistry, Aggregation

CONSTANTS
    Keys,             \* keys of readings
    Readings,         \* [value, confidence, ts] an oracle may submit
    Batches,          \* sequences of at most two [key, value, confidence, ts]
    Conditions,       \* [comparison, threshold, tolerance] a trigger may have
    FreshAges,        \* ages a claim may ask for with verify_trigger_fresh
    FullScore,        \* 1000: best reputation score
    Scores,           \* scores the admin may set
    MaxValue,         \* MAX_DATA_VALUE
    DefaultMax,       \* DEFAULT_*_MAX of each type
    SealedAge,        \* 90 days: oldest encrypted reading accepted
    InitialRules,     \* the settings of the whole contract at the start
    GlobalRules,      \* settings of the whole contract the admin may choose
    TypeRules,        \* settings of each type the admin may choose
    Correlations,     \* pairs of types the admin may set a cross-validation rule for
    Variances,        \* variances a cross-validation rule may allow
    MaxTime,          \* bound: the last ledger timestamp
    MaxActs,          \* bound: transactions that are not settings
    MaxSettings       \* bound: settings made

Comparisons == {"LessThan", "GreaterThan", "Equal", "EqualWithTolerance"}

GlobalSettings ==
    [maxAge: Nat, minConfidence: 0..100, minCount: Nat \ {0}, minInterval: Nat,
     timestampAge: Nat, futureBuffer: Nat, staleThreshold: Nat, staleSlash: Nat,
     stalePenalty: Nat]

\* 0 for an override that is not set.
TypeSettings ==
    [paused: BOOLEAN, encrypted: BOOLEAN, maxAge: Nat, minCount: Nat, method: Methods,
     outliers: OutlierConfigs, maxValue: Nat]

ASSUME VerifierAssumption ==
    /\ Readings \subseteq [value: I128, confidence: 1..100, ts: Nat]
    /\ Batches \subseteq Seq([key: Keys, value: I128, confidence: 1..100, ts: Nat])
    /\ Conditions \subseteq [comparison: Comparisons, threshold: I128, tolerance: 0..Limit]
    /\ FreshAges \subseteq Nat
    /\ FullScore \in Nat \ {0}
    /\ Scores \subseteq 0..FullScore
    /\ MaxValue \in Nat /\ SealedAge \in Nat
    /\ DefaultMax \in [DataTypes -> Nat]
    /\ {InitialRules} \cup GlobalRules \subseteq GlobalSettings
    /\ TypeRules \in [DataTypes -> SUBSET TypeSettings]
    /\ Correlations \subseteq DataTypes \X DataTypes
    /\ Variances \subseteq 0..Limit
    /\ MaxTime \in Nat /\ MaxActs \in Nat /\ MaxSettings \in Nat

VARIABLES
    points,      \* DataPoints(data_type, key)
    sealed,      \* EncryptedDataPoints(data_type, key)
    newest,      \* LastReadingTimestamp(data_type, key, oracle)
    stale,       \* StaleCount(data_type, oracle)
    reputation,  \* Reputation(data_type, oracle)
    rules,       \* the settings of the whole contract
    config,      \* the settings of each data type
    variance,    \* CrossValidationRule(source, target).max_variance
    acts,        \* how many of the MaxActs were used
    settings     \* how many of the MaxSettings were used

readingVars == <<points, sealed, newest, stale, reputation>>
ruleVars == <<rules, config, variance>>
vars == <<oracleVars, readingVars, ruleVars, acts, settings>>

NoRule == -1
Novice == [total |-> 0, accurate |-> 0, score |-> FullScore \div 2]
DefaultConfig ==
    [paused |-> FALSE, encrypted |-> FALSE, maxAge |-> 0, minCount |-> 0,
     method |-> "WeightedMedian", outliers |-> NoOutliers, maxValue |-> 0]

Init ==
    /\ RegistryInit
    /\ points = [t \in DataTypes |-> [k \in Keys |-> {}]]
    /\ sealed = [t \in DataTypes |-> [k \in Keys |-> {}]]
    /\ newest = [t \in DataTypes |-> [k \in Keys |-> [o \in Oracles |-> Never]]]
    /\ stale = [t \in DataTypes |-> [o \in Oracles |-> 0]]
    /\ reputation = [t \in DataTypes |-> [o \in Oracles |-> Novice]]
    /\ rules = InitialRules
    /\ config = [t \in DataTypes |-> DefaultConfig]
    /\ variance = [t \in DataTypes |-> [u \in DataTypes |-> NoRule]]
    /\ acts = 0
    /\ settings = 0

-----------------------------------------------------------------------------
(* The value of a key. *)

Age(ts) == IF ts > clock THEN 0 ELSE clock - ts

MaxAge(t) == IF config[t].maxAge > 0 THEN config[t].maxAge ELSE rules.maxAge

MinCount(t) == IF config[t].minCount > 0 THEN config[t].minCount ELSE rules.minCount

\* The readings young and confident enough, of oracles still registered.
Fresh(t, S) ==
    {p \in S : Age(p.ts) <= MaxAge(t) /\ p.confidence >= rules.minConfidence /\ Active(t, p.oracle)}

Eligible(t, S) == {p \in Fresh(t, S) : ~Offline(t, p.oracle)}

\* get_effective_weight
EffectiveWeight(t, o) ==
    Max({1, (entry[t][o].weight * reputation[t][o].score) \div FullScore})

RegisteredWeight(t, o) == entry[t][o].weight

Weighted(t, S, weight(_, _)) ==
    {[oracle |-> p.oracle, value |-> p.value, ts |-> p.ts, weight |-> weight(t, p.oracle)] : p \in S}

\* The readings an aggregation combines, with their weights: none where the filter panics.
Sample(t, S, weight(_, _)) ==
    LET weighted == Weighted(t, Eligible(t, S), weight)
    IN  IF Filterable(weighted, config[t].outliers)
        THEN WithoutOutliers(weighted, config[t].outliers) ELSE {}

\* get_median_value: nothing where it panics.  The count that must be left after
\* the outliers is the contract's, not the type's.
Values(t, S) ==
    LET sample == Sample(t, S, EffectiveWeight)
    IN  IF sample = {} \/ Cardinality(sample) < rules.minCount THEN {}
        ELSE Aggregates(sample, config[t].method, clock)

\* get_aggregated weighs by registration alone.
ReportedValues(t, S) ==
    LET sample == Sample(t, S, RegisteredWeight)
    IN  IF config[t].encrypted \/ sample = {} \/ Cardinality(sample) < rules.minCount THEN {}
        ELSE Aggregates(sample, config[t].method, clock)

Meets(value, condition) ==
    CASE condition.comparison = "LessThan" -> value < condition.threshold
      [] condition.comparison = "GreaterThan" -> value > condition.threshold
      [] condition.comparison = "Equal" -> value = condition.threshold
      [] condition.comparison = "EqualWithTolerance" ->
            Gap(value, condition.threshold) <= condition.tolerance

\* check_cross_validation: a target nobody reported is skipped, a source without
\* a value fails.
Consistent(t, k) ==
    LET targets == {u \in DataTypes : variance[t][u] # NoRule}
    IN  targets = {} \/ \E value \in Values(t, points[t][k]) :
            \A u \in targets :
                \/ points[u][k] = {}
                \/ \E other \in Values(u, points[u][k]) : Gap(value, other) <= variance[t][u]

-----------------------------------------------------------------------------
(* Submission. *)

\* What one reading changes, as a record, because a batch takes several.
Desk(t) == [points |-> points[t], newest |-> newest[t], stale |-> stale[t], stake |-> stake[t],
            score |-> reputation[t], gone |-> 0]

Become(t, d) ==
    /\ points' = [points EXCEPT ![t] = d.points]
    /\ newest' = [newest EXCEPT ![t] = d.newest]
    /\ stale' = [stale EXCEPT ![t] = d.stale]
    /\ stake' = [stake EXCEPT ![t] = d.stake]
    /\ reputation' = [reputation EXCEPT ![t] = d.score]
    /\ Forfeit(d.gone)

\* The timestamps every path accepts, and a batch path takes a zero as well.
InWindow(ts) ==
    /\ ts <= clock + rules.futureBuffer
    /\ ts + rules.timestampAge >= clock

\* require_data_type_active and encryption_required, the registration and
\* enforce_rate_limit
MayReport(t, o) ==
    /\ ~config[t].paused
    /\ Active(t, o)
    /\ lastSubmission[t][o] # Never => clock - lastSubmission[t][o] >= rules.minInterval

\* require_strictly_newer_reading
Newer(d, k, o, ts) == d.newest[k][o] # Never => ts > d.newest[k][o]

\* A bug: the treasury gets the configured amount, whatever the oracle had.
AfterStaleUncapped(d, o) ==
    [d EXCEPT !.stale[o] = 0, !.stake[o] = Max({0, @ - rules.staleSlash}),
              !.gone = @ + rules.staleSlash]

\* handle_stale_submission: the count reaches the threshold, the stake is slashed
\* without a look at the minimum or at a pending request, the score drops.
AfterStale(d, o) ==
    LET count == d.stale[o] + 1
        penal == rules.staleThreshold > 0 /\ count >= rules.staleThreshold
        slashed == Min({rules.staleSlash, d.stake[o]})
    IN  IF ~penal THEN [d EXCEPT !.stale[o] = count]
        ELSE [d EXCEPT !.stale[o] = 0,
                       !.stake[o] = @ - slashed,
                       !.gone = @ + slashed,
                       !.score[o].score = Max({0, @ - rules.stalePenalty})]

\* A bug: the reading an oracle had stored stays beside its new one.
RetainedOwn(t, o, S) == {p \in S : Age(p.ts) <= MaxAge(t) /\ Active(t, p.oracle)}

\* store_plain_reading: what is stored beside the new reading.
Retained(t, o, S) == {p \in S : p.oracle # o /\ Age(p.ts) <= MaxAge(t) /\ Active(t, p.oracle)}

Point(o, r) == [oracle |-> o, value |-> r.value, confidence |-> r.confidence, ts |-> r.ts]

AfterFresh(d, t, k, o, r) ==
    [d EXCEPT !.points[k] = Retained(t, o, @) \cup {Point(o, r)}, !.newest[k][o] = r.ts]

AfterReading(d, t, k, o, r) ==
    IF Age(r.ts) > MaxAge(t) THEN AfterStale(d, o) ELSE AfterFresh(d, t, k, o, r)

\* reset_stale_count
Reset(d, o) == [d EXCEPT !.stale[o] = 0]

Reported(t, o) ==
    /\ lastSubmission' = [lastSubmission EXCEPT ![t][o] = clock]
    /\ UNCHANGED <<registryVars, request, limitVars, clock, ruleVars>>

\* get_data_type_max; the minimum of a range is stored and never compared.
TypeMax(t) == IF config[t].maxValue > 0 THEN config[t].maxValue ELSE DefaultMax[t]

\* Of the paths only this one looks at the range of the type, and at the
\* correlated types as they are once the reading is stored.
SubmitData(t, k, o, r) ==
    LET d == AfterReading(Desk(t), t, k, o, r)
        isFresh == Age(r.ts) <= MaxAge(t)
    IN  /\ MayReport(t, o)
        /\ ~config[t].encrypted
        /\ Distance(r.value, 0) <= Min({MaxValue, TypeMax(t)})
        /\ r.ts > 0
        /\ InWindow(r.ts)
        /\ Newer(Desk(t), k, o, r.ts)
        /\ Become(t, IF isFresh THEN Reset(d, o) ELSE d)
        /\ Reported(t, o)
        /\ UNCHANGED sealed
        /\ isFresh => Consistent(t, k)'

\* The states after the first readings of a batch, however many it has.
DeskAfter(t, o, batch) ==
    LET after[i \in 0 .. Len(batch)] ==
          IF i = 0 THEN Desk(t) ELSE AfterReading(after[i - 1], t, batch[i].key, o, batch[i])
    IN  after

AfterBatch(t, o, batch) == DeskAfter(t, o, batch)[Len(batch)]

Acceptable(d, o, r) == InWindow(r.ts) /\ Newer(d, r.key, o, r.ts)

Accepted(t, o, batch) ==
    \A i \in 1 .. Len(batch) : Acceptable(DeskAfter(t, o, batch)[i - 1], o, batch[i])

\* The whole batch or nothing; stale readings in it only count as stale.  A batch
\* may be empty: it too keeps the oracle from being offline.
SubmitBatch(t, o, batch, d) ==
    /\ MayReport(t, o)
    /\ ~config[t].encrypted
    /\ Accepted(t, o, batch)
    /\ Become(t, d)
    /\ Reported(t, o)
    /\ UNCHANGED sealed

\* batch_submit_data: a zero timestamp passes, the stale count is never reset.
BatchSubmitData(t, o, batch) ==
    /\ \A i \in DOMAIN batch : Distance(batch[i].value, 0) <= MaxValue
    /\ SubmitBatch(t, o, batch, AfterBatch(t, o, batch))

\* submit_data_batch: no bound on values, the stale count is reset even when all
\* of the readings were stale.
SubmitDataBatch(t, o, batch) ==
    /\ \A i \in DOMAIN batch : batch[i].ts > 0
    /\ SubmitBatch(t, o, batch, Reset(AfterBatch(t, o, batch), o))

\* An older reading replaces a newer one here; none may come from the future.
SubmitEncryptedData(t, k, o, r) ==
    LET isFresh == Age(r.ts) <= MaxAge(t)
    IN  /\ MayReport(t, o)
        /\ r.ts > 0 /\ r.ts <= clock /\ r.ts + SealedAge >= clock
        /\ Become(t, IF isFresh THEN Reset(Desk(t), o) ELSE AfterStale(Desk(t), o))
        /\ sealed' = IF isFresh
                     THEN [sealed EXCEPT ![t][k] = Retained(t, o, @)
                             \cup {[oracle |-> o, confidence |-> r.confidence, ts |-> r.ts]}]
                     ELSE sealed
        /\ Reported(t, o)

\* The high-water marks stay: an invalidated reading cannot be submitted again.
InvalidateData(t, k) ==
    /\ points[t][k] # {}
    /\ points' = [points EXCEPT ![t][k] = {}]
    /\ UNCHANGED <<oracleVars, sealed, newest, stale, reputation, ruleVars>>

-----------------------------------------------------------------------------
(* Verdicts and reputation. *)

\* update_reputation: the score is computed anew from the counts.
Scored(rep, accurate) ==
    LET total == rep.total + 1
        right == rep.accurate + IF accurate THEN 1 ELSE 0
    IN  [total |-> total, accurate |-> right, score |-> (right * FullScore) \div total]

\* Whoever reported within the trigger's tolerance of the value was accurate.
\* Oracles that are offline are scored too; a difference that is no i128 panics.
Judge(t, k, value, condition) ==
    LET judged == Fresh(t, points[t][k])
        accurate(o) == \E p \in judged : p.oracle = o /\ Distance(p.value, value) <= condition.tolerance
    IN  /\ \A p \in judged : Distance(p.value, value) <= Limit
        /\ reputation' = [reputation EXCEPT ![t] = [o \in Oracles |->
                            IF o \in {p.oracle : p \in judged} THEN Scored(@[o], accurate(o)) ELSE @[o]]]
        /\ UNCHANGED <<oracleVars, points, sealed, newest, stale, ruleVars>>

Verifiable(t, k) ==
    /\ ~config[t].paused
    /\ ~config[t].encrypted
    /\ Cardinality(Eligible(t, points[t][k])) >= MinCount(t)

\* Called by anybody, any number of times.
VerifyTrigger(t, k, condition) ==
    /\ Verifiable(t, k)
    /\ \E value \in Values(t, points[t][k]) :
          /\ condition.comparison = "EqualWithTolerance" => Gap(value, condition.threshold) <= Limit
          /\ Judge(t, k, value, condition)

\* The newest reading must be young, whoever it is from: it need not be one of
\* those that are combined.
VerifyTriggerFresh(t, k, condition, maxAge) ==
    /\ points[t][k] # {}
    /\ Age(Max({p.ts : p \in points[t][k]})) <= maxAge
    /\ VerifyTrigger(t, k, condition)

SetReputation(t, o, score) ==
    /\ reputation' = [reputation EXCEPT ![t][o].score = score]
    /\ UNCHANGED <<oracleVars, points, sealed, newest, stale, ruleVars>>

-----------------------------------------------------------------------------
(* Settings: each setter changes one field of a record. *)

SetGlobalRule(new) ==
    /\ \E field \in DOMAIN rules : new = [rules EXCEPT ![field] = new[field]]
    /\ rules' = new
    /\ UNCHANGED <<oracleVars, readingVars, config, variance>>

SetTypeRule(t, new) ==
    /\ \E field \in DOMAIN config[t] : new = [config[t] EXCEPT ![field] = new[field]]
    /\ config' = [config EXCEPT ![t] = new]
    /\ UNCHANGED <<oracleVars, readingVars, rules, variance>>

SetCrossValidationRule(source, target, max) ==
    /\ source # target
    /\ variance' = [variance EXCEPT ![source][target] = max]
    /\ UNCHANGED <<oracleVars, readingVars, rules, config>>

RemoveCrossValidationRule(source, target) ==
    /\ variance[source][target] # NoRule
    /\ variance' = [variance EXCEPT ![source][target] = NoRule]
    /\ UNCHANGED <<oracleVars, readingVars, rules, config>>

-----------------------------------------------------------------------------
Tick ==
    /\ clock < MaxTime
    /\ clock' = clock + 1
    /\ UNCHANGED <<registryVars, stakeVars, limitVars, lastSubmission, readingVars, ruleVars, acts, settings>>

Act == acts < MaxActs /\ acts' = acts + 1 /\ UNCHANGED settings

Setting == settings < MaxSettings /\ settings' = settings + 1 /\ UNCHANGED acts

Registration(t, o) ==
    \/ \E weight \in Weights : AddOracle(t, o, weight) \/ UpdateOracleWeight(t, o, weight)
    \/ RemoveOracle(t, o)

Staking(t, o) ==
    \/ \E amount \in StakeAmounts : Stake(t, o, amount) \/ SlashOracle(t, o, amount)
    \/ RequestStakeWithdrawal(t, o)
    \/ CancelStakeWithdrawal(t, o)
    \/ WithdrawStake(t, o)

Submission(t, o) ==
    \/ \E k \in Keys, r \in Readings : SubmitData(t, k, o, r) \/ SubmitEncryptedData(t, k, o, r)
    \/ \E batch \in Batches : BatchSubmitData(t, o, batch) \/ SubmitDataBatch(t, o, batch)

Verification(t, k) ==
    \E condition \in Conditions :
        \/ VerifyTrigger(t, k, condition)
        \/ \E maxAge \in FreshAges : VerifyTriggerFresh(t, k, condition, maxAge)

Limits ==
    \/ \E seconds \in InactivityLimits : SetOracleInactivityLimit(seconds)
    \/ \E amount \in MinStakes : SetMinStake(amount)
    \/ \E seconds \in ChallengePeriods : SetChallengePeriod(seconds)
    \/ SetSlashTreasury

Settings ==
    \/ \E new \in GlobalRules : SetGlobalRule(new)
    \/ \E t \in DataTypes : \E new \in TypeRules[t] : SetTypeRule(t, new)
    \/ \E pair \in Correlations, max \in Variances : SetCrossValidationRule(pair[1], pair[2], max)

\* Actions of OracleRegistry leave the readings and the rules alone.
Registering ==
    /\ \/ \E t \in DataTypes, o \in Oracles : Registration(t, o) \/ Staking(t, o)
       \/ \E t \in DataTypes : DeactivateInactiveOracles(t)
    /\ UNCHANGED <<readingVars, ruleVars>>

Reporting ==
    \/ \E t \in DataTypes, o \in Oracles :
           Submission(t, o) \/ \E score \in Scores : SetReputation(t, o, score)
    \/ \E t \in DataTypes, k \in Keys : Verification(t, k) \/ InvalidateData(t, k)
    \/ \E pair \in Correlations : RemoveCrossValidationRule(pair[1], pair[2])

Next ==
    \/ Act /\ (Registering \/ Reporting)
    \/ Setting /\ (Settings \/ (Limits /\ UNCHANGED <<readingVars, ruleVars>>))
    \/ Tick

Spec == Init /\ [][Next]_vars

-----------------------------------------------------------------------------
\* The parts of a record or function are in their ranges.
TypeOK ==
    /\ entry \in [DataTypes -> [Oracles -> [state: {"none", "active", "inactive"}, weight: Nat]]]
    /\ listed \in [DataTypes -> SUBSET Oracles]
    /\ stake \in [DataTypes -> [Oracles -> Nat]]
    /\ newest \in [DataTypes -> [Keys -> [Oracles -> Nat \cup {Never}]]]
    /\ clock \in Nat

\* The list of a data type (add_oracle, deactivate_oracle, slash_oracle, the sweep of
\* silent oracles) names the active registrations and no others, and an address
\* reports for one data type only and is known to, issue #742 - but for one that was
\* removed a second time from a type it had left, which frees it everywhere.
RegistryExact ==
    /\ \A t \in DataTypes : listed[t] = {o \in Oracles : Active(t, o)}
    /\ \A o \in Oracles \ removedAgain, t \in DataTypes :
          Active(t, o) => o \in known /\ \A u \in DataTypes \ {t} : ~Active(u, o)

\* What the verifier holds of the stake token is the stake of its oracles and what was
\* slashed before a treasury was set: neither slash_oracle nor the penalty for
\* stale readings nor a withdrawal takes from another's stake.
StakeBacked ==
    custody = forfeited
        + SumFunctionOnSet([t \in DataTypes |-> SumFunctionOnSet(stake[t], Oracles)], DataTypes)

\* An oracle that asked for its stake after it had been registered (issue #681) reports
\* nothing while it waits: its whole challenge period lies after its last accepted
\* reading, whatever registrations, removals, slashes and cancellations come in between.
\* request_stake_withdrawal also accepts an address that is not registered yet; that
\* request matures while the oracle reports, and nothing is claimed of it.
ChallengeServed ==
    \A t \in DataTypes, o \in Oracles :
        LET r == request[t][o]
        IN  r # NoRequest /\ ~r.early => ~Active(t, o) /\ lastSubmission[t][o] <= r.asked

\* An oracle has one reading of a key, its latest: a replayed, batched or reordered
\* submission neither gives it a second voice nor brings back an older value
\* (store_plain_reading, issue #775).
OneVoice ==
    \A t \in DataTypes, k \in Keys : \A p, q \in points[t][k] :
        /\ p.ts = newest[t][k][p.oracle]
        /\ p.oracle = q.oracle => p = q

\* Each value times all the shares is an i128, and so no partial sum of an average
\* saturates, in whatever order the readings are summed.
SumsFit(S, method, now) ==
    \A order \in Orders(S, method) : \A i \in DOMAIN order :
        Distance(order[i].value, 0) * SumFunctionOnSet(Share(order, method, now), DOMAIN order) <= Limit

\* Whatever the outliers and the reputations, the value a verdict compares and the value
\* get_aggregated reports lie among the readings they are made of, and a trigger that all
\* of the readings meet is met: with the median always, with an average when its sums
\* fit, which submit_data_batch's unbounded values or long durations may prevent.
WithinReadings ==
    \A t \in DataTypes, k \in Keys :
        LET readings == Eligible(t, points[t][k])
            method == config[t].method
            Trusted(weight(_, _)) ==
                method = "WeightedMedian" \/ SumsFit(Sample(t, points[t][k], weight), method, clock)
            Among(value) == \E p, q \in readings : p.value <= value /\ value <= q.value
        IN  /\ Trusted(RegisteredWeight) =>
                 \A value \in ReportedValues(t, points[t][k]) : Among(value)
            /\ Trusted(EffectiveWeight) =>
                 \A value \in Values(t, points[t][k]) :
                    /\ Among(value)
                    /\ \A condition \in Conditions :
                          (\A p \in readings : Meets(p.value, condition)) => Meets(value, condition)

\* "A minority of oracles cannot move the result no matter how extreme their submissions
\* are" (weighted_median): any oracles with more than half of the weight that is left
\* after the outliers have the median between their readings.
MinorityCannotMove ==
    \A t \in DataTypes, k \in Keys :
        LET sample == Sample(t, points[t][k], EffectiveWeight)
        IN  config[t].method = "WeightedMedian" =>
              \A value \in Values(t, points[t][k]), majority \in SUBSET sample :
                 2 * TotalWeight(majority) > TotalWeight(sample) =>
                    \E p, q \in majority : p.value <= value /\ value <= q.value
=============================================================================

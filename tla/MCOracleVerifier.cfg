\* Three oracles and three data types; readings of one key.
CONSTANTS
    Senior = o1
    Oracles = {o1, o2, o3}
    DataTypes = {weather, flight, onchain}
    Home = weather
    FounderWeight <- SomeWeights
    Weights = {2}
    MaxPerType = 3
    InitialStake = 1
    StakeAmounts = {2}
    MinStakes = {2}
    ChallengePeriods = {0}
    InitialChallenge = 1
    InactivityLimits = {1}
    StartTime = 2
    Keys = {k}
    Readings <- SomeReadings
    Batches <- SomeBatches
    Conditions <- SomeConditions
    FreshAges = {0}
    FullScore = 1000
    Scores = {1000}
    MaxValue = 100
    DefaultMax <- SameMax
    SealedAge = 5
    InitialRules <- FirstRules
    GlobalRules <- OtherRules
    TypeRules <- OtherTypeRules
    Correlations <- HomeCorrelations
    Variances = {5}
    MinSample = 2
    Limit = 200000
    MaxTime = 4
    MaxActs = 3
    MaxSettings = 1
SPECIFICATION Spec
SYMMETRY OracleSymmetry
INVARIANT TypeOK
INVARIANT RegistryExact
INVARIANT StakeBacked
INVARIANT ChallengeServed
INVARIANT OneVoice
INVARIANT WithinReadings
INVARIANT MinorityCannotMove
CHECK_DEADLOCK FALSE

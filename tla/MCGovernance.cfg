\* Two holders, two proposals with different or equal contents, one change of the
\* settings or the token, and enough time for a passed proposal to run past its deadline.
CONSTANTS
    a = a
    b = b
    t1 = t1
    t2 = t2
    pause = pause
    send = send
    approve = approve
    h1 = h1
    h2 = h2
    h3 = h3
    FullBps = 10000
    MinQuorumBps = 1000
    DefaultWindow = 1
    MaxWindow = 2
    Holders = {a, b}
    NoOne = none
    InitialBalance <- TwoDeposits
    MaxDelegators = 1
    TimeWeights <- TwoRamps
    MaxTime = 3
    Contents = {pause, send}
    Hashes = {h1, h2, h3}
    HashesOf <- Hashing
    Calls <- TokenCalls
    Tokens = {t1, t2}
    Distributions <- NewHoldings
    SelfTargeting = {}
    Upgrades = {send}
    Thresholds = {}
    Multipliers <- NoMultipliers
    MaxProposals = 2
    CastChoices = {"For"}
    MaxActs = 2
    InitialConfig <- QuickConfig
    Configs <- NewConfigs
    DecayChoices <- OneDecay
    FinalizeDelay = 0
    ReclaimTimeout = 1
    ExecutionWindow = 1
    ExecutionBps = {5000}
SPECIFICATION Spec
SYMMETRY HashSymmetry
INVARIANT CustodyCovers
INVARIANT TallyBacked
INVARIANT DelegationSound
INVARIANT GuardLostOnlyToExpiry
CHECK_DEADLOCK FALSE

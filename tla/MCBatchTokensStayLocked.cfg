\* A batch vote on two proposals of which one closes first.
CONSTANTS
    a = a
    b = b
    t1 = t1
    t2 = t2
    pause = pause
    send = send
    approve = approve
    h1 = h1
    h2 = h2
    h3 = h3
    FullBps = 10000
    MinQuorumBps = 1000
    DefaultWindow = 1
    MaxWindow = 2
    Holders = {a, b}
    NoOne = none
    InitialBalance <- Balances
    MaxDelegators = 1
    TimeWeights <- OneRamp
    MaxTime = 4
    Contents = {pause, send}
    Hashes = {h1, h2, h3}
    HashesOf <- Hashing
    Calls <- TokenCalls
    Tokens = {t1, t2}
    Distributions <- NewHoldings
    SelfTargeting = {}
    Upgrades = {send}
    Thresholds = {}
    Multipliers <- NoMultipliers
    MaxProposals = 2
    CastChoices = {"For", "Abstain"}
    MaxActs = 2
    InitialConfig <- BaseConfig
    Configs <- NewConfigs
    DecayChoices <- OneDecay
    FinalizeDelay = 0
    ReclaimTimeout = 1
    ExecutionWindow = 2
    ExecutionBps = {5000}
SPECIFICATION Spec
SYMMETRY HashSymmetry
INVARIANT BatchTokensStayLocked
CHECK_DEADLOCK FALSE

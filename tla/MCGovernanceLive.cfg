\* One proposal, of a call that may spend the DAO's tokens, that may be cancelled,
\* finalized or left to the reclaim timeout.
CONSTANTS
    a = a
    b = b
    t1 = t1
    t2 = t2
    pause = pause
    send = send
    approve = approve
    h1 = h1
    h2 = h2
    h3 = h3
    FullBps = 10000
    MinQuorumBps = 1000
    DefaultWindow = 1
    MaxWindow = 2
    Holders = {a, b}
    NoOne = none
    InitialBalance <- Balances
    MaxDelegators = 1
    TimeWeights <- OneRamp
    MaxTime = 4
    Contents = {pause, send, approve}
    Hashes = {h1, h2, h3}
    HashesOf <- Hashing
    Calls <- TokenCalls
    Tokens = {t1, t2}
    Distributions <- NewHoldings
    SelfTargeting = {pause}
    Upgrades = {send}
    Thresholds = {2}
    Multipliers <- SteepEscalation
    MaxProposals = 1
    CastChoices = {"For", "Abstain"}
    MaxActs = 2
    InitialConfig <- BaseConfig
    Configs <- NewConfigs
    DecayChoices <- OneDecay
    FinalizeDelay = 0
    ReclaimTimeout = 1
    ExecutionWindow = 2
    ExecutionBps = {5000}
SPECIFICATION Spec
INVARIANT CustodyCovers
PROPERTY LocksComeBack
CHECK_DEADLOCK FALSE

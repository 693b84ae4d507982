\* One policy and its claim: two customers who may pass the policy on, a payout
\* delay that comes and goes, and an admin who rejects, releases and sets deadlines.
CONSTANTS
    Categories = {crop}
    Names = {n1}
    OracleKeys = {k1}
    MaxProducts = 1
    MaxProductsPerPool = 1
    AdminOps = {"reject", "release"}
    Users = {u1, u2}
    Admin = adm
    MaxPolicies = 1
    MaxTime = 3
    Coverages = {4}
    Durations = {1}
    DaySecs = 1
    StartDelays = {0}
    RateBps = 1
    PremiumScale = 2
    PurchaseCooldown = 1
    InitialEscrow = 4
    LockIds = {1}
    LockAmounts = {4}
    InitialPool = 6
    UtilizationCaps = {10000}
    MaxClaims = 1
    PayoutBps = {5000}
    FullBps = 10000
    PayoutDelays = {0, 1}
    WindowSettings <- OneSetting
    AutoCooldown = 1
    ClaimCooldown = 1
    InstallmentPlans <- NoPlans
    DeadlineOffsets = {1}
SPECIFICATION Spec
SYMMETRY UserSymmetry
INVARIANT QueueExact
INVARIANT PaidOnlyIfConfirmed
INVARIANT DecidedMeansSettled
INVARIANT SettledReleasesLock
PROPERTY PayoutDelayHolds
PROPERTY ReleasedIsFrozen
PROPERTY KeepsPromise
CHECK_DEADLOCK FALSE

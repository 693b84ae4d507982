\* Two policies that compete: the pool can back one of them, and the balance with
\* both premiums (3 + 2 + 2) pays one coverage of 4 and not two.
CONSTANTS
    Categories = {crop}
    Names = {n1}
    OracleKeys = {k1}
    MaxProducts = 1
    MaxProductsPerPool = 1
    AdminOps = {"pool", "release"}
    Users = {u1}
    Admin = adm
    MaxPolicies = 2
    MaxTime = 2
    Coverages = {4}
    Durations = {1}
    DaySecs = 1
    StartDelays = {0}
    RateBps = 1
    PremiumScale = 2
    PurchaseCooldown = 1
    InitialEscrow = 3
    LockIds = {1, 2}
    LockAmounts = {4}
    InitialPool = 7
    UtilizationCaps = {10000}
    MaxClaims = 2
    PayoutBps = {10000}
    FullBps = 10000
    PayoutDelays = {0}
    WindowSettings <- OneSetting
    AutoCooldown = 1
    ClaimCooldown = 0
    InstallmentPlans <- NoPlans
    DeadlineOffsets = {}
SPECIFICATION Spec
INVARIANT TypeOK
INVARIANT ClaimIndexExact
INVARIANT LockedTotalExact
INVARIANT NeverOverbooked
CHECK_DEADLOCK FALSE

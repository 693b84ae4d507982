\* One policy, one customer, a partial payout of half the coverage.
CONSTANTS
    Categories = {crop}
    Names = {n1}
    OracleKeys = {k1}
    MaxProducts = 1
    MaxProductsPerPool = 1
    AdminOps = {}
    Users = {u1}
    Admin = adm
    MaxPolicies = 1
    MaxTime = 3
    Coverages = {4}
    Durations = {1}
    DaySecs = 1
    StartDelays = {0}
    RateBps = 1
    PremiumScale = 2
    PurchaseCooldown = 1
    InitialEscrow = 4
    LockIds = {1}
    LockAmounts = {4}
    InitialPool = 6
    UtilizationCaps = {10000}
    MaxClaims = 1
    PayoutBps = {5000}
    FullBps = 10000
    PayoutDelays = {0, 1}
    WindowSettings <- OneSetting
    AutoCooldown = 1
    ClaimCooldown = 1
    InstallmentPlans <- NoPlans
    DeadlineOffsets = {}
SPECIFICATION Spec
PROPERTY PayoutIsItsShare
CHECK_DEADLOCK FALSE

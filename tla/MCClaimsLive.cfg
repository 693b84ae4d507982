\* One policy to the end of its days under a fair keeper, with a processor that is
\* paused and resumed, windows and ceilings that change, and installments.
CONSTANTS
    Categories = {crop}
    Names = {n1}
    OracleKeys = {k1}
    MaxProducts = 1
    MaxProductsPerPool = 1
    AdminOps = {"cp_pause"}
    Users = {u1}
    Admin = adm
    MaxPolicies = 1
    MaxTime = 3
    Coverages = {4}
    Durations = {1}
    DaySecs = 1
    StartDelays = {0}
    RateBps = 1
    PremiumScale = 2
    PurchaseCooldown = 1
    InitialEscrow = 4
    LockIds = {1}
    LockAmounts = {4}
    InitialPool = 6
    UtilizationCaps = {6000, 10000}
    MaxClaims = 1
    PayoutBps = {5000}
    FullBps = 10000
    PayoutDelays = {0, 1}
    WindowSettings <- TwoSettings
    AutoCooldown = 1
    ClaimCooldown = 1
    InstallmentPlans <- OnePlan
    DeadlineOffsets = {}
SPECIFICATION FairSpec
PROPERTY LapsedIsFreed
CHECK_DEADLOCK FALSE

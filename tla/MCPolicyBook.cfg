\* Premiums are 4 * 1 * days / 4: a two-day cover of 4 costs 2, so that a refund passes
\* through 1 on its way to zero, and the balance (1, 3, 5) pays a coverage only after
\* the second purchase and then not every refund.
CONSTANTS
    Categories = {crop}
    Names = {n1, n2}
    OracleKeys = {k1}
    MaxProducts = 2
    MaxProductsPerPool = 2
    AdminOps = {"catalogue", "pe_pause"}
    Users = {u1, adm}
    Admin = adm
    MaxPolicies = 2
    MaxTime = 4
    Coverages = {4}
    Durations = {2}
    DaySecs = 1
    StartDelays = {0, 1}
    RateBps = 1
    PremiumScale = 4
    PurchaseCooldown = 1
    InitialEscrow = 1
SPECIFICATION BookSpec
INVARIANT BookInv
INVARIANT OnSaleOwnsName
INVARIANT ActiveListExact
INVARIANT ListedExactly
PROPERTY MoneyLeavesBySettlement
PROPERTY RefundOnlyShrinks
CHECK_DEADLOCK FALSE

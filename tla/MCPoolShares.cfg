\* Two LPs, one lock, amounts with a remainder in every division.
CONSTANTS
    LockIds = {1}
    LockAmounts = {3}
    InitialPool = 0
    UtilizationCaps = {8}
    FullBps = 10
    Providers = {l1, l2}
    DepositAmounts = {2, 3}
    ShareAmounts = {1, 3}
    Premiums = {4}
    Draws = {1}
    Recoveries = {0, 2}
    Terms <- SomeTerms
    Splits <- OtherSplits
    InitialSplit <- MostToLPs
    DepositCaps = {4}
    InitialCap = 100
    ExitDelays = {1}
    SharePrecision = 2
    AccPrecision = 10
    BurnShares = 1
    MinShares = 1
    MaxScan = 1
    MaxTime = 1
    MaxActs = 5
SPECIFICATION Spec
SYMMETRY ProviderSymmetry
INVARIANT SharesExact
INVARIANT LocksCovered
INVARIANT Solvent
PROPERTY PriceKept
CHECK_DEADLOCK FALSE

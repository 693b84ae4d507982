\* An owner and two guardians; a removal may leave one.
CONSTANTS
    Owner = owner
    First = first
    Second = second
    None = none
    Accounts = {owner, first, second}
    Candidates <- SomeCandidates
    Lists <- SomeLists
    Thresholds = {0, 1, 2}
    MinGuardians = 1
    Versions = {2}
    Amounts = {1}
    Liquidities = {0, 1}
    Splits = {even}
    FirstSplit = even
    TransferTimelock = 1
    WithdrawalTimelock = 1
    ParameterTimelock = 1
    MaxApprovals = 2
SPECIFICATION FairSpec
INVARIANT CommitteeSound
PROPERTY GuardiansHold
PROPERTY TransferCompletes
CHECK_DEADLOCK FALSE

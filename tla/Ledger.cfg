CONSTANTS
    alice = alice
    bob = bob
    carol = carol
    Accounts = {alice, bob, carol}
    GenesisAccounts = {alice, bob}
    Allocation <- MCAllocation
    LockedAccounts = {}
    Payloads = {p}
    None = None
    Values = {0, 1}
    TTLs = {2, 3}
    MaxAdvance = 2
    MaxBranches = 2
    LastOfferRound = 1
SPECIFICATION FairSpec
INVARIANTS
    TypeOK
    Restorable
    BalancesExplained
    FinalizedOnce
    NothingOverdue
PROPERTIES
    SettlesOnTime
    BranchesKeepTheirWord
    EveryBranchEnds
CHECK_DEADLOCK FALSE

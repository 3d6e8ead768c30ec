CONSTANTS
    alice = alice
    bob = bob
    carol = carol
    Accounts = {alice, bob, carol}
    GenesisAccounts = {alice, bob}
    Allocation <- MCAllocation
    LockedAccounts = {bob}
    Payloads = {p}
    None = None
    Values = {0, 1, 2}
    TTLs = {2, 3}
    MaxAdvance = 2
    MaxBranches = 2
    LastOfferRound = 1
SPECIFICATION Spec
INVARIANTS
    Restorable
CHECK_DEADLOCK FALSE

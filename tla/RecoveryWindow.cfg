CONSTANTS
    o1 = o1
    o2 = o2
    o3 = o3
    Observers = {o1, o2, o3}
    role_nodes <- MCRoleNodes
    observer_count = 3
    counterproof_window = 1
    Evidence = {e1, e2}
    valid_rounds <- MCValidRounds
    None = None
    MaxRound = 3
    MaxChallenges = 3
SPECIFICATION Spec
INVARIANTS
    HolderHasWindow
CHECK_DEADLOCK FALSE

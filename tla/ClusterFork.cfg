CONSTANTS
    Mutations = {m1, m2}
    None = None
    MaxTerm = 1
    MaxLate = 1
    MaxFaults = 1
SPECIFICATION Spec
SYMMETRY Symmetry
INVARIANTS
    LogsNeverFork
CHECK_DEADLOCK FALSE

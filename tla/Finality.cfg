CONSTANTS
    o1 = o1
    o2 = o2
    o3 = o3
    o4 = o4
    Observers = {o1, o2, o3, o4}
    Faulty = {o1}
    Candidates = {x, y}
    OwnKey = k1
    Keys = {k1, k2}
    NoVote = NoVote
    valid_rounds <- MCValidRounds
    MaxQuarantined = 2
SPECIFICATION Spec
SYMMETRY Symmetry
INVARIANTS
    TypeOK
    RoundsPassedByQuorum
    NoConflictingFinality
    HonestVotesCount
CHECK_DEADLOCK FALSE

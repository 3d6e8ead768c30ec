CONSTANTS
    Mutations = {m1, m2}
    None = None
    MaxTerm = 2
    MaxLate = 1
    MaxFaults = 2
SPECIFICATION Spec
SYMMETRY Symmetry
INVARIANTS
    TypeOK
    Restartable
    SameTermAgrees
    OneCertificatePerTerm
    AckedSurvives
    RefusedNeverApplied
    SyncedMeansCaughtUp
PROPERTY ImplementsService
CHECK_DEADLOCK FALSE

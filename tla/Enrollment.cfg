CONSTANTS
    Accounts = {a1}
    Credentials = {c1, c2}
    MAX_PENDING = 1
    MaxTime = 1
    MaxEvents = 4
SPECIFICATION Spec
SYMMETRY Symmetry
INVARIANTS
    TypeOK
    ExecutedOnce
    NoNonceReused
    StatusIsTrue
    RegisteredIsEnrolled
CHECK_DEADLOCK FALSE

CONSTANTS
    Verifiers = {v1, v2, v3}
    Faulty = {v3}
    Legacy = 1
    Recent = 20
    MaxJobs = 2
    MaxFaults = 2
SPECIFICATION FairSpec
INVARIANTS
    TypeOK
    ReceiptsVerify
    ServedReceiptsProve
    HonestVerdict
PROPERTIES
    ImplementsVerdict
    EveryJobDecided
CHECK_DEADLOCK FALSE

CONSTANTS
    r1 = r1
    r2 = r2
    Recipients <- MCRecipients
    SENDER = faucet
    None = None
    MaxRequests = 6
    MaxOthers = 0
    MaxSkip = 1
    MaxForks = 0
    MaxSaveFailures = 1
SPECIFICATION SpecUnsaved
INVARIANTS
    AtMostOnePayment
CHECK_DEADLOCK FALSE

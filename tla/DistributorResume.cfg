CONSTANTS
    r1 = r1
    r2 = r2
    Recipients <- MCRecipients
    SENDER = faucet
    None = None
    MaxRequests = 4
    MaxOthers = 0
    MaxSkip = 1
    MaxForks = 0
    MaxSaveFailures = 0
SPECIFICATION FairSpec
PROPERTIES
    RerunReconciles
CHECK_DEADLOCK FALSE

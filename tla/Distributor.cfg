CONSTANTS
    r1 = r1
    r2 = r2
    Recipients <- MCRecipients
    SENDER = faucet
    None = None
    MaxRequests = 6
    MaxOthers = 1
    MaxSkip = 1
    MaxForks = 1
    MaxSaveFailures = 0
SPECIFICATION Spec
INVARIANTS
    TypeOK
    AtMostOnePayment
    JournalCoversPayments
    VerifiedIsPaid
CHECK_DEADLOCK FALSE

CONSTANTS
    Jobs = {j1}
    NoKey = NoKey
    MaxAttempts = 2
    MaxEpoch = 2
    MaxFaults = 1
    MaxRows = 1
    MaxRequests = 2
    MaxConsents = 0
    MaxUid = 3
    Env <- SentFolder
SPECIFICATION Spec
CHECK_DEADLOCK FALSE
INVARIANTS TypeOK LeaseStable NoDuplicateDelivery  OneAppendedCopy
PROPERTY ImplementsDelivery

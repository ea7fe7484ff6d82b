CONSTANTS
    Jobs = {j1}
    NoKey = NoKey
    MaxAttempts = 2
    MaxEpoch = 2
    MaxFaults = 1
    MaxRows = 1
    MaxRequests = 1
    MaxConsents = 1
    MaxUid = 3
    Env <- SpoolFile
SPECIFICATION FairSpec
PROPERTIES Settles
CHECK_DEADLOCK FALSE

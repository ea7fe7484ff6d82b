CONSTANTS
    w1 = w1  w2 = w2  w3 = w3
    Writers <- MCWriters
    UserOf <- TwoUsers
    Requests <- MixedRequests
    Cancelable = {w2, w3}
    Sizes = {1, 3}
    MaxActive = 2
    MaxActiveBytes = 3
    MaxWord = 100
    PerUser = FALSE
SPECIFICATION Spec
INVARIANTS AccountingExact AdmissionBounded OneBatchPerIndex ClosedWhenQuiet
PROPERTY WakesWhenRoom

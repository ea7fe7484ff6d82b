CONSTANTS
    w1 = w1  w2 = w2  w3 = w3
    Writers <- MCWriters
    UserOf <- ThreeUsers
    Requests <- UnequalRequests
    Cancelable = {w3}
    Sizes = {1}
    MaxActive = 2
    MaxActiveBytes = 3
    MaxWord = 100
    PerUser = TRUE
SPECIFICATION FairSpec
PROPERTY WritersProgress

SPECIFICATION NotifySpec
CONSTANTS
    Endpoints = {e1}
    MaxMail = 2
    MaxReminders = 1
    MaxKeys = 2
    MaxPushFaults = 2
    PushMaxRetryAttempts = 3
    Msgs = {m1, m2}
    Threads = {t1, t2}
    MaxTime = 5
    MaxUntil = 2
    MaxSnoozes = 2
    MaxRethreads = 1
    MaxDbFaults = 1
    ProcessLimit = 1
    IdleInterval = 2
    ErrorBackoff = 1
CHECK_DEADLOCK FALSE
CONSTANTS
    Arrived = {1, 2}
    Horizon = 3
    HoldTime = 1
    RetryTime = 1
    TombstoneTTL = 1
    FinalizeBatch = 2
    MaxArrivalFaults = 1
INVARIANTS NothingSkipped RemindersSafe ArrivalsSafe
PROPERTY NotifyPromises

SPECIFICATION Spec
CONSTANTS
    Absent = Absent
    Ids = {1, 2}
    Calls = {c1, c2}
    SessionIds = {t1, t2}
    ResetIds = {k1}
    Sources = {"x"}
    MaxPerEmail = 2
    MaxPerSource = 3
    WindowLen = 1
    MaxKeys = 1
    MaxChanges = 2
    Menus <- MCMenus
    Names = {"INBOX", "INBOX/Old"}
    InboxName = "INBOX"
    Parents <- MCParents
    NamedRole <- MCNamed
    SpecialUse <- MCSpecial
    Wanted <- MCWanted
    Slots = {s1, s2}
    RunIds = {1, 2}
    Budgets <- MCBudgets
    Watchers = {w1, w2}
    MaxLetters = 2
    MaxWatchFaults = 2
    MaxSwitches = 2
    Procs = {p1, p2}
    Vacant = Vacant
    MaxStarts = 2
    Plugins = {"p"}
    ByDefault = {"p"}
    AutoStart = {"p"}
    Requests = {r1, r2}
    Migrations = 2
    MaxFaults = 3
CHECK_DEADLOCK FALSE
INVARIANTS  OneWatcher DaemonSafe HostSafe
PROPERTY AccountsProgress

SPECIFICATION TenantSpec
CONSTANTS
    Callers = {c1, c2}
    Source = Source
    Inbox = Inbox
    Archive = Archive
    Env <- Everybody
    MaxRows = 1
    MaxAttempts = 2
    MaxEpoch = 2
    MaxFaults = 2
    MaxUid = 2
    Mails = {1, 2}
    Twins = {1, 2}
    MaxBlobs = 2
    MaxMishaps = 3
    Names = {"INBOX", "INBOX/Old"}
    InboxName = "INBOX"
    Parents <- MCParents
    NamedRole <- MCNamed
    SpecialUse <- MCSpecial
    Wanted <- MCWanted
    Slots = {s1, s2}
    RunIds = {1, 2}
    Budgets <- MCBudgets
    Jobs = {j1, j2}
    Addresses = {"a", "b"}
    Home <- MCHome
    Servers = {1, 2}
    Relays = {1, 2}
    Cards <- MCCards
    Wishes <- MCWishes
    MaxEmails = 2
    MaxEdits = 2
SYMMETRY Symmetry
CONSTRAINT Bounded
CHECK_DEADLOCK FALSE
INVARIANTS TransfersSafe BlobsSafe FoldersSafe IdentitiesSafe
PROPERTY TenantSteps

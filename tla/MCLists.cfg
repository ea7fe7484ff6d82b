SPECIFICATION Spec
CONSTANTS
    Letters = {1, 2, 3}
    OldLetters = {1, 2}
    Unreachable = {1}
    PageLimit = 1
    Checkpoint = 1
    Cooldown = 1
    MaxUpsets = 2
    Writers = {w1}
    Readers = {q1}
    Keys = {"all", "k1"}
    AllMail = "all"
    MaxEntries = 1
    MaxCommits = 2
    MaxAsks = 2
    Rows = 3
    Shapes <- MCShapes
    Until = {2, 9}
    Now = 5
    PageSize = 1
    Limit = 2
CHECK_DEADLOCK FALSE
INVARIANTS DocumentsSafe AnswersFresh 
PROPERTY ListsProgress

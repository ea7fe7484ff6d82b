SPECIFICATION Spec
CONSTANTS
    Inbox = inbox
    Boxes = {inbox}
    MaxAsks = 0
    MaxResets = 0
    MaxTroubles = 0
    MaxMail = 2
    MaxTurmoil = 0
    MaxChanges = 0
    MaxStops = 0
    Oversized = {2}
    Hooks = TRUE
    PageSize = 1
    TurnSize = 1
CHECK_DEADLOCK FALSE
INVARIANT CheckpointCovered

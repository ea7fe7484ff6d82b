SPECIFICATION Spec
CONSTANTS
    Inbox = inbox
    Boxes = {inbox, arch}
    MaxAsks = 2
    MaxResets = 1
    MaxTroubles = 1
    MaxMail = 2
    MaxTurmoil = 2
    MaxChanges = 1
    MaxStops = 1
    Oversized = {}
    Hooks = FALSE
    PageSize = 1
    TurnSize = 1
CONSTRAINT Bounded
CHECK_DEADLOCK FALSE
  
PROPERTY GateOpensClean

\* Power losses, deaths, stalls and failed calls in any order; with and without hydration.
SPECIFICATION FairSpec
CONSTANTS
    m1 = m1
    m2 = m2
    Messages <- TwoMessages
    MaxCrashes = 3
    MaxFaults = 2
    MaxResets = 2
    MaxReindexes = 1
CHECK_DEADLOCK FALSE
 
PROPERTIES MovedWhenPending 

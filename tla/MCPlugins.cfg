SPECIFICATION Spec
CHECK_DEADLOCK FALSE
CONSTANTS
    Texts = {1, 2}
    Prints <- MCPrints
    TokensOf <- MCTokens
    Collections <- MCCollections
    MaxIds = 4
    MaxLabels = 2
    MaxTokens = 2
    MinClass = 1
    MaxPending = 1
    MaxJobs = 2
    MaxDeeds = 4
    Contents = {"a"}
    Chunk = 1
    Loops = TRUE
    MaxEpoch = 2
    MaxUid = 2
    MaxEvents = 4
INVARIANTS ModelSafe RoutineSafe
PROPERTY PluginPromises

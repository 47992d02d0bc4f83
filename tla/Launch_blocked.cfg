SPECIFICATION EngineSpec
CONSTANTS
    Resource <- Resource2
    Graph <- AcyclicGraph
    Concurrency = 4
    Attempts <- RetriedOnce
    Plans <- NoneInvalid
    Probed <- Probed12
INVARIANT
    BlockedIsPersisted
CHECK_DEADLOCK FALSE

SPECIFICATION FairSpec
CONSTANTS
    Resource <- Resource3
    Graph <- AnyGraph
    Concurrency = 2
INVARIANTS
    TypeOK
    ConcurrencyBound
    DependenciesFirst
    BlockedNeedsFailure
    ReturnIsComplete
    NoStall
PROPERTIES
    ImplementsOrder
    Terminates
CHECK_DEADLOCK FALSE

SPECIFICATION EngineFair
CONSTANTS
    Resource <- Resource3
    Graph <- AcyclicGraph
    Concurrency = 2
    Attempts <- RetriedOnce
    Plans <- LastInvalid
    Probed <- Probed12
INVARIANTS
    EngineTypeOK
    StartsAreRecorded
    RowsMatchResults
    ReadyNamesLastProcess
    StatusAgreesWithRows
PROPERTIES
    HistoryIsFinal
    LaunchEnds
CHECK_DEADLOCK FALSE

SPECIFICATION FairSpec
CONSTANTS
    Process <- Process3
    MaxVersion = 2
    Known <- OneIsOld
    Statements = 2
INVARIANTS
    TypeOK
    HistoryIsSound
    StartedIsMigrated
PROPERTIES
    StartEnds

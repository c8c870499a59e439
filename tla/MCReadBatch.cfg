CONSTANTS
    NPend = 3
    Threads = {1, 2, 4}
    NStage = 5
    Nothing = Nothing
SPECIFICATION FairSpec
INVARIANTS
    EveryMissIsRead
PROPERTIES
    ReadsEnd
CHECK_DEADLOCK FALSE

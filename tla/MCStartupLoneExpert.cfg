CONSTANTS
    MinBytes = 4
    MaxBatch = 6
    Unknown = Unknown
    Configs <- Runs
SPECIFICATION Spec
INVARIANT SkippedIsNeverWhole
CHECK_DEADLOCK FALSE

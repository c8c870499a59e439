CONSTANTS
    MinBytes = 4
    MaxBatch = 6
    Unknown = Unknown
    Configs <- Runs
SPECIFICATION Spec
INVARIANTS
    DisablingIsHarmless
CHECK_DEADLOCK FALSE

CONSTANTS
    MinBytes = 4
    MaxBatch = 6
    Unknown = Unknown
    Configs <- Runs
SPECIFICATION Spec
INVARIANTS
    SkippedIsReplaced
    WeightsAreReal
    SlabHoldsTheBatch
    SlabKeepsItsBudget
    SplitFitsMemory
CHECK_DEADLOCK FALSE

CONSTANTS
    Gain = 3
    Total = 128
    Reserve = 30
    Sysfs = TRUE
    Mode = "learn"
    ConfFrac = 25
    Candidates <- TwoCandidates
    Rate <- RateTable
    Geometry <- TwoGeometries
    Model <- TwoModels
    Others <- MuchMemory
    MayCancel = TRUE
    NoRow = NoRow
SPECIFICATION FairSpec
INVARIANTS
    NextStartFits

CONSTANTS
    Gain = 3
    Total = 128
    Reserve = 10
    Sysfs = TRUE
    Mode = "learn"
    ConfFrac = 25
    Candidates <- TwoCandidates
    Rate <- RateTable
    Geometry <- TwoGeometries
    Model <- TwoModels
    Others <- SomeMemory
    MayCancel = TRUE
    NoRow = NoRow
SPECIFICATION FairSpec
INVARIANTS
    RowsAreMeasurements
    FracIsItsOwn
    NextStartFits
PROPERTIES
    SearchConverges
    FracSettles

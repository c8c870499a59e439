CONSTANTS
    Gain = 3
    Total = 128
    Reserve = 10
    Sysfs = TRUE
    Mode = "auto"
    ConfFrac = 25
    Candidates <- TwoCandidates
    Rate <- RateTable
    Geometry <- OneGeometry
    Model <- TwoModels
    Others <- SomeMemory
    MayCancel = FALSE
    NoRow = NoRow
SPECIFICATION FairSpec
PROPERTIES
    SearchConverges

CONSTANTS
    NLayer = 2
    NExpert = 2
    NSlot = 3
    QuotaMin = 1
    EtaNum = 1
    EtaDen = 2
    QuotaPeriod = 1
    QuotaAdapt = TRUE
    MaxGhostHits = 1
    Expert = {e1, e2}
    NoSlot = NoSlot
    Slot = {s1, s2, s3}
    Origins = {"Demand"}
    GhostMult = 1
    PinCount = 1
    MaxRefs = 1
SYMMETRY Symmetry
SPECIFICATION Spec
INVARIANTS
    QueuesMatchEntries
PROPERTIES
    ForeignEvictionIsLastResort

CONSTANTS
    NLayer = 1
    NExpert = 5
    NSlot = 3
    QuotaMin = 1
    EtaNum = 1
    EtaDen = 10
    QuotaPeriod = 1
    QuotaAdapt = FALSE
    MaxGhostHits = 0
    Expert = {e1, e2, e3, e4, e5}
    NoSlot = NoSlot
    Nobody = Nobody
    Slot = {s1, s2, s3}
    Origins = {"Demand", "PrefetchLow", "Sweep"}
    GhostMult = 1
    PinCount = 0
    MaxRefs = 1
SYMMETRY Symmetry
SPECIFICATION Spec
INVARIANTS
    SlotsConserved
    ScanMatchesLoops
PROPERTIES
    ColdestGoesFirst
    ImplementsSlotCache

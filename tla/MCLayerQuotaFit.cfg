CONSTANTS
    NLayer = 3
    NExpert = 64
    NSlot = 30
    QuotaMin = 8
    EtaNum = 1
    EtaDen = 10
    QuotaPeriod = 1
    QuotaAdapt = TRUE
    MaxGhostHits = 2
SPECIFICATION QuotaSpec
INVARIANTS
    QuotasFitTheSlots

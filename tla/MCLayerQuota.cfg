CONSTANTS
    NLayer = 3
    NExpert = 64
    NSlot = 24
    QuotaMin = 4
    EtaNum = 1
    EtaDen = 5
    QuotaPeriod = 1
    QuotaAdapt = TRUE
    MaxGhostHits = 3
SPECIFICATION QuotaSpec
INVARIANTS
    QuotasCoverTheSlots
    QuotaFloor
PROPERTIES
    QuotaFollowsDemand

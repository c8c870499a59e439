CONSTANTS
    NLayer = 2
    NExpert = 3
    NSeat = 2
    NoSlot = NoSlot
    ZeroSlot = ZeroSlot
    Junk = Junk
    PASS_KEYS = 2
    MaxPass = 2
    MaxIds = 3
    DropFrom = 1
    Unreadable = {}
SPECIFICATION FairSpec
INVARIANTS
    GpuReadsTheRightExperts
    SlabSuffices
    RefsAreHeld
PROPERTIES
    AnsweredOnce
    RemapTerminates

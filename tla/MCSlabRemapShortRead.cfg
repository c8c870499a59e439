CONSTANTS
    NLayer = 2
    NExpert = 3
    NSeat = 2
    NoSlot = NoSlot
    ZeroSlot = ZeroSlot
    Junk = Junk
    PASS_KEYS = 8
    MaxPass = 1
    MaxIds = 2
    DropFrom = 2
    Unreadable = {0}
SPECIFICATION Spec
INVARIANTS
    DroppedContributesNothing

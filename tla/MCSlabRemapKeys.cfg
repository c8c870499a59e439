CONSTANTS
    NLayer = 2
    NExpert = 3
    NSeat = 2
    NoSlot = NoSlot
    ZeroSlot = ZeroSlot
    Junk = Junk
    PASS_KEYS = 2
    MaxPass = 3
    MaxIds = 3
    DropFrom = 2
    Unreadable = {}
SPECIFICATION Spec
INVARIANTS
    RefsAreHeld

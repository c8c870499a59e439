CONSTANTS
    NLayer = 3
    First = 1
    NWeight = 1
    NChunk = 2
    NBuf = 2
    ReadsMayFail = TRUE
    Stale = Stale
    None = None
SPECIFICATION Spec
INVARIANTS
    ResidentIsWhole

CONSTANTS
    NLayer = 6
    First = 2
    NWeight = 2
    NChunk = 2
    NBuf = 2
    ReadsMayFail = FALSE
    Stale = Stale
    None = None
SPECIFICATION Spec
PROPERTIES
    HeadComputeHidesReads

CONSTANTS
    NLayer = 6
    First = 1
    NWeight = 2
    NChunk = 3
    NBuf = 2
    ReadsMayFail = FALSE
    Stale = Stale
    None = None
SPECIFICATION FairSpec
INVARIANTS
    GpuReadsItsLayer
    ResidentIsWhole
PROPERTIES
    TokensAdvance

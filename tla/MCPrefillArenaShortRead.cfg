CONSTANTS
    NLayer = 3
    Expert = {e1, e2}
    NBuf = 2
    Async = TRUE
    Stale = Stale
    None = None
SPECIFICATION Spec
INVARIANT NeedIsInTheArena

CONSTANTS
    NLayer = 2
    NExpert = 3
    MaxTotal = 8
    Scale = 6
SPECIFICATION Spec
INVARIANTS
    ExactForLru
    BoundsEveryAllocation
    BoundIsReached
CHECK_DEADLOCK FALSE

SPECIFICATION Spec
CONSTANTS
    TimeoutPairs <- MCTimeouts
    MaxItems = 2
    ChunkMax = 2
INVARIANTS
    EndsInTime
    NeverTooSoon
    LostOnlyWhenStuck
PROPERTIES
    PipesSpec
    EndsWhenDataStops
\* A relay ends.
CHECK_DEADLOCK FALSE

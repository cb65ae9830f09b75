SPECIFICATION Spec
CONSTANTS
    TimeoutPairs <- MCSlow
    MaxItems = 2
    ChunkMax = 2
INVARIANTS
    FlowIsNotIdle
CHECK_DEADLOCK FALSE

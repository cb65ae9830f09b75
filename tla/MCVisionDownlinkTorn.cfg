SPECIFICATION Spec
CONSTANTS
    Streams <- MCTornStreams
    HeaderLen = 2
    ReadChunk = 4
    Garbage <- MCGarbage
    TornStart = TRUE
INVARIANTS
    RawNeverFedToTls
CHECK_DEADLOCK FALSE

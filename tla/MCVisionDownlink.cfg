SPECIFICATION Spec
CONSTANTS
    Streams <- MCStreams
    HeaderLen = 2
    ReadChunk = 4
    Garbage <- MCGarbage
    TornStart = FALSE
INVARIANTS
    TypeOK
    RawNeverFedToTls
    SwitchAtBoundary
PROPERTIES
    PipeSpec
    AllDelivered
\* A connection ends: "closed" has no successor.
CHECK_DEADLOCK FALSE

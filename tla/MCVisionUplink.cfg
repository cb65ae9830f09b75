SPECIFICATION Spec
CONSTANTS
    FilterPackets = 3
    UpPackets <- MCUpPackets
    DownPackets <- MCDownPackets
    MaxHanded = 5
    AlwaysFlush = FALSE
    TlsCap = 2
    SockCap = 3
INVARIANTS
    TypeOK
    ServerInSync
    DirectMeansTls13
PROPERTIES
    PipeSpec
    EverythingArrives
\* A connection ends, and a client may stay silent.
CHECK_DEADLOCK FALSE

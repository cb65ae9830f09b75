SPECIFICATION Spec
CONSTANTS
    FilterPackets = 3
    BufSize = 12
    UuidLen = 1
    FieldWidth = 16
    LongThreshold = 5
    LongBase = 5
    LongRange = 4
    ShortRange = 4
    MinHello = 8
    KeyLen = 2
    AccWidth = 65536
    MaxShortId = 2
    Ip4Len = 1
    Ip6Len = 2
    RequiredFlow <- MCFlow
    Runs <- MCRuns
    Randoms = {0, 3}
INVARIANTS
    TypeOK
    AsAsked
    NothingHeldBack
    RefusedForCause
    VerdictTrue
PROPERTIES
    PipesSpec
\* A connection ends.
CHECK_DEADLOCK FALSE

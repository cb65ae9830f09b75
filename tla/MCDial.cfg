SPECIFICATION DialSpec
CONSTANTS
    Dials = {d1, d2, d3}
    Retries = 1
    MaxMoves = 1
INVARIANTS
    MisledAtMost
PROPERTIES
    FindsServer
    Returns

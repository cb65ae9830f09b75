SPECIFICATION Spec
CONSTANTS
    Conns = {c1, c2, c3}
    Threads = {t1, t2}
    Libraries <- MCLibraries
    None = None
INVARIANTS
    TypeOK
    SentIsSealed
    OwnDraws
    RefusedForCause
\* A connection is opened once.
CHECK_DEADLOCK FALSE

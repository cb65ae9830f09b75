SPECIFICATION Spec
CONSTANTS
    Clients = {c1, c2, c3}
    Quiet = {c3}
    Limits <- MCLimits
    MaxMessages = 2
INVARIANTS
    SlotsKept
PROPERTIES
    QueueServed
    OpensOrEnds
\* The connections are finitely many.
CHECK_DEADLOCK FALSE

SPECIFICATION Spec
CONSTANTS
    Answers <- MCAnswers
    Delay = 2
INVARIANTS
    Alternates
    ErrorMeansAllFailed
    Staggered
PROPERTIES
    NeverIdle
    Connects
\* A call returns, or waits for an address that says nothing.
CHECK_DEADLOCK FALSE

SPECIFICATION Spec
CONSTANTS
    Callers = {c1, c2, c3}
    Runtimes = {r1, r2}
    Ports <- MCPorts
    Configs <- MCConfigs
    None = None
INVARIANTS
    RunningServes
    NoOrphan
PROPERTIES
    RestartWorks
    CallsReturn
\* The bound on runtimes ends a behaviour.
CHECK_DEADLOCK FALSE

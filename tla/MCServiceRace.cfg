SPECIFICATION Spec
CONSTANTS
    Callers = {c1, c2, c3}
    Runtimes = {r1, r2}
    Ports <- MCPorts
    Configs <- MCConfigs
    None = None
INVARIANTS
    NoCollision
CHECK_DEADLOCK FALSE

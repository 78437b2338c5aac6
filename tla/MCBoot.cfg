SPECIFICATION BootSpec
CONSTANTS
    t1 = t1
    t2 = t2
    get = get
    p1 = p1
    p2 = p2
    p3 = p3
    p4 = p4
    Turns <- MCTurns
    Statuses <- MCStatuses
    Pools <- MCPools
    Probe = Probe
    NoPool = NoPool
INVARIANTS
    BootTypeOK
    ReadyMeansChecked
    PoolsBounded
PROPERTIES
    StartupCompletes
    ShutdownCompletes
CHECK_DEADLOCK FALSE

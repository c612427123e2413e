CONSTANTS
    p1 = p1
    p2 = p2
    p3 = p3
    m1 = m1
    m2 = m2
    Ports <- MCPorts
    MACs <- MCMACs
    MAXPORT = 3
    StaleTicks = 1
    ExpireTime = 1
    SweepPeriod = 2
    SweepMin = 1
    MaxTick = 2
SPECIFICATION Spec
SYMMETRY MCSymmetry
INVARIANT MacBoundToLivePort

CONSTANTS
    Protos = {"tcp", "udp"}
    MaxRecs = 3
    MaxPkts = 7
SPECIFICATION Spec
\* netStatHandle blocks on an empty queue once traffic stops, and the
\* wheel has nothing left to fire: the flow really goes quiet.
CHECK_DEADLOCK FALSE
INVARIANT TypeOK
INVARIANT TimerAuthority
INVARIANT UdpNoOrphan
PROPERTY DeleteOwn
PROPERTY EventuallyUntracked

CONSTANTS
    Protos = {"tcp"}
    MaxRecs = 3
    MaxPkts = 6
SPECIFICATION Spec
\* netStatHandle blocks on an empty queue once traffic stops, and the
\* wheel has nothing left to fire: the flow really goes quiet.
CHECK_DEADLOCK FALSE
INVARIANT NoOrphan

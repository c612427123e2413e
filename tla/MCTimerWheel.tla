--------------------------- MODULE MCTimerWheel ---------------------------
EXTENDS TimerWheel

CONSTANTS t1, t2, nil,
          MaxJiffies   \* the ticks explored

MCTimersTwo == {t1, t2}

\* t1 is armed in tv1 and tv4, t2 in tv1 and tv2, where it shares the
\* slices t1 is cascaded into and fired from.
MCDelaysDeep == [t \in MCTimersTwo |-> IF t = t1 THEN {0, 9} ELSE {0, 2}]

TickBound == jiffies <= MaxJiffies

=============================================================================

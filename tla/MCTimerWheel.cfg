\* Two timers.  With TvrBits = TvnBits = 1, tv1 takes delays 0..1, tv2
\* 2..3, tv3 4..7, tv4 8..15 and tv5 16..31.  t1 asks for delays 0 and
\* 9 (tv4, cascaded at jiffies 8 into tv1 and fired at 9..10), t2 for 0
\* and 2, so the two share slices while t1 is cascaded down, and either may
\* be stopped, reset or re-armed meanwhile; 11 ticks cover it all.
CONSTANTS
  t1 = t1
  t2 = t2
  nil = nil
  Timers <- MCTimersTwo
  Nil <- nil
  TvrBits = 1
  TvnBits = 1
  Delays <- MCDelaysDeep
  MaxResets = 1
  MaxJiffies = 11
SPECIFICATION Spec
CONSTRAINT TickBound
INVARIANT IndexConsistent
PROPERTY ImplementsContract
PROPERTY CascadeMovesDown

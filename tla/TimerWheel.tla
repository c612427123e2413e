---------------------------- MODULE TimerWheel ----------------------------
(***************************************************************************)
(* The hierarchical timer wheel of vendor/timer/timer.go.  Five levels of  *)
(* buckets (tv1 with 2^TvrBits slots, tv2..tv5 with 2^TvnBits), a bucket   *)
(* is a slice to which addTimerInternal appends and which delTimer nils    *)
(* out in place; onTick cascades the higher levels when tv1 wraps, then    *)
(* takes tv1[jiffies & mask] and hands it to a new goroutine that runs the *)
(* callbacks.  The code's widths 8 and 6 are parameters so that tv1..tv4  *)
(* and their cascades are reached in a few dozen ticks.  Each timer        *)
(* has a user goroutine that creates it (NewTimerFunc / TickFunc), stops   *)
(* or resets it; the steps the code takes without the wheel's lock are     *)
(* separate actions.                                                       *)
(***************************************************************************)
EXTENDS Integers, Sequences, SequencesExt

CONSTANTS Timers,     \* the timers the callers create (one per user)
          Nil,        \* a slot cleared by delTimer
          TvrBits,    \* tvr_bits (8 in the code)
          TvnBits,    \* tvn_bits (6 in the code)
          Delays,     \* Delays[t]: the delays t's caller asks for, in ticks
                      \* (when / w.tick)
          MaxResets   \* bound on the Reset calls of one timer

VARIABLES jiffies,  \* w.jiffies
          tv,       \* tv[l][s]: the slice w.tv<l>[s]
          index,    \* t.index, -1 once fired or deleted
          lvl,      \* t.tv: the level the timer was last added to
          findex,   \* t.findex
          expires,  \* t.expires
          period,   \* t.period
          running,  \* the do_vec of every callback goroutine still running
          pc,       \* where the timer's user is
          resets    \* Reset calls made so far

vars == <<jiffies, tv, index, lvl, findex, expires, period, running, pc, resets>>

Levels == 1..5
Size(l) == IF l = 1 THEN 2^TvrBits ELSE 2^TvnBits
Slots(l) == 0..(Size(l) - 1)
\* idx < Bound(l) selects level l (for l in 1..4).
Bound(l) == 2^(TvrBits + (l - 1) * TvnBits)
\* the bit position of a level's slot index in expires (l in 2..5)
Shift(l) == 2^(TvrBits + (l - 2) * TvnBits)
\* 0x00000000ffffffff: tvr_bits + 4 * tvn_bits = 32 bits in the code
IdxCap == 2^(TvrBits + 4 * TvnBits) - 1

\* The wheel's state as one record, so that cascade can fold over it.
Wheel == [tv |-> tv, index |-> index, lvl |-> lvl, findex |-> findex]

----------------------------------------------------------------------------
(* Mutants: plausible slips in the code, used to show the properties bite. *)

\* tv1 is chosen for idx <= tvr_size instead of idx < tvr_size.
PlaceTv1Inclusive(exp, j) ==
  LET idx == exp - j IN
  CASE idx < 0 -> <<1, j % Size(1)>>
    [] 0 <= idx /\ idx <= Bound(1) -> <<1, exp % Size(1)>>
    [] Bound(1) < idx /\ idx < Bound(2) -> <<2, (exp \div Shift(2)) % Size(2)>>
    [] Bound(2) <= idx /\ idx < Bound(3) -> <<3, (exp \div Shift(3)) % Size(3)>>
    [] Bound(3) <= idx /\ idx < Bound(4) -> <<4, (exp \div Shift(4)) % Size(4)>>
    [] Bound(4) <= idx ->
         <<5, ((IF idx > IdxCap THEN IdxCap + j ELSE exp) \div Shift(5)) % Size(5)>>

----------------------------------------------------------------------------

\* addTimerInternal's choice of <<level, slot>>.  idx is a uint64: a
\* negative difference (expires computed from a jiffies the tick has since
\* passed) fails every `<` test and lands in the int64(idx) < 0 branch.
\* Beyond IdxCap the slot, not t.expires, is computed from the capped value.
Place(exp, j) ==
  LET idx == exp - j IN
  CASE idx < 0 -> <<1, j % Size(1)>>
    [] 0 <= idx /\ idx < Bound(1) -> <<1, exp % Size(1)>>
    [] Bound(1) <= idx /\ idx < Bound(2) -> <<2, (exp \div Shift(2)) % Size(2)>>
    [] Bound(2) <= idx /\ idx < Bound(3) -> <<3, (exp \div Shift(3)) % Size(3)>>
    [] Bound(3) <= idx /\ idx < Bound(4) -> <<4, (exp \div Shift(4)) % Size(4)>>
    [] Bound(4) <= idx ->
         <<5, ((IF idx > IdxCap THEN IdxCap + j ELSE exp) \div Shift(5)) % Size(5)>>

\* Mutant: t.index = len(tv[i]) instead of len(tv[i]) - 1.
AddInternalIndexLen(W, t, exp, j) ==
  LET p == Place(exp, j)
      b == Append(W.tv[p[1]][p[2]], t)
  IN [W EXCEPT !.tv[p[1]][p[2]] = b, !.index[t] = Len(b),
               !.lvl[t] = p[1], !.findex[t] = p[2]]

\* addTimerInternal: append t to its bucket and remember where it is.
AddInternal(W, t, exp, j) ==
  LET p == Place(exp, j)
      b == Append(W.tv[p[1]][p[2]], t)
  IN [W EXCEPT !.tv[p[1]][p[2]] = b, !.index[t] = Len(b) - 1,
               !.lvl[t] = p[1], !.findex[t] = p[2]]

\* cascade's loop: re-add every non-nil timer of vec, in order.
RECURSIVE AddAll(_, _, _)
AddAll(W, vec, j) ==
  IF vec = <<>> THEN W
  ELSE AddAll(IF Head(vec) = Nil THEN W
              ELSE AddInternal(W, Head(vec), expires[Head(vec)], j),
              Tail(vec), j)

\* cascade(tv, index): empty the bucket, then re-add what it held.
Cascade(W, l, s, j) == AddAll([W EXCEPT !.tv[l][s] = <<>>], W.tv[l][s], j)

\* Mutant: getIndex shifts by one level too many.
GetIndexOneUp(n, j) == (j \div 2^(TvrBits + (n + 1) * TvnBits)) % Size(2)

GetIndex(n, j) == (j \div 2^(TvrBits + n * TvnBits)) % Size(2)

\* onTick's `index == 0 && cascade(tv2, getIndex(0)) == 0 && ...`: level
\* n + 2 is cascaded, and the next one only if this one's index was 0.
RECURSIVE CascadeFrom(_, _, _)
CascadeFrom(W, n, j) ==
  LET W2 == Cascade(W, n + 2, GetIndex(n, j), j)
  IN IF GetIndex(n, j) = 0 /\ n < 3 THEN CascadeFrom(W2, n + 1, j) ELSE W2

SetWheel(W) ==
  /\ tv' = W.tv
  /\ index' = W.index
  /\ lvl' = W.lvl
  /\ findex' = W.findex

\* delTimer under the lock: false once fired (index = -1), else nil the slot.
DelTimer(t) ==
  IF index[t] = -1 THEN Wheel
  ELSE [Wheel EXCEPT !.tv[lvl[t]][findex[t]][index[t] + 1] = Nil,
                     !.index[t] = -1]

----------------------------------------------------------------------------
(* Actions *)

\* onTick, one critical section: cascade, jiffies++, take tv1[index],
\* mark its timers fired, and start `go f(do_vec)` if any.
OnTick ==
  LET i   == jiffies % Size(1)
      W   == IF i = 0 THEN CascadeFrom(Wheel, 0, jiffies) ELSE Wheel
      vec == W.tv[1][i]
      doVec == SelectSeq(vec, LAMBDA t : t # Nil)
  IN /\ jiffies' = jiffies + 1
     /\ tv' = [W.tv EXCEPT ![1][i] = <<>>]
     /\ index' = [t \in Timers |-> IF t \in ToSet(doVec) THEN -1 ELSE W.index[t]]
     /\ lvl' = W.lvl
     /\ findex' = W.findex
     /\ running' = IF doVec = <<>> THEN running ELSE running \cup {doVec}
     /\ UNCHANGED <<expires, period, pc, resets>>

\* NewTimerFunc(d, f) and TickFunc(d, f): newTimer reads w.jiffies without
\* the lock; addTimer follows as a separate step.
NewTimerFunc(t, d) ==
  /\ pc[t] = "free"
  /\ expires' = [expires EXCEPT ![t] = jiffies + d]
  /\ period' = [period EXCEPT ![t] = 0]
  /\ pc' = [pc EXCEPT ![t] = "made"]
  /\ UNCHANGED <<jiffies, tv, index, lvl, findex, running, resets>>

TickFunc(t, d) ==
  /\ pc[t] = "free"
  /\ expires' = [expires EXCEPT ![t] = jiffies + d]
  /\ period' = [period EXCEPT ![t] = d]
  /\ pc' = [pc EXCEPT ![t] = "made"]
  /\ UNCHANGED <<jiffies, tv, index, lvl, findex, running, resets>>

\* addTimer: lock, addTimerInternal, unlock.
AddTimer(t) ==
  /\ pc[t] = "made"
  /\ SetWheel(AddInternal(Wheel, t, expires[t], jiffies))
  /\ pc' = [pc EXCEPT ![t] = "armed"]
  /\ UNCHANGED <<jiffies, expires, period, running, resets>>

\* Timer.Stop: delTimer; the caller drops the timer whatever it returns.
Stop(t) ==
  /\ pc[t] = "armed"
  /\ SetWheel(DelTimer(t))
  /\ pc' = [pc EXCEPT ![t] = "done"]
  /\ UNCHANGED <<jiffies, expires, period, running, resets>>

\* Timer.Reset(d) = resetTimer(t, d, 0): delTimer; on success compute the
\* new expiry (at least 1 tick) from the unlocked jiffies, then addTimer.
Reset(t, d) ==
  /\ pc[t] = "armed"
  /\ period[t] = 0
  /\ resets[t] < MaxResets
  /\ resets' = [resets EXCEPT ![t] = @ + 1]
  /\ SetWheel(DelTimer(t))
  /\ IF index[t] # -1
       THEN /\ expires' = [expires EXCEPT ![t] = jiffies + (IF d = 0 THEN 1 ELSE d)]
            /\ pc' = [pc EXCEPT ![t] = "made"]
       ELSE UNCHANGED <<expires, pc>>
  /\ UNCHANGED <<jiffies, period, running>>

\* One iteration of f(do_vec): run t.f, then re-add a periodic timer at
\* period + w.jiffies.
Callback(b) ==
  LET t == Head(b) IN
  /\ running' = (running \ {b}) \cup (IF Tail(b) = <<>> THEN {} ELSE {Tail(b)})
  /\ IF period[t] > 0
       THEN /\ expires' = [expires EXCEPT ![t] = period[t] + jiffies]
            /\ SetWheel(AddInternal(Wheel, t, period[t] + jiffies, jiffies))
       ELSE UNCHANGED <<expires, tv, index, lvl, findex>>
  /\ UNCHANGED <<jiffies, period, pc, resets>>

Init ==
  /\ jiffies = 0
  /\ tv = [l \in Levels |-> [s \in Slots(l) |-> <<>>]]
  /\ index = [t \in Timers |-> -1]
  /\ lvl = [t \in Timers |-> 1]
  /\ findex = [t \in Timers |-> 0]
  /\ expires = [t \in Timers |-> 0]
  /\ period = [t \in Timers |-> 0]
  /\ running = {}
  /\ pc = [t \in Timers |-> "free"]
  /\ resets = [t \in Timers |-> 0]

Next ==
  \/ OnTick
  \/ \E b \in running : Callback(b)
  \/ \E t \in Timers :
       \/ AddTimer(t) \/ Stop(t)
       \/ \E d \in Delays[t] : NewTimerFunc(t, d) \/ Reset(t, d)
       \/ \E d \in Delays[t] \ {0} : TickFunc(t, d)

Spec == Init /\ [][Next]_vars

----------------------------------------------------------------------------
(* Properties *)

\* delTimer never panics: every timer that has not fired is found at
\* t.tv[t.findex][t.index], in bounds, across appends, cascades and the
\* nil-ing of other timers' slots.
IndexConsistent ==
  \A t \in Timers : index[t] # -1 =>
     /\ index[t] < Len(tv[lvl[t]][findex[t]])
     /\ tv[lvl[t]][findex[t]][index[t] + 1] = t

\* The wheel implements the timer contract: mapping jiffies to the clock,
\* a timer with index # -1 to an armed one with deadline t.expires, and the
\* timers of the running do_vecs to the queued ones, every onTick fires
\* exactly the timers due by then, whatever level they were added to.
InDoVec == {t \in Timers : \E b \in running : t \in ToSet(b)}

Contract == INSTANCE TimerContract WITH
  now <- jiffies,
  deadline <- [t \in Timers |-> IF index[t] # -1 THEN expires[t] ELSE -1],
  queued <- InDoVec,
  period <- [t \in Timers |-> IF index[t] # -1 \/ t \in InDoVec THEN period[t] ELSE 0]

ImplementsContract == Contract!Spec

\* onTick at jiffies j cascades level l: tv1 wrapped and every lower
\* level's cascade returned index 0.
CascadeReaches(l, j) ==
  j % Size(1) = 0 /\ \A m \in 0..(l - 3) : GetIndex(m, j) = 0

\* cascade keeps the emptied bucket on the backing array it is still
\* ranging over (tv[index] = vec[0:0:cap(vec)]), so a timer re-added to
\* that same bucket would overwrite entries not yet read.  Every timer
\* onTick takes out of a cascaded tv2..tv5 bucket goes to a lower level.
CascadeMovesDown ==
  [][jiffies' # jiffies =>
       \A t \in Timers :
         (/\ index[t] # -1
          /\ lvl[t] > 1
          /\ CascadeReaches(lvl[t], jiffies)
          /\ findex[t] = GetIndex(lvl[t] - 2, jiffies)) => lvl'[t] < lvl[t]]_vars

=============================================================================

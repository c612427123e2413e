--------------------------- MODULE TimerContract ---------------------------
(***************************************************************************)
(* What a timer of vendor/timer promises its callers (netstat, nat): a     *)
(* clock `now` counted in ticks; a timer is armed with a deadline; the     *)
(* tick from `now` to `now + 1` fires, atomically, exactly the armed       *)
(* timers whose deadline is at most `now`; a fired timer cannot be         *)
(* cancelled, and its callback runs later, re-arming it `period` ticks     *)
(* after the current time when it is periodic.  TimerWheel implements it.  *)
(***************************************************************************)
EXTENDS Integers

CONSTANTS Timers

Unarmed == -1

VARIABLES now,       \* the wheel's jiffies
          deadline,  \* deadline of an armed timer, Unarmed otherwise
          queued,    \* fired timers whose callback has not run yet
          period     \* re-arm period of an armed or queued timer, 0 = one-shot

vars == <<now, deadline, queued, period>>

TypeOK ==
  /\ now \in Nat
  /\ deadline \in [Timers -> Nat \cup {Unarmed}]
  /\ queued \subseteq Timers
  /\ period \in [Timers -> Nat]

Init ==
  /\ now = 0
  /\ deadline = [t \in Timers |-> Unarmed]
  /\ queued = {}
  /\ period = [t \in Timers |-> 0]

\* Arm an idle timer with any deadline (a deadline already in the past
\* fires at the next tick) and any period.
Arm(t) ==
  /\ deadline[t] = Unarmed
  /\ t \notin queued
  /\ deadline'[t] \in Nat
  /\ period'[t] \in Nat
  /\ deadline' = [deadline EXCEPT ![t] = deadline'[t]]
  /\ period' = [period EXCEPT ![t] = period'[t]]
  /\ UNCHANGED <<now, queued>>

\* A successful Stop: only an armed timer can be cancelled.
Cancel(t) ==
  /\ deadline[t] # Unarmed
  /\ deadline' = [deadline EXCEPT ![t] = Unarmed]
  /\ period' = [period EXCEPT ![t] = 0]
  /\ UNCHANGED <<now, queued>>

Due == {t \in Timers : deadline[t] # Unarmed /\ deadline[t] <= now}

Tick ==
  /\ now' = now + 1
  /\ queued' = queued \cup Due
  /\ deadline' = [t \in Timers |-> IF t \in Due THEN Unarmed ELSE deadline[t]]
  /\ UNCHANGED period

Run(t) ==
  /\ t \in queued
  /\ queued' = queued \ {t}
  /\ deadline' = IF period[t] > 0
                   THEN [deadline EXCEPT ![t] = now + period[t]]
                   ELSE deadline
  /\ UNCHANGED <<now, period>>

Next ==
  \/ Tick
  \/ \E t \in Timers : Arm(t) \/ Cancel(t) \/ Run(t)

Spec == Init /\ [][Next]_vars

=============================================================================

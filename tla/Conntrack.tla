----------------------------- MODULE Conntrack -----------------------------
(***************************************************************************)
(* Connection tracking of src/netstat for one flow (one tuple and its      *)
(* inverse) of one zone.                                                   *)
(*                                                                         *)
(* Two kinds of actor share a conntrack record:                            *)
(*  - the netStatHandle goroutine, which takes packets off netStatQueue    *)
(*    one at a time and runs tcpHandler or udpHandler;                     *)
(*  - the timer wheel: onTick marks every timer due this tick as fired     *)
(*    (t.index = -1, after which delTimer / Stop / Reset return false) and *)
(*    runs their callbacks (ctTimeoutDel, ctESTABLISHEDTimeout) later, in a *)
(*    goroutine of its own.                                                *)
(* The code uses a successful Stop or Reset as the proof that no callback  *)
(* of the record is running; the model keeps every timer a record ever     *)
(* armed so that this can be checked.                                      *)
(*                                                                         *)
(* Each CreateConntrack makes a new record object; records are 1..MaxRecs. *)
(* Packets are given by their direction relative to the record they find   *)
(* (ct.Dir) and their TCP flags; the timeouts' lengths are abstracted to   *)
(* "may fire at any tick", since packets arrive at any time.               *)
(***************************************************************************)
EXTENDS Integers, Sequences, FiniteSets

CONSTANTS
    Protos,     \* the protocols the flow may have: its packets reach
                \* tcpHandler or udpHandler (netStatHandle's switch)
    MaxRecs,    \* bound on CreateConntrack calls
    MaxPkts     \* bound on packets handled

ASSUME Protos \subseteq {"tcp", "udp"} /\ Protos # {}
ASSUME {MaxRecs, MaxPkts} \subseteq Nat \ {0}

Recs == 1 .. MaxRecs

\* ct.status values (conntrack.go).
CT_NEW == 0
CT_REPLY == 1
CT_ESTABLISHED == 2
CT_DEL == 3

\* ct.Dir values.
Dirs == {"origin", "reply"}

\* TCP flag combinations told apart by tcpHandler: IsSyn / IsAck compare the
\* whole byte, IsSynAck and the RST/FIN test look at single bits.
TcpFlags == {"SYN", "SYNACK", "ACK", "FINACK", "RST", "PSHACK"}
RstOrFin(f) == f \in {"FINACK", "RST"}

\* Timer callbacks armed by the conntrack code.
Callbacks == {"ctTimeoutDel", "ctESTABLISHEDTimeout"}
\* A timer: armed in the wheel, fired (index = -1, callback not yet run),
\* stopped by delTimer, or done (callback returned).
TimerStates == {"pending", "fired", "stopped", "done"}
Timer(cb) == [cb |-> cb, st |-> "pending"]

VARIABLES
    proto,      \* the flow's protocol (fixed by its tuple)
    table,      \* nct.conntracks: the record both tuple keys map to (0: none)
    nrecs,      \* records created so far
    status,     \* ct.status per record
    dirty,      \* ct.stats differs from the stats the current EST timer holds
    timers,     \* every timer each record armed, in order; the last is ct.timer
    pkts        \* packets handled so far

vars == <<proto, table, nrecs, status, dirty, timers, pkts>>

Cur(r) == timers[r][Len(timers[r])]
Arm(ts, r, cb) == [ts EXCEPT ![r] = Append(@, Timer(cb))]
Done(ts, r, i) == [ts EXCEPT ![r][i].st = "done"]

(***************************************************************************)
(* timer.Stop / timer.Reset on ct.timer: delTimer fails once onTick has    *)
(* set index = -1; resetTimer is delTimer followed, only on success, by a  *)
(* re-add, so a fired timer is never re-armed.                             *)
(***************************************************************************)
StopOkIgnoringFired(r) == Cur(r).st \in {"pending", "fired"}
StopOk(r) == Cur(r).st = "pending"
Stopped(r) ==
    IF Cur(r).st = "pending"
    THEN [timers EXCEPT ![r][Len(timers[r])].st = "stopped"] ELSE timers
ResetOk(r) == Cur(r).st = "pending"

\* CreateConntrack + addConntrack + NewTimerFunc(cb): a new record indexed
\* under both keys, with the origin stats counted.
Create(cb) ==
    LET r == nrecs + 1 IN
    /\ nrecs < MaxRecs
    /\ nrecs' = r
    /\ table' = r
    /\ status' = [status EXCEPT ![r] = CT_NEW]
    /\ dirty' = [dirty EXCEPT ![r] = TRUE]
    /\ timers' = [timers EXCEPT ![r] = <<Timer(cb)>>]

(***************************************************************************)
(* tcpHandler (net.go), one packet of a found, live record r: count it in *)
(* ct.stats, then act on its flags.                                        *)
(***************************************************************************)
TcpFound(r, dir, flag) ==
    LET counted == [dirty EXCEPT ![r] = TRUE] IN
    /\ CASE RstOrFin(flag) ->
              \* under ct.Lock: status = DEL; a DEL timer only if Stop
              \* removed the current timer from the wheel.
              /\ status' = [status EXCEPT ![r] = CT_DEL]
              /\ timers' = IF StopOk(r) THEN Arm(Stopped(r), r, "ctTimeoutDel")
                           ELSE timers
              /\ dirty' = counted
         [] status[r] = CT_ESTABLISHED ->
              /\ dirty' = counted
              /\ UNCHANGED <<status, timers>>
         [] flag = "SYNACK" ->
              \* SYN-RCVD: only from the reply side; Reset(SYN_RCVD) succeeds
              \* only while the SYN timer is still in the wheel.
              /\ status' = IF dir = "reply" /\ ResetOk(r)
                           THEN [status EXCEPT ![r] = CT_REPLY] ELSE status
              /\ dirty' = counted
              /\ UNCHANGED timers
         [] flag = "ACK" /\ status[r] = CT_REPLY /\ StopOk(r) ->
              \* ESTABLISHED: the EST timer holds the stats just counted.
              /\ status' = [status EXCEPT ![r] = CT_ESTABLISHED]
              /\ timers' = Arm(Stopped(r), r, "ctESTABLISHEDTimeout")
              /\ dirty' = [dirty EXCEPT ![r] = FALSE]
         [] OTHER ->
              /\ dirty' = counted
              /\ UNCHANGED <<status, timers>>
    /\ UNCHANGED <<table, nrecs>>

Ignore == UNCHANGED <<table, nrecs, status, dirty, timers>>

TcpPacket ==
    \E dir \in Dirs, flag \in TcpFlags, outBound \in BOOLEAN :
       /\ pkts < MaxPkts
       /\ pkts' = pkts + 1
       /\ CASE flag = "SYN" /\ table = 0 /\ outBound -> Create("ctTimeoutDel")
            \* an inbound SYN of an unknown flow, a repeat SYN (its Reset
            \* leaves a pending timer pending and a fired one fired), or a
            \* packet of an unknown or dying flow
            [] flag = "SYN" \/ table = 0 \/ status[table] = CT_DEL -> Ignore
            [] OTHER -> TcpFound(table, dir, flag)

(***************************************************************************)
(* udpHandler (net.go), one packet.                                        *)
(***************************************************************************)
UdpFound(r, dir) ==
    /\ IF status[r] # CT_ESTABLISHED /\ dir = "reply" /\ StopOk(r)
       THEN /\ status' = [status EXCEPT ![r] = CT_ESTABLISHED]
            /\ timers' = Arm(Stopped(r), r, "ctESTABLISHEDTimeout")
            /\ dirty' = [dirty EXCEPT ![r] = FALSE]
       ELSE /\ dirty' = [dirty EXCEPT ![r] = TRUE]
            /\ UNCHANGED <<status, timers>>
    /\ UNCHANGED <<table, nrecs>>

UdpPacket ==
    \E dir \in Dirs :
       /\ pkts < MaxPkts
       /\ pkts' = pkts + 1
       /\ CASE table = 0 -> Create("ctTimeoutDel")
            [] status[table] = CT_DEL -> Ignore
            [] OTHER -> UdpFound(table, dir)

(***************************************************************************)
(* Timer wheel: onTick fires a pending timer; a later step runs its        *)
(* callback in the goroutine onTick started.                               *)
(***************************************************************************)
Fire(r, i) ==
    /\ timers[r][i].st = "pending"
    /\ timers' = [timers EXCEPT ![r][i].st = "fired"]
    /\ UNCHANGED <<proto, table, nrecs, status, dirty, pkts>>

\* ctTimeoutDel: status = DEL, then delConntrack deletes both tuple keys,
\* whichever record they map to.
CtTimeoutDel(r, i) ==
    /\ status' = [status EXCEPT ![r] = CT_DEL]
    /\ table' = 0
    /\ timers' = Done(timers, r, i)
    /\ UNCHANGED <<dirty, nrecs>>

StatsMovedAlways(r) == TRUE
\* oldStats != ct.stats: a packet was counted since the timer was armed.
StatsMoved(r) == dirty[r]

CtESTABLISHEDTimeoutNoDelTimer(r, i) ==
    /\ CASE status[r] = CT_DEL ->
              /\ timers' = Done(timers, r, i)
              /\ UNCHANGED <<status, dirty>>
         [] StatsMoved(r) ->
              /\ timers' = Arm(Done(timers, r, i), r, "ctESTABLISHEDTimeout")
              /\ dirty' = [dirty EXCEPT ![r] = FALSE]
              /\ UNCHANGED status
         [] OTHER ->
              /\ timers' = Done(timers, r, i)
              /\ status' = [status EXCEPT ![r] = CT_DEL]
              /\ UNCHANGED dirty
    /\ UNCHANGED <<table, nrecs>>

\* ctESTABLISHEDTimeout, under ct.Lock: nothing if DEL; re-arm if the
\* stats moved since the timer was armed; otherwise DEL and a DEL timer.
CtESTABLISHEDTimeout(r, i) ==
    /\ CASE status[r] = CT_DEL ->
              /\ timers' = Done(timers, r, i)
              /\ UNCHANGED <<status, dirty>>
         [] StatsMoved(r) ->
              /\ timers' = Arm(Done(timers, r, i), r, "ctESTABLISHEDTimeout")
              /\ dirty' = [dirty EXCEPT ![r] = FALSE]
              /\ UNCHANGED status
         [] OTHER ->
              /\ timers' = Arm(Done(timers, r, i), r, "ctTimeoutDel")
              /\ status' = [status EXCEPT ![r] = CT_DEL]
              /\ UNCHANGED dirty
    /\ UNCHANGED <<table, nrecs>>

Callback(r, i) ==
    /\ timers[r][i].st = "fired"
    /\ IF timers[r][i].cb = "ctTimeoutDel" THEN CtTimeoutDel(r, i)
       ELSE CtESTABLISHEDTimeout(r, i)
    /\ UNCHANGED <<proto, pkts>>

Init ==
    /\ proto \in Protos
    /\ table = 0
    /\ nrecs = 0
    /\ status = [r \in Recs |-> CT_NEW]
    /\ dirty = [r \in Recs |-> FALSE]
    /\ timers = [r \in Recs |-> <<>>]
    /\ pkts = 0

TimerSlots == UNION {{<<r, i>> : i \in 1 .. Len(timers[r])} : r \in Recs}

\* Every timer needs a packet or a DEL step of its record to be armed.
TimerBound == 2 * MaxPkts + 2

Next ==
    /\ UNCHANGED proto
    /\ \/ proto = "tcp" /\ TcpPacket
       \/ proto = "udp" /\ UdpPacket
       \/ \E s \in TimerSlots : Fire(s[1], s[2])
       \/ \E s \in TimerSlots : Callback(s[1], s[2])

Fairness ==
    /\ \A r \in Recs, i \in 1 .. TimerBound :
          /\ WF_vars(i <= Len(timers[r]) /\ Fire(r, i))
          /\ WF_vars(i <= Len(timers[r]) /\ Callback(r, i))

\* The wheel's run goroutine calls onTick every tick and onTick starts the
\* callbacks' goroutine unconditionally: firing and running are weakly fair.
Spec == Init /\ [][Next]_vars /\ Fairness

(***************************************************************************)
(* Properties                                                              *)
(***************************************************************************)
Live(t) == t.st \in {"pending", "fired"}

\* Types; and no record arms more timers than its packets can account for
\* (ctESTABLISHEDTimeout re-arms only when ct.stats moved), which is also
\* what makes TimerBound in Fairness cover every timer.
TypeOK ==
    /\ table \in 0 .. nrecs
    /\ nrecs \in 0 .. MaxRecs
    /\ status \in [Recs -> {CT_NEW, CT_REPLY, CT_ESTABLISHED, CT_DEL}]
    /\ dirty \in [Recs -> BOOLEAN]
    /\ \A r \in Recs :
          /\ Len(timers[r]) <= TimerBound
          /\ \A i \in 1 .. Len(timers[r]) :
                timers[r][i] \in [cb : Callbacks, st : TimerStates]
    /\ pkts \in 0 .. MaxPkts
    /\ proto \in Protos

\* The handler arms a new ct.timer only after Stop (or, for SYN-RCVD,
\* Reset) succeeded, and a callback arms one only from its own fired
\* timer: a record never has two timers in the wheel or in flight, so its
\* callbacks never run concurrently.
TimerAuthority ==
    \A r \in Recs : Cardinality({i \in 1 .. Len(timers[r]) : Live(timers[r][i])}) <= 1

\* A tracked record always has a timer in the wheel or in flight whose
\* callback will remove or re-arm it: never a record left in the table
\* with nothing to delete it (RST/FIN sets DEL and arms a DEL timer only if
\* Stop succeeds; ctESTABLISHEDTimeout does nothing for a DEL record).
NoOrphan ==
    table # 0 =>
        \E i \in 1 .. Len(timers[table]) :
            /\ Live(timers[table][i])
            /\ ~(timers[table][i].cb = "ctESTABLISHEDTimeout" /\ status[table] = CT_DEL)

\* delConntrack deletes the tuple keys whatever record they map to; it
\* only ever runs from the ctTimeoutDel of the record the keys map to, so
\* a late callback of a dead record never untracks its successor.
DeleteOwn ==
    [][table # 0 /\ table' = 0 =>
         \E i \in 1 .. Len(timers[table]) :
            /\ timers[table][i].cb = "ctTimeoutDel"
            /\ timers[table][i].st = "fired"
            /\ timers'[table][i].st = "done"]_vars

\* udpHandler never orphans a record: NoOrphan for a UDP flow, whose only
\* DEL path is ctESTABLISHEDTimeout arming the DEL timer itself.
UdpNoOrphan == proto = "udp" => NoOrphan

\* Every record udpHandler creates is eventually untracked: its timers
\* run out once its traffic stops.
EventuallyUntracked == \A r \in Recs : (proto = "udp" /\ table = r) ~> (table # r)

=============================================================================

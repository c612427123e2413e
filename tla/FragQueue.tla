----------------------------- MODULE FragQueue -----------------------------
(***************************************************************************)
(* IPv4 fragment reassembly of nat/fragment.go, driven by the fragment     *)
(* branch of ipHandler (nat/snat.go): the fragQueue of one key             *)
(* (proto, id, sip, dip), fed with the fragments of successive datagrams   *)
(* that share the key (the 16-bit IP id is reused).  A fragment's payload  *)
(* buffer is abstracted to its identity <<datagram, position>>; the queue  *)
(* keeps the code's list order, meat, qLen and flags.  The network may     *)
(* deliver a fragment twice.                                               *)
(***************************************************************************)
EXTENDS Integers, Sequences, SequencesExt

CONSTANTS Datagrams, \* sequence of datagrams, each a sequence of
                     \* [off, len, more] fragments in offset order
          MaxDup,    \* bound on duplicated deliveries
          FirstFragmentFirst \* the network delivers a datagram's first
                             \* fragment before its others

DIds == 1..Len(Datagrams)
FIds == UNION {{<<k, i>> : i \in 1..Len(Datagrams[k])} : k \in DIds}

Off(f)   == Datagrams[f[1]][f[2]].off
FLen(f)  == Datagrams[f[1]][f[2]].len
FLast(f) == Off(f) + FLen(f)          \* createFragment's last
More(f)  == Datagrams[f[1]][f[2]].more

VARIABLES fq,        \* the fragQueue of the key, or NoQueue
          flight,    \* copies of each fragment the network still holds
          arrived,   \* fragments ipHandler has seen at least once
          sending,   \* the datagram the sender is on
          dups,      \* duplications so far
          delivered, \* chains returned by completed(), in order
          crashed    \* a log.Panicf ended the process

vars == <<fq, flight, arrived, sending, dups, delivered, crashed>>

NoQueue == [list |-> <<>>, meat |-> 0, qLen |-> 0, flag |-> {}, exists |-> FALSE]
\* newfragQueue
NewQueue == [NoQueue EXCEPT !.exists = TRUE]

\* Every fragment of datagram k, in offset order: the chain a correct
\* reassembly hands on.
Whole(k) == [i \in 1..Len(Datagrams[k]) |-> <<k, i>>]

----------------------------------------------------------------------------
(* Mutant: the tail branch accumulates qLen (qLen += last). *)
LastFragmentAccumulating(q, f) ==
  LET q2 == [q EXCEPT !.list = Append(@, f), !.meat = @ + FLen(f),
                      !.qLen = @ + FLast(f), !.flag = @ \cup {"LAST_IN"}]
  IN IF q2.qLen = q2.meat
       THEN [res |-> "done", q |-> [q2 EXCEPT !.flag = @ \cup {"COMPLETE"}]]
       ELSE [res |-> "stolen", q |-> q2]

(* Mutant: the middle branch completes without FRAG_LAST_IN. *)
MiddleNoLastIn(q, f, p) ==
  LET l == InsertAt(q.list, p + 1, f)
      q2 == [q EXCEPT !.list = l, !.qLen = IF @ < FLast(f) THEN FLast(f) ELSE @,
                      !.meat = @ + FLen(f)]
  IN IF q2.qLen = q2.meat
       THEN [res |-> "done", q |-> [q2 EXCEPT !.flag = @ \cup {"COMPLETE"}]]
       ELSE [res |-> "stolen", q |-> q2]

----------------------------------------------------------------------------

\* Middle fragment inserted after position p (fragment.go:105-114).
Middle(q, f, p) ==
  LET l == InsertAt(q.list, p + 1, f)
      q2 == [q EXCEPT !.list = l, !.qLen = IF @ < FLast(f) THEN FLast(f) ELSE @,
                      !.meat = @ + FLen(f)]
  IN IF "LAST_IN" \in q2.flag /\ q2.qLen = q2.meat
       THEN [res |-> "done", q |-> [q2 EXCEPT !.flag = @ \cup {"COMPLETE"}]]
       ELSE [res |-> "stolen", q |-> q2]

\* The tail fragment (!more) appended at the back (fragment.go:80-93).
LastFragment(q, f) ==
  LET q2 == [q EXCEPT !.list = Append(@, f), !.meat = @ + FLen(f),
                      !.qLen = FLast(f), !.flag = @ \cup {"LAST_IN"}]
  IN IF q2.qLen = q2.meat
       THEN [res |-> "done", q |-> [q2 EXCEPT !.flag = @ \cup {"COMPLETE"}]]
       ELSE [res |-> "stolen", q |-> q2]

\* ProcessFragment: res is "reject" (ok = false), "stolen" (ok, not done),
\* "done" (ok and done) or "panic" (log.Panicf).
ProcessFragment(q, f) ==
  LET Back == q.list[Len(q.list)]
      \* the loop from the back stops at the last e with offset >= e.last
      Pos == {p \in 1..Len(q.list) : Off(f) >= FLast(q.list[p])}
      p == Max(Pos)
  IN
  CASE "COMPLETE" \in q.flag -> [res |-> "reject", q |-> q]
    [] q.list = <<>> ->
         [res |-> "stolen",
          q |-> [q EXCEPT !.list = <<f>>, !.meat = @ + FLen(f), !.qLen = FLast(f)]]
    [] q.list # <<>> /\ ~More(f) /\ FLast(Back) > Off(f) ->
         [res |-> "panic", q |-> q]
    [] q.list # <<>> /\ ~More(f) /\ FLast(Back) <= Off(f) -> LastFragment(q, f)
    [] q.list # <<>> /\ More(f) /\ Pos = {} -> [res |-> "reject", q |-> q]
    [] q.list # <<>> /\ More(f) /\ Pos # {} /\ p < Len(q.list)
         /\ FLast(f) > Off(q.list[p + 1]) -> [res |-> "panic", q |-> q]
    [] q.list # <<>> /\ More(f) /\ Pos # {}
         /\ (p = Len(q.list) \/ FLast(f) <= Off(q.list[p + 1])) -> Middle(q, f, p)

----------------------------------------------------------------------------
(* Actions *)

\* ipHandler's fragment branch for one arriving fragment: fragQueueFind,
\* newfragQueue + fragQueueAdd when absent, ProcessFragment, then DROP,
\* STOLEN, or completed() and the chain goes on to the transport handler.
\* Under FirstFragmentFirst arrival respects the order the reassembly
\* contract asks for (every fragment has an insertion point); otherwise
\* fragments arrive in any order.
IpHandler(f) ==
  /\ ~crashed
  /\ flight[f] > 0
  /\ FirstFragmentFirst => (f[2] = 1 \/ <<f[1], 1>> \in arrived)
  /\ LET r == ProcessFragment(IF fq.exists THEN fq ELSE NewQueue, f) IN
     /\ fq' = r.q
     /\ crashed' = (r.res = "panic")
     /\ delivered' = IF r.res = "done" THEN Append(delivered, r.q.list) ELSE delivered
  /\ flight' = [flight EXCEPT ![f] = @ - 1]
  /\ arrived' = arrived \cup {f}
  /\ UNCHANGED <<sending, dups>>

\* The network delivers a fragment once more.
Duplicate(f) ==
  /\ flight[f] > 0
  /\ dups < MaxDup
  /\ flight' = [flight EXCEPT ![f] = @ + 1]
  /\ dups' = dups + 1
  /\ UNCHANGED <<fq, arrived, sending, delivered, crashed>>

\* The sender moves on to the next datagram with the same IP id once the
\* previous one has left the network.
Send ==
  /\ ~crashed
  /\ sending < Len(Datagrams)
  /\ \A f \in FIds : flight[f] = 0
  /\ sending' = sending + 1
  /\ flight' = [f \in FIds |-> IF f[1] = sending + 1 THEN 1 ELSE 0]
  /\ UNCHANGED <<fq, arrived, dups, delivered, crashed>>

Init ==
  /\ fq = NoQueue
  /\ flight = [f \in FIds |-> IF f[1] = 1 THEN 1 ELSE 0]
  /\ arrived = {}
  /\ sending = 1
  /\ dups = 0
  /\ delivered = <<>>
  /\ crashed = FALSE

Next ==
  \/ Send
  \/ \E f \in FIds : IpHandler(f) \/ Duplicate(f)

Spec == Init /\ [][Next]_vars

----------------------------------------------------------------------------
(* Properties *)

\* the largest end offset of any fragment sent
MaxEnd == Max({FLast(f) : f \in FIds})

TypeOK ==
  /\ fq.list \in Seq(FIds)
  /\ fq.meat \in 0..MaxEnd
  /\ fq.qLen \in 0..MaxEnd
  /\ fq.flag \subseteq {"LAST_IN", "COMPLETE"}
  /\ flight \in [FIds -> Nat]
  /\ sending \in DIds
  /\ dups \in 0..MaxDup
  /\ crashed \in BOOLEAN

\* What completed() hands on is exactly one whole datagram, its fragments
\* in offset order: ProcessFragment's meat/qLen bookkeeping and the
\* FRAG_LAST_IN test never declare a queue complete with a hole, a missing
\* tail or a fragment of another datagram.
CompleteIsExact ==
  \A c \in ToSet(delivered) : \E k \in DIds : c = Whole(k)

=============================================================================

----------------------------- MODULE Heartbeat -----------------------------
(***************************************************************************)
(* Liveness of one vnet link (vnet/heartbeat.go): the HeartBeat goroutine  *)
(* of client c, the heartbeat branch of c's reader (HearbeatPktHandle ->   *)
(* checkHeartBeat), c.hb.hbTimer, and the peer at the other end of the TCP *)
(* connection, which answers each request with its id and may die         *)
(* silently.  out is everything between c's PutPktToChan2 and the peer's   *)
(* reader (pktchan, the writer, the socket buffers), in everything between *)
(* the peer and c's reader; both are FIFO and bounded.  A message is a     *)
(* record [k, id, cur]: cur is a history flag, TRUE while the request it   *)
(* belongs to is the latest one c sent.                                    *)
(***************************************************************************)
EXTENDS Integers, Sequences

CONSTANTS HBBits,       \* width of hbID (uint16 in the code)
          HeartbeatCnt, \* HeartbeatCnt: idle periods before the link is dropped
          OutCap,       \* messages the path from c to the peer holds
          InCap,        \* messages the path from the peer to c holds
          MaxData       \* frames and heartbeat requests the peer sends

VARIABLES isClosed,  \* c.isClosed
          valid,     \* c.valid
          hpc,       \* where HeartBeat is
          hbID,      \* c.hb.hbID
          tc,        \* timeout_count
          rxChanged, \* c.rx_bytes # the rx HeartBeat read at the loop top
          tmr,       \* c.hb.hbTimer: none (no hb yet), armed, fired, idle
          out,       \* c -> peer
          in,        \* peer -> c
          rpc,       \* where ReadForward is
          peerAlive, \* the peer host still runs
          nData      \* frames and requests the peer has sent

vars == <<isClosed, valid, hpc, hbID, tc, rxChanged, tmr, out, in, rpc,
          peerAlive, nData>>

Msg(k, id, cur) == [k |-> k, id |-> id, cur |-> cur]
Kinds == {"req", "rpl", "hbreq", "hbrpl", "data", "frame"}
Ids == 0..(2^HBBits - 1)

\* A new request makes every request and reply in flight an old one.
Stale(q) == [i \in DOMAIN q |-> [q[i] EXCEPT !.cur = FALSE]]

\* Reconnect -> Close, given the timer as the caller leaves it: only the
\* first Close proceeds, and it calls hbTimerReset(10ms) when hb exists.
Reconnect(t) ==
  IF isClosed THEN /\ UNCHANGED isClosed /\ tmr' = t
  ELSE /\ isClosed' = TRUE
       /\ tmr' = IF t = "none" THEN "none" ELSE "armed"

\* c.pktchan <- pkt of PutPktToChan2: dropped once c is closed, blocks
\* while the path to the peer is full.
Put(m) ==
  \/ isClosed /\ UNCHANGED out
  \/ ~isClosed /\ Len(out) < OutCap /\ out' = Append(out, m)

----------------------------------------------------------------------------
(* Mutant: heartBeatUpdate loses the increment. *)
heartBeatUpdateStuck(id) == IF id = 0 THEN 1 ELSE id

----------------------------------------------------------------------------

\* heartBeatUpdate: hbID += 1 in 16 bits, skipping 0.
heartBeatUpdate(id) ==
  IF (id + 1) % 2^HBBits = 0 THEN 1 ELSE (id + 1) % 2^HBBits

\* A new request: the id is advanced and every message in flight is old.
NewRequest ==
  /\ hbID' = heartBeatUpdate(hbID)
  /\ out' = Stale(out)
  /\ in' = Stale(in)

(* Mutant: timeout_count tested with > instead of >=. *)
HbExpireLate ==
  /\ hpc = "wait"
  /\ tmr = "fired"
  /\ CASE isClosed \/ ~valid ->
            /\ hpc' = "exit" /\ Reconnect("idle") /\ UNCHANGED <<hbID, tc, out, in>>
       [] ~rxChanged /\ tc > HeartbeatCnt ->
            /\ hpc' = "exit" /\ Reconnect("idle") /\ UNCHANGED <<hbID, tc, out, in>>
       [] ~rxChanged /\ tc <= HeartbeatCnt ->
            /\ NewRequest /\ hpc' = "sendT" /\ tmr' = "idle"
            /\ UNCHANGED <<isClosed, tc>>
       [] OTHER ->
            /\ tmr' = "armed" /\ tc' = 0 /\ hpc' = "top"
            /\ UNCHANGED <<isClosed, hbID, out, in>>
  /\ UNCHANGED <<valid, rxChanged, rpc, peerAlive, nData>>

(* Mutant: the branch that saw traffic does not re-arm hbTimer. *)
HbExpireNoRearm ==
  /\ hpc = "wait"
  /\ tmr = "fired"
  /\ CASE isClosed \/ ~valid ->
            /\ hpc' = "exit" /\ Reconnect("idle") /\ UNCHANGED <<hbID, tc, out, in>>
       [] ~rxChanged /\ tc >= HeartbeatCnt ->
            /\ hpc' = "exit" /\ Reconnect("idle") /\ UNCHANGED <<hbID, tc, out, in>>
       [] ~rxChanged /\ tc < HeartbeatCnt ->
            /\ NewRequest /\ hpc' = "sendT" /\ tmr' = "idle"
            /\ UNCHANGED <<isClosed, tc>>
       [] OTHER ->
            /\ tmr' = "idle" /\ tc' = 0 /\ hpc' = "top"
            /\ UNCHANGED <<isClosed, hbID, out, in>>
  /\ UNCHANGED <<valid, rxChanged, rpc, peerAlive, nData>>

----------------------------------------------------------------------------
(* The HeartBeat goroutine *)

\* c.hb = &heartBeat{}, hbTimer = NewTimer(5s), the 10ms sleep, and
\* sendHeartBeat(HBRequest): heartBeatUpdate before PutPktToChan2.
HeartBeatStart ==
  /\ hpc = "start"
  /\ hbID' = heartBeatUpdate(0)
  /\ out' = Stale(out)
  /\ in' = Stale(in)
  /\ tc' = 0
  /\ tmr' = "armed"
  /\ hpc' = "send0"
  /\ UNCHANGED <<isClosed, valid, rxChanged, rpc, peerAlive, nData>>

\* The PutPktToChan2 of sendHeartBeat(HBRequest); after a timeout the loop
\* then resets hbTimer to HeartbeatIntv and counts the timeout.
HbSend ==
  /\ hpc \in {"send0", "sendT"}
  /\ Put(Msg("req", hbID, TRUE))
  /\ tmr' = IF hpc = "sendT" THEN "armed" ELSE tmr
  /\ tc' = IF hpc = "sendT" THEN tc + 1 ELSE tc
  /\ hpc' = "top"
  /\ UNCHANGED <<isClosed, valid, hbID, rxChanged, in, rpc, peerAlive, nData>>

\* The loop top: quit once closed, else rx := c.rx_bytes.
HbTop ==
  /\ hpc = "top"
  /\ IF isClosed
       THEN /\ hpc' = "exit" /\ Reconnect("idle") /\ UNCHANGED rxChanged
       ELSE /\ rxChanged' = FALSE /\ hpc' = "wait" /\ UNCHANGED <<isClosed, tmr>>
  /\ UNCHANGED <<valid, hbID, tc, out, in, rpc, peerAlive, nData>>

\* <-hbTimer.C, then: quit when closed or not valid; quit after
\* HeartbeatCnt idle periods; on an idle period send a request; on traffic
\* re-arm for HeartbeatIdle and clear the count.  Quitting runs the
\* deferred hbTimer.Stop and Reconnect.
HbExpire ==
  /\ hpc = "wait"
  /\ tmr = "fired"
  /\ CASE isClosed \/ ~valid ->
            /\ hpc' = "exit" /\ Reconnect("idle") /\ UNCHANGED <<hbID, tc, out, in>>
       [] ~rxChanged /\ tc >= HeartbeatCnt ->
            /\ hpc' = "exit" /\ Reconnect("idle") /\ UNCHANGED <<hbID, tc, out, in>>
       [] ~rxChanged /\ tc < HeartbeatCnt ->
            /\ NewRequest /\ hpc' = "sendT" /\ tmr' = "idle"
            /\ UNCHANGED <<isClosed, tc>>
       [] OTHER ->
            /\ tmr' = "armed" /\ tc' = 0 /\ hpc' = "top"
            /\ UNCHANGED <<isClosed, hbID, out, in>>
  /\ UNCHANGED <<valid, rxChanged, rpc, peerAlive, nData>>

\* The Go runtime fires an armed timer into hbTimer.C.
TimerFire ==
  /\ tmr = "armed"
  /\ tmr' = "fired"
  /\ UNCHANGED <<isClosed, valid, hpc, hbID, tc, rxChanged, out, in, rpc,
                 peerAlive, nData>>

----------------------------------------------------------------------------
(* c's reader *)

\* cio.Read of one message; rx_bytes grows for every kind.  A heartbeat
\* reply whose id is hbID sets valid (checkHeartBeat; before HeartBeat has
\* made c.hb it is refused); a heartbeat request is answered.
ReadMsg ==
  /\ rpc = "read"
  /\ ~isClosed
  /\ in # <<>>
  /\ LET m == Head(in) IN
       /\ valid' = (valid \/ (m.k = "rpl" /\ hpc # "start" /\ m.id = hbID))
       /\ rpc' = IF m.k = "hbreq" THEN "reply" ELSE "read"
  /\ in' = Tail(in)
  /\ rxChanged' = TRUE
  /\ UNCHANGED <<isClosed, hpc, hbID, tc, tmr, out, peerAlive, nData>>

\* sendHeartBeat(HBReply, id): PutPktToChan2 of the reply.
ReaderReply ==
  /\ rpc = "reply"
  /\ Put(Msg("hbrpl", 0, FALSE))
  /\ rpc' = "read"
  /\ UNCHANGED <<isClosed, valid, hpc, hbID, tc, rxChanged, tmr, in, peerAlive,
                 nData>>

\* cio.Read fails once Close has closed the connection.
ReadFail ==
  /\ rpc = "read"
  /\ isClosed
  /\ rpc' = "exit"
  /\ UNCHANGED <<isClosed, valid, hpc, hbID, tc, rxChanged, tmr, out, in,
                 peerAlive, nData>>

\* WriteFromChan's Write fails (the peer no longer acknowledges and TCP
\* gives up), and its deferred Reconnect closes c.
WriteFail ==
  /\ ~peerAlive
  /\ ~isClosed
  /\ out # <<>>
  /\ Reconnect(tmr)
  /\ UNCHANGED <<valid, hpc, hbID, tc, rxChanged, out, in, rpc, peerAlive, nData>>

----------------------------------------------------------------------------
(* The rest of the system *)

\* Another client's reader floods or forwards a frame to c.
Forward ==
  /\ ~isClosed
  /\ Len(out) < OutCap
  /\ out' = Append(out, Msg("frame", 0, FALSE))
  /\ UNCHANGED <<isClosed, valid, hpc, hbID, tc, rxChanged, tmr, in, rpc,
                 peerAlive, nData>>

\* The peer's reader takes the next message; a heartbeat request is
\* answered with its id (the peer's checkHeartBeat).
PeerRecv ==
  /\ peerAlive
  /\ ~isClosed
  /\ out # <<>>
  /\ LET m == Head(out) IN
       IF m.k = "req"
         THEN /\ Len(in) < InCap
              /\ in' = Append(in, [m EXCEPT !.k = "rpl"])
         ELSE UNCHANGED in
  /\ out' = Tail(out)
  /\ UNCHANGED <<isClosed, valid, hpc, hbID, tc, rxChanged, tmr, rpc, peerAlive,
                 nData>>

\* The peer sends a frame or its own heartbeat request.
PeerSend ==
  /\ peerAlive
  /\ ~isClosed
  /\ nData < MaxData
  /\ Len(in) < InCap
  /\ \E k \in {"data", "hbreq"} : in' = Append(in, Msg(k, 0, FALSE))
  /\ nData' = nData + 1
  /\ UNCHANGED <<isClosed, valid, hpc, hbID, tc, rxChanged, tmr, out, rpc,
                 peerAlive>>

\* The peer host dies without closing the connection.
PeerCrash ==
  /\ peerAlive
  /\ peerAlive' = FALSE
  /\ UNCHANGED <<isClosed, valid, hpc, hbID, tc, rxChanged, tmr, out, in, rpc,
                 nData>>

----------------------------------------------------------------------------

\* NewClient of a connection: valid is false until a heartbeat reply.
Init ==
  /\ isClosed = FALSE
  /\ valid = FALSE
  /\ hpc = "start"
  /\ hbID = 0
  /\ tc = 0
  /\ rxChanged = FALSE
  /\ tmr = "none"
  /\ out = <<>>
  /\ in = <<>>
  /\ rpc = "read"
  /\ peerAlive = TRUE
  /\ nData = 0

Next ==
  \/ HeartBeatStart \/ HbSend \/ HbTop \/ HbExpire \/ TimerFire
  \/ ReadMsg \/ ReaderReply \/ ReadFail \/ WriteFail
  \/ Forward \/ PeerRecv \/ PeerSend \/ PeerCrash

\* The runtime fires armed timers and runs runnable goroutines; TCP
\* eventually fails a write the dead peer never acknowledges.  Nothing
\* obliges the peer or the other clients to send.
Fairness ==
  /\ WF_vars(HeartBeatStart) /\ WF_vars(HbSend) /\ WF_vars(HbTop)
  /\ WF_vars(HbExpire) /\ WF_vars(TimerFire)
  /\ WF_vars(ReadMsg) /\ WF_vars(ReaderReply) /\ WF_vars(ReadFail)
  /\ WF_vars(WriteFail)

Spec == Init /\ [][Next]_vars /\ Fairness

----------------------------------------------------------------------------
(* Properties *)

TypeOK ==
  /\ hpc \in {"start", "send0", "sendT", "top", "wait", "exit"}
  /\ hpc # "start" => hbID \in Ids \ {0}
  /\ tc \in 0..HeartbeatCnt
  /\ tmr \in {"none", "armed", "fired", "idle"}
  /\ out \in Seq([k : Kinds, id : Ids, cur : BOOLEAN]) /\ Len(out) <= OutCap
  /\ in \in Seq([k : Kinds, id : Ids, cur : BOOLEAN]) /\ Len(in) <= InCap
  /\ rpc \in {"read", "reply", "exit"}

\* checkHeartBeat matches a reply by id alone: while the queues hold fewer
\* heartbeat messages than hbID has values, the wrap of heartBeatUpdate
\* (past 0 back to 1) never gives the current request the id of a request
\* or reply still in flight, so a late reply is never taken for the current
\* one.
ReplyIdsUnambiguous ==
  hpc # "start" =>
    \A m \in {out[i] : i \in DOMAIN out} \cup {in[i] : i \in DOMAIN in} :
      (m.k \in {"req", "rpl"} /\ m.id = hbID) => m.cur

\* A peer that dies silently gets c closed: HeartBeat counts HeartbeatCnt
\* idle periods and quits, or the blocked writer fails, and Reconnect
\* closes the client.
DeadPeerClosed == (~peerAlive) ~> isClosed

=============================================================================

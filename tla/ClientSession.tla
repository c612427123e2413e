--------------------------- MODULE ClientSession ---------------------------
(***************************************************************************)
(* The goroutines of vnet clients that share packet buffers: each client's *)
(* reader (ReadForward: getPktBuf, Read, ForwardPkt -> FDB.Forward ->      *)
(* PutPktToChan on the chosen ports, putPktBuf), its writer                *)
(* (WriteFromChan: range over pktchan, vnetConn.Write encrypting the       *)
(* buffer in place, putPktBuf) and Client.Close (isClosed under the lock,  *)
(* close(pktchan), cio.Close, quitAllFdb), with the reference counts of    *)
(* packet/pktpool.go.  A buffer's bytes are abstracted to how many times   *)
(* they have been encrypted since the reader filled them.                  *)
(***************************************************************************)
EXTENDS Integers, Sequences, SequencesExt

CONSTANTS Clients,   \* clients joined to one zone
          ChanSize,  \* *ChanSize, the capacity of pktchan
          Senders,   \* clients whose peer sends frames
          MaxFrames, \* frames each of them reads
          CryptOn    \* CryptType # 0

Bufs == Clients \X (1..MaxFrames)   \* <<owner, n>>: buffers of c.pbp
NoBuf == <<"none", 0>>
NoClient == "none"

VARIABLES isClosed,   \* c.isClosed
          chanClosed, \* pktchan has been closed
          closeSt,    \* how far Close has got: open, flagged, chan, done
          joined,     \* clients that are ports of the zone's FDB
          chan,       \* c.pktchan
          rd,         \* reader goroutine: pc, buf, targets left, target
          wr,         \* writer goroutine: pc, buf
          ref,        \* pb.ref
          pooled,     \* buffers put back in their sync.Pool
          used,       \* buffers ever allocated by the pool's New
          enc,        \* encryptions applied to a buffer's frame
          written,    \* encryption counts of the frames written to the wire
          nread,      \* frames read so far
          crashed     \* a goroutine panicked (the process dies)

vars == <<isClosed, chanClosed, closeSt, joined, chan, rd, wr, ref, pooled,
          used, enc, written, nread, crashed>>

\* Close under c.Lock: only the first caller proceeds (client.go:391-395).
Flag(c) ==
  /\ isClosed' = [isClosed EXCEPT ![c] = TRUE]
  /\ closeSt' = [closeSt EXCEPT ![c] = "flagged"]

\* putPktBuf / PutPktToPool: drop one reference, back to the pool at 0.
Release(b) ==
  /\ ref' = [ref EXCEPT ![b] = @ - 1]
  /\ pooled' = IF ref[b] = 1 THEN pooled \cup {b} ELSE pooled

----------------------------------------------------------------------------
(* Mutant: PutPktToChan2 queues the buffer without HoldPktBuf. *)
PutCheckNoHold(c) ==
  /\ ~crashed
  /\ rd[c].pc = "fwd"
  /\ \E d \in rd[c].targets :
       IF ~isClosed[d]
         THEN rd' = [rd EXCEPT ![c].pc = "send", ![c].to = d,
                               ![c].targets = @ \ {d}]
         ELSE rd' = [rd EXCEPT ![c].targets = @ \ {d}]
  /\ UNCHANGED <<isClosed, chanClosed, closeSt, joined, chan, wr, ref, pooled,
                 used, enc, written, nread, crashed>>

(* Mutant: the send to pktchan does not block on a full channel. *)
PutSendNoBlock(c) ==
  LET d == rd[c].to IN
  /\ ~crashed
  /\ rd[c].pc = "send"
  /\ ~chanClosed[d]
  /\ chan' = [chan EXCEPT ![d] = Append(@, rd[c].buf)]
  /\ rd' = [rd EXCEPT ![c].pc = "fwd", ![c].to = NoClient]
  /\ UNCHANGED <<isClosed, chanClosed, closeSt, joined, wr, ref, pooled, used,
                 enc, written, nread, crashed>>

----------------------------------------------------------------------------
(* Reader goroutine *)

\* getPktBuf (a pooled buffer or a new one, ref = 1), cio.Read, and
\* ForwardPkt: FDB.Forward picks the known port of the destination, floods
\* every other port, or drops the frame.
ReadFrame(c) ==
  /\ ~crashed
  /\ rd[c].pc = "read"
  /\ closeSt[c] # "done"
  /\ c \in Senders
  /\ nread[c] < MaxFrames
  /\ \E b \in {x \in pooled : x[1] = c} \cup
             {<<c, Min({n \in 1..MaxFrames : <<c, n>> \notin used})>>} :
       \E T \in {joined \ {c}, {}} \cup {{d} : d \in joined \ {c}} :
         /\ rd' = [rd EXCEPT ![c] = [pc |-> "fwd", buf |-> b, targets |-> T,
                                     to |-> NoClient]]
         /\ ref' = [ref EXCEPT ![b] = 1]
         /\ enc' = [enc EXCEPT ![b] = 0]
         /\ pooled' = pooled \ {b}
         /\ used' = used \cup {b}
  /\ nread' = [nread EXCEPT ![c] = @ + 1]
  /\ UNCHANGED <<isClosed, chanClosed, closeSt, joined, chan, wr, written, crashed>>

\* PutPktToChan2's test of IsClose and HoldPktBuf for one target port.
PutCheck(c) ==
  /\ ~crashed
  /\ rd[c].pc = "fwd"
  /\ \E d \in rd[c].targets :
       IF ~isClosed[d]
         THEN /\ rd' = [rd EXCEPT ![c].pc = "send", ![c].to = d,
                                  ![c].targets = @ \ {d}]
              /\ ref' = [ref EXCEPT ![rd[c].buf] = @ + 1]
         ELSE /\ rd' = [rd EXCEPT ![c].targets = @ \ {d}]
              /\ UNCHANGED ref
  /\ UNCHANGED <<isClosed, chanClosed, closeSt, joined, chan, wr, pooled,
                 used, enc, written, nread, crashed>>

\* c.pktchan <- pkt: blocks while the channel is full, panics once closed.
PutSend(c) ==
  LET d == rd[c].to IN
  /\ ~crashed
  /\ rd[c].pc = "send"
  /\ \/ /\ chanClosed[d]
        /\ crashed' = TRUE
        /\ UNCHANGED <<chan, rd>>
     \/ /\ ~chanClosed[d]
        /\ Len(chan[d]) < ChanSize
        /\ chan' = [chan EXCEPT ![d] = Append(@, rd[c].buf)]
        /\ rd' = [rd EXCEPT ![c].pc = "fwd", ![c].to = NoClient]
        /\ UNCHANGED crashed
  /\ UNCHANGED <<isClosed, chanClosed, closeSt, joined, wr, ref, pooled, used,
                 enc, written, nread>>

\* ForwardPkt returned: putPktBuf(pb).
FwdDone(c) ==
  /\ ~crashed
  /\ rd[c].pc = "fwd"
  /\ rd[c].targets = {}
  /\ Release(rd[c].buf)
  /\ rd' = [rd EXCEPT ![c] = [pc |-> "read", buf |-> NoBuf, targets |-> {},
                              to |-> NoClient]]
  /\ UNCHANGED <<isClosed, chanClosed, closeSt, joined, chan, wr, used, enc,
                 written, nread, crashed>>

\* cio.Read fails once Close has closed the connection; the deferred
\* Reconnect finds the client closed.
ReadFail(c) ==
  /\ ~crashed
  /\ rd[c].pc = "read"
  /\ closeSt[c] = "done"
  /\ rd' = [rd EXCEPT ![c].pc = "exit"]
  /\ UNCHANGED <<isClosed, chanClosed, closeSt, joined, chan, wr, ref, pooled,
                 used, enc, written, nread, crashed>>

----------------------------------------------------------------------------
(* Writer goroutine *)

\* for pkt := range c.pktchan: take the next buffer, or leave the loop once
\* the channel is closed and drained.
WriterRecv(c) ==
  /\ ~crashed
  /\ wr[c].pc = "recv"
  /\ \/ /\ chan[c] # <<>>
        /\ wr' = [wr EXCEPT ![c] = [pc |-> "enc", buf |-> Head(chan[c])]]
        /\ chan' = [chan EXCEPT ![c] = Tail(@)]
     \/ /\ chan[c] = <<>>
        /\ chanClosed[c]
        /\ wr' = [wr EXCEPT ![c].pc = "exit"]
        /\ UNCHANGED chan
  /\ UNCHANGED <<isClosed, chanClosed, closeSt, joined, rd, ref, pooled, used,
                 enc, written, nread, crashed>>

\* vnetConn.Write: block.Encrypt(userPkt, userPkt) under cryptLock, in
\* the shared buffer.
WriterEncrypt(c) ==
  /\ ~crashed
  /\ wr[c].pc = "enc"
  /\ enc' = IF CryptOn THEN [enc EXCEPT ![wr[c].buf] = @ + 1] ELSE enc
  /\ wr' = [wr EXCEPT ![c].pc = "write"]
  /\ UNCHANGED <<isClosed, chanClosed, closeSt, joined, chan, rd, ref, pooled,
                 used, written, nread, crashed>>

\* cw.Write(pb.LoadData()) succeeds; putPktBuf(pkt).
WriterWrite(c) ==
  /\ ~crashed
  /\ wr[c].pc = "write"
  /\ written' = written \cup {enc[wr[c].buf]}
  /\ Release(wr[c].buf)
  /\ wr' = [wr EXCEPT ![c] = [pc |-> "recv", buf |-> NoBuf]]
  /\ UNCHANGED <<isClosed, chanClosed, closeSt, joined, chan, rd, used, enc,
                 nread, crashed>>

\* The write fails: WriteFromChan returns without putPktBuf, and its
\* deferred Reconnect calls Close.
WriterFail(c) ==
  /\ ~crashed
  /\ wr[c].pc = "write"
  /\ wr' = [wr EXCEPT ![c].pc = "exit"]
  /\ IF ~isClosed[c] THEN Flag(c) ELSE UNCHANGED <<isClosed, closeSt>>
  /\ UNCHANGED <<chanClosed, joined, chan, rd, ref, pooled, used, enc, written,
                 nread, crashed>>

----------------------------------------------------------------------------
(* Client.Close, called by the heartbeat's Reconnect or a peer error *)

CloseBegin(c) ==
  /\ ~crashed
  /\ ~isClosed[c]
  /\ Flag(c)
  /\ UNCHANGED <<chanClosed, joined, chan, rd, wr, ref, pooled, used, enc,
                 written, nread, crashed>>

\* close(c.pktchan), after hbTimerReset, outside the lock.
CloseChan(c) ==
  /\ ~crashed
  /\ closeSt[c] = "flagged"
  /\ chanClosed' = [chanClosed EXCEPT ![c] = TRUE]
  /\ closeSt' = [closeSt EXCEPT ![c] = "chan"]
  /\ UNCHANGED <<isClosed, joined, chan, rd, wr, ref, pooled, used, enc,
                 written, nread, crashed>>

\* c.cio.Close() and quitAllFdb: the port leaves the zone.
CloseConn(c) ==
  /\ ~crashed
  /\ closeSt[c] = "chan"
  /\ closeSt' = [closeSt EXCEPT ![c] = "done"]
  /\ joined' = joined \ {c}
  /\ UNCHANGED <<isClosed, chanClosed, chan, rd, wr, ref, pooled, used, enc,
                 written, nread, crashed>>

----------------------------------------------------------------------------

Init ==
  /\ isClosed = [c \in Clients |-> FALSE]
  /\ chanClosed = [c \in Clients |-> FALSE]
  /\ closeSt = [c \in Clients |-> "open"]
  /\ joined = Clients
  /\ chan = [c \in Clients |-> <<>>]
  /\ rd = [c \in Clients |-> [pc |-> "read", buf |-> NoBuf, targets |-> {},
                              to |-> NoClient]]
  /\ wr = [c \in Clients |-> [pc |-> "recv", buf |-> NoBuf]]
  /\ ref = [b \in Bufs |-> 0]
  /\ pooled = {}
  /\ used = {}
  /\ enc = [b \in Bufs |-> 0]
  /\ written = {}
  /\ nread = [c \in Clients |-> 0]
  /\ crashed = FALSE

Next ==
  \E c \in Clients :
    \/ ReadFrame(c) \/ PutCheck(c) \/ PutSend(c) \/ FwdDone(c) \/ ReadFail(c)
    \/ WriterRecv(c) \/ WriterEncrypt(c) \/ WriterWrite(c) \/ WriterFail(c)
    \/ CloseBegin(c) \/ CloseChan(c) \/ CloseConn(c)

Spec == Init /\ [][Next]_vars

----------------------------------------------------------------------------
(* Properties *)

TypeOK ==
  /\ chan \in [Clients -> Seq(Bufs)]
  /\ \A c \in Clients : Len(chan[c]) <= ChanSize
  /\ ref \in [Bufs -> Int]
  /\ pooled \subseteq used
  /\ closeSt \in [Clients -> {"open", "flagged", "chan", "done"}]
  /\ crashed \in BOOLEAN

\* The goroutines and queues that hold buffer b right now.
Holders(b) ==
  FoldFunction(LAMBDA x, y : x + y, 0,
               [c \in Clients |-> Len(SelectSeq(chan[c], LAMBDA x : x = b))])
  + Cardinality({c \in Clients : rd[c].buf = b /\ rd[c].pc \in {"fwd", "send"}})
  + Cardinality({c \in Clients : wr[c].buf = b /\ wr[c].pc \in {"enc", "write"}})

\* HoldPktBuf / ReleasePktBuf keep count of every holder: a buffer's ref
\* is never below the number of readers, writers and channels that hold it,
\* so no buffer goes back to its sync.Pool (to be refilled by the next
\* Read) while a channel or a writer still holds it.
RefCovers ==
  \A b \in Bufs :
    /\ ref[b] >= Holders(b)
    /\ b \in pooled => Holders(b) = 0

\* No goroutine panics on c.pktchan <- pkt: PutPktToChan2 only sends to a
\* client that is not closed, and Close's close(pktchan) comes after
\* isClosed is set.
NoSendOnClosed == ~crashed

\* Every frame goes on the wire encrypted exactly once (vnetConn.Write
\* encrypts the buffer it is handed).
WireEncryptedOnce == CryptOn => written \subseteq {1}

=============================================================================

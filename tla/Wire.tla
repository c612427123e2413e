-------------------------------- MODULE Wire --------------------------------
(***************************************************************************)
(* The framed transport of vnet: three nodes S, H, R.  S runs taps and     *)
(* dials H as a master link (HandleTuns, ConnectNc, HandleConn(conn,       *)
(* true)); R dials H in p2p mode, its conn client bound to its tap         *)
(* (ConnBindTun); H accepts both links (HandleConn(conn, false)) and       *)
(* bridges them through its FDB.  A client is one end of a link: s1 and    *)
(* h1 are the ends of link 1, h2 and r2 those of link 2.  Each end has     *)
(* its pktchan and writer (WriteFromChan, vnetConn.Write), the TCP stream  *)
(* it writes, and a reader (ReadForward, vnetConn.Read and the handlers of *)
(* pktHandles).  Every node has its own cipher (CryptType).                *)
(*                                                                         *)
(* A stream is kept frame by frame: every handler either reads exactly the *)
(* header's pktLen bytes or returns an error that ends the link, and the   *)
(* senders here write only the four registered types, so the bytes never  *)
(* lose their framing.  A payload is abstracted to its origin and the      *)
(* cipher layers on it: a cipher's Decrypt undoes only its own Encrypt.    *)
(***************************************************************************)
EXTENDS Integers, Sequences, SequencesExt

CONSTANTS CryptIds,  \* CryptType values the nodes can be set to (0: none)
          NodeCrypts, \* the ciphers of S, H and R a behaviour may start with
          TapLens,   \* lengths of frames the taps read
          AnnZones,  \* numbers of zones S's master link has joined
          MaxUser,   \* tap -> frames it reads in a behaviour
          MaxDial,   \* connections each dialer makes in a behaviour
          MaxFail,   \* I/O failures in a behaviour
          FailEnds,  \* ends whose connection may fail
          ChanCap    \* pktchan capacity (ChanSize)

Nodes == {"S", "H", "R"}

ASSUME CryptIds \subseteq 0..11 /\ NodeCrypts \subseteq [Nodes -> CryptIds]

PktHeaderSize == 6
PktBufSize    == 1528
L2PktMinSize  == 42
L2PktMaxSize  == 1514
HbLen         == 12 + 2    \* len(HearBeatReq) + HBIDSize
CryNone       == 2         \* CRY_NONE: NewNoneBlockCrypt copies

Ends == {"s1", "h1", "h2", "r2"}
Taps == {"S", "R"}
LinkOf(e) == IF e \in {"s1", "h1"} THEN 1 ELSE 2
Peer(e) == CASE e = "s1" -> "h1" [] e = "h1" -> "s1" [] e = "h2" -> "r2" [] OTHER -> "h2"
Dialer(l) == IF l = 1 THEN "s1" ELSE "r2"
Hub(l) == IF l = 1 THEN "h1" ELSE "h2"
Other(t) == IF t = "S" THEN "R" ELSE "S"

VARIABLES ct,        \* end -> its node's CryptType (setCryptType)
          zones,     \* how many zones S's master link announces
          st,        \* end -> idle, up or closed (isClosed)
          dials,     \* link -> connections made
          fails,     \* I/O failures so far
          pktchan,   \* end -> frames queued for its writer
          stream,    \* end -> frames it wrote that its peer has not read
          valid,     \* end -> c.valid
          fdbJoined, \* end -> it has joined the zone the taps share
          hbSent,    \* end -> HeartBeat sent its first request
          announced, \* link -> the dialer ran JoinAllFdb and reportFdbMsg
          tapRead,   \* tap -> frames read from the device
          tapOut,    \* tap -> payloads written to the device
          panicked   \* a log.Panicf ended a node

vars == <<ct, zones, st, dials, fails, pktchan, stream, valid, fdbJoined,
          hbSent, announced, tapRead, tapOut, panicked>>

Body(src, n, c) == [src |-> src, n |-> n, c |-> c, enc |-> <<>>]
Frame(t, len, b) == [t |-> t, len |-> len, cry |-> 0, body |-> b]

----------------------------------------------------------------------------
(* Mutant: vnetConn.Write encrypts the payload but leaves the header's    *)
(* crypto byte alone.                                                      *)
WriteNoCryptoType(f, k) ==
  IF k = 0 THEN f
  ELSE [f EXCEPT !.body.enc = IF k = CryNone THEN @ ELSE Append(@, k)]

(* Mutant: DataPktHandle decrypts without setCryptoType(pb.LoadData(), 0). *)
DecryptKeepType(f) ==
  IF f.cry = 0 THEN f
  ELSE [f EXCEPT !.body.enc = IF f.cry = CryNone THEN @
                              ELSE IF @ # <<>> /\ Last(@) = f.cry THEN Front(@)
                              ELSE Append(@, -f.cry)]

----------------------------------------------------------------------------

\* block.Decrypt(pkt, pkt) with crypts[k]: it undoes the last Encrypt if
\* that was k's; over anything else it yields bytes no cipher undoes.
Decrypt(b, k) ==
  CASE k = CryNone -> b
    [] b.enc # <<>> /\ Last(b.enc) = k -> [b EXCEPT !.enc = Front(@)]
    [] OTHER -> [b EXCEPT !.enc = Append(@, -k)]

\* vnetConn.Write: with a cryptType, Encrypt the user data in place and
\* setCryptoType the header's byte 5.
WriteFrame(f, k) ==
  IF k = 0 THEN f
  ELSE [f EXCEPT !.body.enc = IF k = CryNone THEN @ ELSE Append(@, k), !.cry = k]

\* The decryption of DataPktHandle: with a crypto byte, Decrypt and clear
\* the byte (setCryptoType(pb.LoadData(), 0)) before the frame is forwarded.
DecryptData(f) ==
  IF f.cry = 0 THEN f ELSE [f EXCEPT !.body = Decrypt(@, f.cry), !.cry = 0]

\* PutPktToChan2: a closed client drops the frame; an open one blocks while
\* its pktchan is full.
CanQueue(e) == st[e] # "up" \/ Len(pktchan[e]) < ChanCap
Queue(q, e, f) == IF st[e] = "up" THEN [q EXCEPT ![e] = Append(@, f)] ELSE q

\* Close on end e (Reconnect): isClosed, close(pktchan) (queued frames are
\* never written), the socket closed (what the peer had not yet delivered
\* to e is lost), quitAllFdb.
CloseEnd(e) ==
  /\ st' = [st EXCEPT ![e] = "closed"]
  /\ pktchan' = [pktchan EXCEPT ![e] = <<>>]
  /\ stream' = [stream EXCEPT ![Peer(e)] = <<>>]
  /\ fdbJoined' = [fdbJoined EXCEPT ![e] = FALSE]

----------------------------------------------------------------------------
(* Connection set-up *)

\* main's roles (govnet.go): a node with one tun, one server address and
\* no listener binds them (ConnBindTun); any other handles its tuns, dials
\* its servers (ConnectNc) and accepts on its listener.
NodeConf == [S |-> [tuns |-> 2, sers |-> 1, listen |-> FALSE],
             H |-> [tuns |-> 0, sers |-> 0, listen |-> TRUE],
             R |-> [tuns |-> 1, sers |-> 1, listen |-> FALSE]]
Roles(cf) ==
  IF cf.tuns = 1 /\ cf.sers = 1 /\ ~cf.listen THEN {"p2p"}
  ELSE {r \in {"tuns", "dial", "accept"} :
          \/ r = "tuns" /\ cf.tuns > 0
          \/ r = "dial" /\ cf.sers > 0
          \/ r = "accept" /\ cf.listen}

\* getPktRange of a tap, which setAcsSize gives the client bound to it; it
\* is also NewClient's range, so every end here accepts 42..1514.
AcsSize == [min |-> L2PktMinSize, max |-> L2PktMaxSize]

\* CreateConnClient (NewClient) for the ends E of a new connection: an
\* empty pktchan, not closed, not valid, a fresh socket.
NewClients(E) ==
  /\ st' = [e \in Ends |-> IF e \in E THEN "up" ELSE st[e]]
  /\ pktchan' = [e \in Ends |-> IF e \in E THEN <<>> ELSE pktchan[e]]
  /\ stream' = [e \in Ends |-> IF e \in E THEN <<>> ELSE stream[e]]
  /\ valid' = [e \in Ends |-> IF e \in E THEN FALSE ELSE valid[e]]
  /\ hbSent' = [e \in Ends |-> IF e \in E THEN FALSE ELSE hbSent[e]]

\* myDial.Connect retries (sleep, goto ReConnect) until a dial succeeds;
\* the dialer's loop dials again once both ends of the last connection
\* are closed.
Connect(l) ==
  /\ \A e \in Ends : LinkOf(e) = l => st[e] # "up"
  /\ dials[l] < MaxDial
  /\ dials' = [dials EXCEPT ![l] = @ + 1]

\* HandleConn on both nodes of link l: CreateConnClient, setCryptType and
\* Working; H's end joins no zone until an announcement.
Dial(l) ==
  /\ Connect(l)
  /\ NewClients({Dialer(l), Hub(l)})
  /\ announced' = [announced EXCEPT ![l] = FALSE]
  /\ UNCHANGED <<ct, zones, fails, fdbJoined, tapRead, tapOut, panicked>>

\* ConnectNc's goroutine on S: Connect, then HandleConn(conn, true).
ConnectNc == "dial" \in Roles(NodeConf["S"]) /\ "accept" \in Roles(NodeConf["H"]) /\ Dial(1)

\* ConnBindTun's loop on R: Connect, CreateConnClient, bindPairClient to
\* R's tap client, setCryptType, Working.
ConnBindTun == "p2p" \in Roles(NodeConf["R"]) /\ "accept" \in Roles(NodeConf["H"]) /\ Dial(2)

\* SetDataLen and LoadAndUseBuf: log.Panicf past the buffer's 1528 bytes;
\* LoadAndUseBuf adds two uint16 lengths before widening the sum.
DataLenOk(n) == 0 <= n /\ n <= PktBufSize
UseBufOk(used, n) == (used + n) % 2^16 <= PktBufSize

\* ClientMasterAdd, JoinAllFdb, reportFdbMsg: the dialer announces its
\* zones, two bytes each; SetDataLen panics beyond the buffer.
Announce(l) ==
  LET d == Dialer(l)
      k == IF l = 1 THEN zones ELSE 1
  IN /\ st[d] = "up" /\ ~announced[l]
     /\ CanQueue(d)
     /\ announced' = [announced EXCEPT ![l] = TRUE]
     /\ fdbJoined' = [fdbJoined EXCEPT ![d] = TRUE]
     /\ IF ~DataLenOk(PktHeaderSize + 2 * k)
          THEN /\ panicked' = TRUE /\ UNCHANGED pktchan
          ELSE /\ pktchan' = Queue(pktchan, d, Frame("fdbids", 2 * k, Body("-", 0, "ids")))
               /\ UNCHANGED panicked
     /\ UNCHANGED <<ct, zones, st, dials, fails, stream, valid, hbSent, tapRead, tapOut>>

\* HeartBeat's first sendHeartBeat(HBRequest, 0), 10 ms after Working.
HbRequest(e) ==
  /\ st[e] = "up" /\ ~hbSent[e]
  /\ CanQueue(e)
  /\ hbSent' = [hbSent EXCEPT ![e] = TRUE]
  /\ pktchan' = Queue(pktchan, e, Frame("hbreq", HbLen, Body("-", 0, "req")))
  /\ UNCHANGED <<ct, zones, st, dials, fails, stream, valid, fdbJoined, announced,
                 tapRead, tapOut, panicked>>

----------------------------------------------------------------------------
(* Frames from the taps *)

\* The client tap t's frames go to: S's tap forwards through its FDB to its
\* master link s1 once s1 has joined the zone; R's tap client, bound by
\* bindPairClient, forwards to its peer r2 (FwdToPeer).
TapClient(t) == IF t = "S" THEN "s1" ELSE "r2"
Routed(t) == IF t = "S" THEN fdbJoined["s1"] ELSE dials[2] > 0

\* mytun.Read: a frame of n bytes within 42..1514 (others are re-read),
\* assembleUserPktHead, SetDataLen(n + 6), then ForwardPkt of the tap
\* client and PutPktToChan on the link client (dropped until it is valid).
TapRead(t) ==
  /\ tapRead[t] < MaxUser[t]
  /\ \E n \in TapLens :
       /\ L2PktMinSize <= n /\ n <= L2PktMaxSize
       /\ LET c == TapClient(t)
              f == Frame("user", n, Body(t, tapRead[t] + 1, "frame"))
              go == Routed(t) /\ valid[c]
          IN /\ go => CanQueue(c)
             /\ pktchan' = IF go THEN Queue(pktchan, c, f) ELSE pktchan
  /\ tapRead' = [tapRead EXCEPT ![t] = @ + 1]
  /\ UNCHANGED <<ct, zones, st, dials, fails, stream, valid, fdbJoined, hbSent,
                 announced, tapOut, panicked>>

----------------------------------------------------------------------------
(* Writers *)

\* WriteFromChan and vnetConn.Write of end e.  Towards a closed peer the
\* write may still be buffered by TCP (the frame is lost) or fail, and
\* WriteFromChan returns into Reconnect.
Writer(e) ==
  /\ st[e] = "up" /\ pktchan[e] # <<>>
  /\ \/ /\ st[Peer(e)] = "up"
        /\ stream' = [stream EXCEPT ![e] = Append(@, WriteFrame(Head(pktchan[e]), ct[e]))]
        /\ pktchan' = [pktchan EXCEPT ![e] = Tail(@)]
        /\ UNCHANGED <<st, fdbJoined>>
     \/ /\ st[Peer(e)] = "closed"
        /\ pktchan' = [pktchan EXCEPT ![e] = Tail(@)]
        /\ UNCHANGED <<st, stream, fdbJoined>>
     \/ /\ st[Peer(e)] = "closed"
        /\ CloseEnd(e)
  /\ UNCHANGED <<ct, zones, dials, fails, valid, hbSent, announced, tapRead, tapOut,
                 panicked>>

----------------------------------------------------------------------------
(* Readers: vnetConn.Read, the header, then the handler of its type *)

\* ForwardPkt of the frame g on end e: s1 through S's FDB to its tap
\* client, r2 to its bound tap client (FwdToPeer), h1 and h2 through H's
\* FDB to the other link once both have joined the zone.  A tap client's
\* writer hands the payload to mytun.Write; with CheckTunPkt a payload
\* that is not ARP or IP (as garbage may be) is not written.
Forward(e, g) ==
  LET t == IF e = "s1" THEN "S" ELSE "R"
      o == IF e = "h1" THEN "h2" ELSE "h1"
  IN IF e \in {"s1", "r2"}
       THEN /\ e = "s1" => fdbJoined[e]
            /\ \/ tapOut' = [tapOut EXCEPT ![t] = Append(@, g.body)]
               \/ g.body.enc # <<>> /\ UNCHANGED tapOut
            /\ UNCHANGED pktchan
       ELSE LET go == fdbJoined[e] /\ fdbJoined[o] /\ valid[o] IN
            /\ go => CanQueue(o)
            /\ pktchan' = IF go THEN Queue(pktchan, o, g) ELSE pktchan
            /\ UNCHANGED tapOut

\* The frame at the head of the stream towards e has been read.
Consumed(e) == stream' = [stream EXCEPT ![Peer(e)] = Tail(@)]

\* UserDataPktHandle and DataPktHandle.
ReadUser(e, f) ==
  CASE f.len < AcsSize.min \/ f.len > AcsSize.max ->
         CloseEnd(e) /\ UNCHANGED <<tapOut, panicked, valid>>
    [] ~UseBufOk(PktHeaderSize, f.len) ->
         panicked' = TRUE /\ Consumed(e) /\ UNCHANGED <<st, pktchan, fdbJoined, tapOut, valid>>
    [] ~valid[e] ->
         Consumed(e) /\ UNCHANGED <<st, pktchan, fdbJoined, tapOut, panicked, valid>>
    [] f.cry \notin 0..11 ->
         CloseEnd(e) /\ UNCHANGED <<tapOut, panicked, valid>>
    [] OTHER ->
         Forward(e, DecryptData(f)) /\ Consumed(e) /\ UNCHANGED <<st, fdbJoined, panicked, valid>>

\* HearbeatPktHandle and checkHeartBeat: a request is answered on e's own
\* pktchan, a reply to the connection's one request validates e, and
\* content that does not decrypt to either is only logged.
ReadHb(e, f) ==
  LET b == IF f.cry = 0 THEN f.body ELSE Decrypt(f.body, f.cry) IN
  CASE f.len > AcsSize.max \/ f.cry \notin 0..11 ->
         CloseEnd(e) /\ UNCHANGED <<tapOut, panicked, valid>>
    [] b = Body("-", 0, "req") ->
         /\ CanQueue(e)
         /\ pktchan' = Queue(pktchan, e, Frame("hbrpl", HbLen, Body("-", 0, "rpl")))
         /\ Consumed(e) /\ UNCHANGED <<st, fdbJoined, tapOut, panicked, valid>>
    [] b = Body("-", 0, "rpl") ->
         valid' = [valid EXCEPT ![e] = TRUE] /\ Consumed(e) /\ UNCHANGED <<st, pktchan, fdbJoined, tapOut, panicked>>
    [] OTHER ->
         Consumed(e) /\ UNCHANGED <<st, pktchan, fdbJoined, tapOut, panicked, valid>>

(* Mutant: FdbIdsMsgPktHandle parses the ids without Decrypt.            *)
ReadIdsRaw(e, f) ==
  CASE f.len > AcsSize.max \/ f.cry \notin 0..11 \/ f.len % 2 # 0 ->
         CloseEnd(e) /\ UNCHANGED <<tapOut, panicked, valid>>
    [] OTHER ->
         /\ fdbJoined' = [fdbJoined EXCEPT ![e] = @ \/ f.body = Body("-", 0, "ids")]
         /\ Consumed(e) /\ UNCHANGED <<st, pktchan, tapOut, panicked, valid>>

\* FdbIdsMsgPktHandle and handleFdbIdsMsg on H (dynamic mode): the ids are
\* joined; ids that do not decrypt name other zones.
ReadIds(e, f) ==
  LET b == IF f.cry = 0 THEN f.body ELSE Decrypt(f.body, f.cry) IN
  CASE f.len > AcsSize.max \/ f.cry \notin 0..11 \/ f.len % 2 # 0 ->
         CloseEnd(e) /\ UNCHANGED <<tapOut, panicked, valid>>
    [] OTHER ->
         /\ fdbJoined' = [fdbJoined EXCEPT ![e] = @ \/ b = Body("-", 0, "ids")]
         /\ Consumed(e) /\ UNCHANGED <<st, pktchan, tapOut, panicked, valid>>

\* ReadForward's loop body on end e: getPktBuf, Read, then the handler of
\* pktHandles for the header's type; a handler error ends the link.
Reader(e) ==
  /\ st[e] = "up" /\ stream[Peer(e)] # <<>>
  /\ ~panicked
  /\ LET f == Head(stream[Peer(e)]) IN
     CASE f.t = "user" -> ReadUser(e, f)
       [] f.t \in {"hbreq", "hbrpl"} -> ReadHb(e, f)
       [] f.t = "fdbids" -> ReadIds(e, f)
  /\ UNCHANGED <<ct, zones, dials, fails, hbSent, announced, tapRead>>

----------------------------------------------------------------------------
(* Link failures *)

\* An I/O error on end e (reader, writer or a heartbeat time-out): its
\* goroutine quits into Reconnect.
Fail(e) ==
  /\ st[e] = "up" /\ e \in FailEnds /\ fails < MaxFail
  /\ fails' = fails + 1
  /\ CloseEnd(e)
  /\ UNCHANGED <<ct, zones, dials, valid, hbSent, announced, tapRead, tapOut, panicked>>

\* The peer closed its socket and e has read all it wrote: Read returns
\* EOF and ReadForward quits into Reconnect.
Eof(e) ==
  /\ st[e] = "up" /\ st[Peer(e)] = "closed" /\ stream[Peer(e)] = <<>>
  /\ CloseEnd(e)
  /\ UNCHANGED <<ct, zones, dials, fails, valid, hbSent, announced, tapRead, tapOut,
                 panicked>>

----------------------------------------------------------------------------

\* Each end encrypts with its node's cipher c (S, H or R).
CtOf(c) == [e \in Ends |-> CASE e = "s1" -> c["S"] [] e = "r2" -> c["R"] [] OTHER -> c["H"]]

\* Every node has configured its cipher (SetDefaultCryptType) and S's taps
\* their zones (HandleTuns); no link is dialed yet, and R's tap client,
\* not yet bound, has no peer to forward to.
Init ==
  /\ \E c \in NodeCrypts : ct = CtOf(c)
  /\ zones \in AnnZones
  /\ st = [e \in Ends |-> "idle"]
  /\ dials = [l \in {1, 2} |-> 0]
  /\ fails = 0
  /\ pktchan = [e \in Ends |-> <<>>]
  /\ stream = [e \in Ends |-> <<>>]
  /\ valid = [e \in Ends |-> FALSE]
  /\ fdbJoined = [e \in Ends |-> FALSE]
  /\ hbSent = [e \in Ends |-> FALSE]
  /\ announced = [l \in {1, 2} |-> FALSE]
  /\ tapRead = [t \in Taps |-> 0]
  /\ tapOut = [t \in Taps |-> <<>>]
  /\ panicked = FALSE

Next ==
  \/ ~panicked /\ (ConnectNc \/ ConnBindTun \/ \E l \in {1, 2} : Announce(l))
  \/ ~panicked /\ \E t \in Taps : TapRead(t)
  \/ ~panicked /\ \E e \in Ends : HbRequest(e) \/ Writer(e) \/ Reader(e) \/ Fail(e) \/ Eof(e)

Spec == Init /\ [][Next]_vars

\* The program is idle: a node panicked, or every dial allowed has been
\* made, every live link is announced and has sent its request, nothing is
\* queued or in flight, and the taps have read all they will.  Its
\* goroutines then wait on their sockets.
Ended ==
  \/ panicked
  \/ /\ \A l \in {1, 2} : dials[l] = MaxDial \/ \E e \in Ends : LinkOf(e) = l /\ st[e] = "up"
     /\ \A l \in {1, 2} : st[Dialer(l)] = "up" => announced[l]
     /\ \A e \in Ends : /\ pktchan[e] = <<>> /\ stream[e] = <<>>
                       /\ st[e] = "up" => hbSent[e] /\ st[Peer(e)] = "up"
     /\ \A t \in Taps : tapRead[t] = MaxUser[t]

----------------------------------------------------------------------------
(* Properties *)

TypeOK ==
  /\ ct \in [Ends -> CryptIds]
  /\ st \in [Ends -> {"idle", "up", "closed"}]
  /\ dials \in [{1, 2} -> 0..MaxDial]
  /\ fails \in 0..MaxFail
  /\ \A e \in Ends : Len(pktchan[e]) <= ChanCap
  /\ valid \in [Ends -> BOOLEAN] /\ fdbJoined \in [Ends -> BOOLEAN]
  /\ \A t \in Taps : tapRead[t] \in 0..MaxUser[t]

\* What a tap is handed is exactly a frame the other tap read, decrypted:
\* across the two links, with each node's own cipher, every payload H
\* relays is decrypted with the cipher its header names and re-encrypted
\* with H's, and the frames of one tap arrive in the order it read them,
\* none twice.  It rests on vnetConn.Write setting the header's crypto
\* byte exactly when it encrypts, and on DataPktHandle clearing it after
\* decrypting, so a relayed frame never names a cipher it no longer has.
DeliveredPlain ==
  \A t \in Taps :
    /\ \A i \in 1..Len(tapOut[t]) :
         tapOut[t][i].enc = <<>> /\ tapOut[t][i].src = Other(t) /\ tapOut[t][i].c = "frame"
    /\ \A i \in 1..Len(tapOut[t]) - 1 : tapOut[t][i].n < tapOut[t][i + 1].n

\* Every end that comes up is eventually valid, unless its link closes or
\* a node panics: whatever the ciphers of the two nodes, each end's first
\* heartbeat request is read, decrypted with the cipher its header names,
\* and answered (HeartBeat, HearbeatPktHandle, checkHeartBeat).  An end
\* that is never valid drops every frame it reads (DataPktHandle).
HandshakeCompletes ==
  \A e \in Ends : st[e] = "up" ~> (valid[e] \/ st[e] # "up" \/ panicked)

\* A dialer's zones reach its hub: once the dialer of a link has run
\* reportFdbMsg, the hub's end eventually joins the zone, unless an end
\* of the link closes or a node panics.  The fdbIdsMsg is sent once per
\* connection (HandleConn, ConnBindTun) and is the only way H's accepting
\* end joins a zone, so it must get through the dialer's pktchan, the
\* cipher of its node, and FdbIdsMsgPktHandle's decryption on H.
AnnouncementJoins ==
  \A l \in {1, 2} :
    announced[l] /\ st[Dialer(l)] = "up"
      ~> \/ fdbJoined[Hub(l)] \/ panicked
         \/ st[Dialer(l)] # "up" \/ st[Hub(l)] # "up"

=============================================================================

--------------------------- MODULE MCLinkFailover ---------------------------
(***************************************************************************)
(* Link failure, checked in one run: the detection of a dead peer by a     *)
(* link's heartbeat (Heartbeat), the failover of a backup link to another  *)
(* slave when a slave link fails (BackupLink), and the first heartbeat     *)
(* exchange that validates a new link of the framed transport (Wire, with  *)
(* no tap traffic).  The three modules                                     *)
(* share no state; part, chosen in Init, says which of them moves in a     *)
(* behaviour, so TLC explores each from its own initial states and the     *)
(* state spaces add up rather than multiply.                               *)
(***************************************************************************)
EXTENDS Naturals

CONSTANTS HBBits, HeartbeatCnt, OutCap, InCap, MaxData, Slots, Delays, MaxFail,
          CryptIds, WNodeCrypts, TapLens, AnnZones, WMaxUser, MaxDial, WMaxFail,
          FailEnds, ChanCap

VARIABLES part,
          isClosed, valid, hpc, hbID, tc, rxChanged, tmr, out, in, rpc,
          peerAlive, nData,
          list, tok, active, wg, mpc, mbc, bpc, gen, closed, rc, delay, nFail,
          ct, zones, st, dials, fails, pktchan, stream, wvalid, fdbJoined,
          hbSent, announced, tapRead, tapOut, panicked

\* S and R encrypt (aes, 5), H does not; no tap reads a frame.
MCWNodeCrypts == {[n \in {"S", "H", "R"} |-> IF n = "H" THEN 0 ELSE 5]}
MCWMaxUser == [t \in {"S", "R"} |-> 0]

HB == INSTANCE Heartbeat
BL == INSTANCE BackupLink
W == INSTANCE Wire WITH valid <- wvalid, NodeCrypts <- WNodeCrypts,
                        MaxUser <- WMaxUser, MaxFail <- WMaxFail

hbVars == <<isClosed, valid, hpc, hbID, tc, rxChanged, tmr, out, in, rpc,
            peerAlive, nData>>
blVars == <<list, tok, active, wg, mpc, mbc, bpc, gen, closed, rc, delay, nFail>>
wVars == <<ct, zones, st, dials, fails, pktchan, stream, wvalid, fdbJoined,
           hbSent, announced, tapRead, tapOut, panicked>>
vars == <<part, hbVars, blVars, wVars>>

Init == part \in {"hb", "bl", "wire"} /\ HB!Init /\ BL!Init /\ W!Init

\* A step of the component the behaviour is about.
InHb(A) == part = "hb" /\ A /\ UNCHANGED <<part, blVars, wVars>>
InBl(A) == part = "bl" /\ A /\ UNCHANGED <<part, hbVars, wVars>>
InW(A) == part = "wire" /\ A /\ UNCHANGED <<part, hbVars, blVars>>

\* A heartbeat link has ended once it is closed, its goroutines have quit
\* and no timer is armed (BackupLink has its own Finished).
HbEnded == hpc = "exit" /\ rpc = "exit" /\ tmr # "armed"

Next ==
  \/ InHb(HB!Next) \/ InBl(BL!Next) \/ InW(W!Next)
  \/ part = "hb" /\ HbEnded /\ UNCHANGED vars
  \/ part = "wire" /\ W!Ended /\ UNCHANGED vars

\* Each module's own fairness, for the steps of the component that moves.
\* In Wire, HeartBeat, the readers and the writers are goroutines the Go
\* scheduler keeps running; dials and failures get no fairness.  A link
\* carries finitely many frames, so weak fairness of their steps taken
\* together already lets every one of them that stays enabled run.
Fairness ==
  /\ WF_vars(InHb(HB!HeartBeatStart)) /\ WF_vars(InHb(HB!HbSend))
  /\ WF_vars(InHb(HB!HbTop)) /\ WF_vars(InHb(HB!HbExpire))
  /\ WF_vars(InHb(HB!TimerFire)) /\ WF_vars(InHb(HB!ReadMsg))
  /\ WF_vars(InHb(HB!ReaderReply)) /\ WF_vars(InHb(HB!ReadFail))
  /\ WF_vars(InHb(HB!WriteFail))
  /\ \A i \in Slots : WF_vars(InBl(BL!AddBackup(i))) /\ WF_vars(InBl(BL!DelBackup(i)))
  /\ WF_vars(InBl(BL!Choose)) /\ WF_vars(InBl(BL!Recv))
  /\ WF_vars(InBl(BL!Activate)) /\ WF_vars(InBl(BL!WaitDone))
  /\ WF_vars(InW(\E e \in W!Ends : W!HbRequest(e) \/ W!Writer(e) \/ W!Reader(e) \/ W!Eof(e)))

Spec == Init /\ [][Next]_vars /\ Fairness

----------------------------------------------------------------------------

\* Both modules' type invariants (the idle one stays in its initial state).
TypeOK == part \in {"hb", "bl", "wire"} /\ HB!TypeOK /\ BL!TypeOK /\ W!TypeOK

\* See Heartbeat: a late heartbeat reply is never taken for the current one.
ReplyIdsUnambiguous == HB!ReplyIdsUnambiguous

\* See Heartbeat: a peer that dies silently gets the link closed.
DeadPeerClosed == HB!DeadPeerClosed

\* See BackupLink: activeSlave is a listed slave, counted once by the
\* WaitGroup the master waits on.
ActiveListed == BL!ActiveListed

\* See BackupLink: once slaves stop failing, the master forwards through
\* a slave for good.
EventuallyActive == part = "bl" => BL!EventuallyActive

\* See Wire: every end that comes up is eventually validated by the first
\* heartbeat exchange, whatever the two nodes' ciphers, or closed.
HandshakeCompletes == part = "wire" => W!HandshakeCompletes

\* Wire's AnnouncementJoins, in the wire part.
AnnouncementJoins == part = "wire" => W!AnnouncementJoins

=============================================================================

-------------------------- MODULE MCClientSession --------------------------
(***************************************************************************)
(* The client's frame path in one module, two parts: the goroutines of     *)
(* the clients of one zone sharing pooled buffers (ClientSession), and the *)
(* framed transport across two links and a relay (Wire).  They share no   *)
(* state; part, chosen in Init among Parts, says which of them moves, and  *)
(* the other stays in its initial state, so the state spaces add up.       *)
(***************************************************************************)
EXTENDS Naturals

CONSTANTS a, b, c, Parts,
          Clients, ChanSize, Senders, MaxFrames, CryptOn,
          CryptIds, NodeCrypts, TapLens, AnnZones, MaxUser, MaxDial, MaxFail, FailEnds, ChanCap

VARIABLES part,
          isClosed, chanClosed, closeSt, joined, chan, rd, wr, ref, pooled,
          used, enc, written, nread, crashed,
          ct, zones, st, dials, fails, pktchan, stream, valid, fdbJoined,
          hbSent, announced, tapRead, tapOut, panicked

MCClients == {a, b, c}
MCSenders == {a}

\* S's tap reads one frame, R's none; S and R encrypt (aes, 5) and the
\* relay H does not, so H reads ciphertext from S and relays it, decrypted,
\* to R in the clear.
MCMaxUser == [t \in {"S", "R"} |-> IF t = "S" THEN 1 ELSE 0]
MCNodeCrypts == {[n \in {"S", "H", "R"} |-> IF n = "H" THEN 0 ELSE 5]}

CS == INSTANCE ClientSession
W == INSTANCE Wire

csVars == <<isClosed, chanClosed, closeSt, joined, chan, rd, wr, ref, pooled,
            used, enc, written, nread, crashed>>
wVars == <<ct, zones, st, dials, fails, pktchan, stream, valid, fdbJoined,
           hbSent, announced, tapRead, tapOut, panicked>>
vars == <<part, csVars, wVars>>

Init ==
  /\ part \in Parts
  /\ CS!Init
  /\ W!Init
  /\ part = "session" => /\ ct = W!CtOf(CHOOSE n \in NodeCrypts : TRUE)
                         /\ zones = CHOOSE z \in AnnZones : TRUE

Next ==
  \/ part = "session" /\ CS!Next /\ UNCHANGED <<part, wVars>>
  \/ part = "wire" /\ W!Next /\ UNCHANGED <<part, csVars>>

Spec == Init /\ [][Next]_vars

----------------------------------------------------------------------------

\* Both modules' type invariants (the idle one stays in its initial state).
TypeOK == part \in Parts /\ CS!TypeOK /\ W!TypeOK

\* See ClientSession: every reference a buffer has is held.
RefCovers == CS!RefCovers

\* See ClientSession: no goroutine sends on a closed pktchan.
NoSendOnClosed == CS!NoSendOnClosed

\* See ClientSession: a frame is encrypted once before it is written.
WireEncryptedOnce == CS!WireEncryptedOnce

\* See Wire: a tap is handed exactly the other tap's frames, decrypted and
\* in the order they were read.
DeliveredPlain == W!DeliveredPlain

=============================================================================

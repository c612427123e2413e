----------------------------- MODULE BackupLink -----------------------------
(***************************************************************************)
(* The backup-link aggregator of vnet/bakLink.go: one master client blc    *)
(* whose cio is a backupLink, one BackupClient goroutine per dial target   *)
(* (a slot), each connecting a fresh slave client, adding it to            *)
(* bl.backupClients, waiting for the slave's Reconnect and deleting it     *)
(* again, and blc's MasterWorking loop, which picks a slave (choseBackup), *)
(* makes it bl.activeSlave under the slave's lock, and waits on the        *)
(* WaitGroup until delBackup retires it.                                   *)
(*                                                                         *)
(* A slave is <<slot, generation>>: every reconnect of a slot dials a new  *)
(* Client.  A slave's heartBeatDelayAvg is 0 until its first heartbeat     *)
(* reply and then a value of Delays.                                       *)
(***************************************************************************)
EXTENDS Integers, FiniteSets, Sequences, FiniteSetsExt

CONSTANTS Slots,    \* the dial targets, 1..N: one BackupClient each
          Delays,   \* heartBeatDelayAvg values a measured slave can have
          MaxFail   \* bound on slave failures (Reconnects) in a behaviour

ASSUME Slots = 1..Cardinality(Slots) /\ Delays \subseteq Nat \ {0}

Nil == <<0, 0>>
Slaves == Slots \X (0..MaxFail)

VARIABLES list,    \* bl.backupClients: index -> slave or Nil
          tok,     \* len(bl.backupChan), capacity 1
          active,  \* bl.activeSlave
          wg,      \* the counter of the WaitGroup wg
          mpc,     \* where MasterWorking is
          mbc,     \* MasterWorking's bc
          bpc,     \* slot -> where its BackupClient is
          gen,     \* slot -> generation of its current slave
          closed,  \* slot -> the current slave's isClosed
          rc,      \* slot -> a value is in the current slave's reconnect chan
          delay,   \* slot -> the current slave's heartBeatDelayAvg (0: none)
          nFail    \* slave failures so far

vars == <<list, tok, active, wg, mpc, mbc, bpc, gen, closed, rc, delay, nFail>>

\* IsClose of slave s: the slot has moved on to a newer slave, or the
\* current one is closed.
IsClose(s) == gen[s[1]] > s[2] \/ closed[s[1]]

DelayOf(s) == IF gen[s[1]] = s[2] THEN delay[s[1]] ELSE 0

----------------------------------------------------------------------------
(* Mutant: the master activates bc without re-checking IsClose. *)
ActivateUnchecked(bc) == TRUE

(* Mutant: addBackup does not wake the master. *)
AddNoWake == tok

----------------------------------------------------------------------------

\* choseBackup: among listed slaves that are not closed, the one with the
\* least nonzero heartBeatDelayAvg (the first such on a tie); if none has
\* one, the first listed; Nil if none is listed.
choseBackup ==
  LET Live == {k \in DOMAIN list : list[k] # Nil /\ ~IsClose(list[k])}
      Meas == {k \in Live : DelayOf(list[k]) # 0}
      Least == Min({DelayOf(list[k]) : k \in Meas})
  IN CASE Meas # {} -> list[Min({k \in Meas : DelayOf(list[k]) = Least})]
       [] Live # {} -> list[Min(Live)]
       [] OTHER -> Nil

\* The test MasterWorking makes under bc.Lock before activating bc.
ActivateOk(bc) == ~IsClose(bc)

\* delBackup's activeSlave after it removed s.
DelActive(s) == IF active = s THEN Nil ELSE active

\* addBackup's backupChan after a slave was added: a value is sent only
\* when the channel is empty.
AddWake == IF tok = 0 THEN 1 ELSE tok

----------------------------------------------------------------------------
(* BackupClient(true, dialer, di) of each slot *)

\* dialer.Connect, CreateConnClient, then addBackup under bl.Lock: the
\* slave goes to the first free index, backupChan gets a value if it is
\* empty, bc.master = c; then slave.Working and reportFdbMsg.
AddBackup(i) ==
  /\ bpc[i] = "connect"
  /\ LET k == Min({j \in DOMAIN list : list[j] = Nil}) IN
       list' = [list EXCEPT ![k] = <<i, gen[i]>>]
  /\ tok' = AddWake
  /\ bpc' = [bpc EXCEPT ![i] = "wait"]
  /\ UNCHANGED <<active, wg, mpc, mbc, gen, closed, rc, delay, nFail>>

\* A heartbeat reply on the slave: heartBeatDelayCalc sets its average.
HbReply(i) ==
  /\ bpc[i] = "wait"
  /\ ~closed[i]
  /\ \E d \in Delays : delay' = [delay EXCEPT ![i] = d]
  /\ UNCHANGED <<list, tok, active, wg, mpc, mbc, bpc, gen, closed, rc, nFail>>

\* One of the slave's goroutines (reader, writer, HeartBeat) quits and its
\* deferred Reconnect runs: Close sets isClosed under the slave's lock,
\* then c.reconnect <- true.
SlaveFail(i) ==
  /\ bpc[i] = "wait"
  /\ ~closed[i]
  /\ nFail < MaxFail
  /\ closed' = [closed EXCEPT ![i] = TRUE]
  /\ rc' = [rc EXCEPT ![i] = TRUE]
  /\ nFail' = nFail + 1
  /\ UNCHANGED <<list, tok, active, wg, mpc, mbc, bpc, gen, delay>>

\* <-slave.reconnect, then delBackup under bl.Lock: the slave's index is
\* cleared, bc.master = nil, and if it is the active slave, activeSlave =
\* nil and wg.Done; then close(reconnect), the master is not closed, the
\* 2 s sleep, and the loop dials a new slave.
DelBackup(i) ==
  /\ bpc[i] = "wait"
  /\ rc[i]
  /\ LET s == <<i, gen[i]>> IN
       /\ list' = [k \in DOMAIN list |-> IF list[k] = s THEN Nil ELSE list[k]]
       /\ active' = DelActive(s)
       /\ wg' = IF active = s THEN wg - 1 ELSE wg
  /\ gen' = [gen EXCEPT ![i] = @ + 1]
  /\ closed' = [closed EXCEPT ![i] = FALSE]
  /\ rc' = [rc EXCEPT ![i] = FALSE]
  /\ delay' = [delay EXCEPT ![i] = 0]
  /\ bpc' = [bpc EXCEPT ![i] = "connect"]
  /\ UNCHANGED <<tok, mpc, mbc, nFail>>

----------------------------------------------------------------------------
(* blc.MasterWorking *)

\* bc := c.choseBackup(); with none, block on <-bl.backupChan.
Choose ==
  /\ mpc = "choose"
  /\ LET bc == choseBackup IN
       /\ mbc' = bc
       /\ mpc' = IF bc = Nil THEN "recv" ELSE "lock"
  /\ UNCHANGED <<list, tok, active, wg, bpc, gen, closed, rc, delay, nFail>>

\* <-bl.backupChan returns, and the loop chooses again.
Recv ==
  /\ mpc = "recv"
  /\ tok = 1
  /\ tok' = 0
  /\ mpc' = "choose"
  /\ mbc' = Nil
  /\ UNCHANGED <<list, active, wg, bpc, gen, closed, rc, delay, nFail>>

\* bc.Lock(); if !bc.IsClose() { activeSlave = bc; wg.Add(1) }; bc.Unlock().
Activate ==
  /\ mpc = "lock"
  /\ IF ActivateOk(mbc)
       THEN /\ active' = mbc
            /\ wg' = wg + 1
       ELSE UNCHANGED <<active, wg>>
  /\ mpc' = "wait"
  /\ UNCHANGED <<list, tok, mbc, bpc, gen, closed, rc, delay, nFail>>

\* wg.Wait() returns once the counter is 0, and the loop chooses again.
WaitDone ==
  /\ mpc = "wait"
  /\ wg = 0
  /\ mpc' = "choose"
  /\ mbc' = Nil
  /\ UNCHANGED <<list, tok, active, wg, bpc, gen, closed, rc, delay, nFail>>

----------------------------------------------------------------------------

\* newbackupLink(N), NcAccessBackup: every BackupClient is about to dial,
\* MasterWorking is about to choose.
Init ==
  /\ list = [k \in Slots |-> Nil]
  /\ tok = 0
  /\ active = Nil
  /\ wg = 0
  /\ mpc = "choose"
  /\ mbc = Nil
  /\ bpc = [i \in Slots |-> "connect"]
  /\ gen = [i \in Slots |-> 0]
  /\ closed = [i \in Slots |-> FALSE]
  /\ rc = [i \in Slots |-> FALSE]
  /\ delay = [i \in Slots |-> 0]
  /\ nFail = 0

\* The failure budget is spent and the master serves an active slave:
\* every goroutine is blocked on a channel or the WaitGroup for good.
Quiet ==
  /\ nFail = MaxFail
  /\ mpc = "wait" /\ wg > 0
  /\ \A i \in Slots : bpc[i] = "wait" /\ ~rc[i]

Finished == Quiet /\ UNCHANGED vars

Next ==
  \/ \E i \in Slots : AddBackup(i) \/ HbReply(i) \/ SlaveFail(i) \/ DelBackup(i)
  \/ Choose \/ Recv \/ Activate \/ WaitDone
  \/ Finished

\* Go runs every runnable goroutine; dialing eventually succeeds (Connect
\* retries until it does).  Heartbeat replies and failures are not forced.
Fairness ==
  /\ \A i \in Slots : WF_vars(AddBackup(i)) /\ WF_vars(DelBackup(i))
  /\ WF_vars(Choose) /\ WF_vars(Recv) /\ WF_vars(Activate) /\ WF_vars(WaitDone)

Spec == Init /\ [][Next]_vars /\ Fairness

----------------------------------------------------------------------------
(* Properties *)

TypeOK ==
  /\ list \in [Slots -> Slaves \cup {Nil}]
  /\ tok \in 0..1
  /\ active \in Slaves \cup {Nil}
  /\ mpc \in {"choose", "recv", "lock", "wait"}
  /\ bpc \in [Slots -> {"connect", "wait"}]
  /\ delay \in [Slots -> Delays \cup {0}]
  /\ nFail \in 0..MaxFail

\* bl.activeSlave, set by MasterWorking under the slave's lock only, and
\* cleared by delBackup under bl.Lock, is always a slave still listed in
\* backupClients, and the WaitGroup counts exactly that one activation: the
\* master never waits on a slave delBackup has already retired (it would
\* wait forever), and wg.Done never drives the counter negative (a panic).
ActiveListed ==
  /\ active # Nil => \E k \in DOMAIN list : list[k] = active
  /\ wg = IF active = Nil THEN 0 ELSE 1

\* Once the slaves stop failing, the master ends up forwarding through a
\* slave for good: the backupChan wake-up of addBackup is never lost, and
\* MasterWorking never stays blocked while a live slave is listed.
EventuallyActive == <>[](active # Nil)

=============================================================================

---------------------------- MODULE ZoneRegistry ----------------------------
(***************************************************************************)
(* The zone registry of src/fdb (FdbMap: zone id -> *FDB, NewFdb,          *)
(* GetFdbIds, TryToDelFdbById, DelFdbById) and the zone membership code of *)
(* src/vnet/vid.go that drives it: joinFdbById / quitFdbByIds /            *)
(* quitAllFdb under the client's lock, handleFdbIds for a zone-membership  *)
(* announcement, JoinAllFdb of a master link and updateMasterFdb.          *)
(*                                                                         *)
(* Goroutines: the reader of each accepted link (it handles one            *)
(* announcement, then runs updateMasterFdb), the closer of each accepted   *)
(* link (Client.Close: quitAllFdb, then updateMasterFdb) and the           *)
(* connecting goroutine of each master link (JoinAllFdb).  An FDB object   *)
(* is a number 1..MaxFdbs; of its contents only the ports each client      *)
(* holds and allocNum (incremented only for accepted links, inc =          *)
(* !c.isClient) are kept.  The registry lock and the per-FDB locks make    *)
(* NewFdb, GetFdbById + getPortNum, DelFdbById, JoinFwdPort and            *)
(* ReleaseFwdPort single steps; c.Lock is held across a whole join or quit *)
(* loop, c.RLock only while the loop's ids are computed.                   *)
(***************************************************************************)
EXTENDS Integers, FiniteSets, Functions

CONSTANTS
    Accepted,   \* links accepted by this node (isClient = FALSE)
    Masters,    \* master links (isClient = TRUE, in ClientMaster)
    Zones,      \* zone ids
    Dynamic,    \* len(Vids) == 0: no static zone list pins the registry
    MaxFdbs     \* bound on FDB objects NewFdb creates

Clients == Accepted \cup Masters
Fdbs == 1 .. MaxFdbs
G == {<<"rd", a>> : a \in Accepted} \cup {<<"cl", a>> : a \in Accepted}
       \cup {<<"mj", m>> : m \in Masters}

VARIABLES
    reg,        \* FdbMap.fdbs: zone -> FDB object (0: absent)
    nfdb,       \* FDB objects created so far
    allocNum,   \* per FDB object: portPool.allocNum
    held,       \* per FDB object and client: ports the client holds in it
    joined,     \* per client: fdbJoined, zone -> FDB object (0: absent)
    isNil,      \* per client: fdbJoined == nil (set by quitAllFdb)
    lock,       \* per client: the goroutine holding c.Lock, or Free
    pc,         \* per goroutine
    tgt,        \* per goroutine: the client whose loop it runs
    qs, js,     \* per goroutine: ids its quit / join loop has left
    cur,        \* per goroutine: the zone in hand
    fp,         \* per goroutine: the FDB object NewFdb returned
    ids,        \* per goroutine: updateMasterFdb's GetFdbIds snapshot
    left,       \* per goroutine: masters updateMasterFdb has yet to visit
    accJ, accQ, \* per goroutine: updateMasterFdb's joinIds / quitIds
    crashed     \* a panic ended the process

vars == <<reg, nfdb, allocNum, held, joined, isNil, lock, pc, tgt, qs, js,
          cur, fp, ids, left, accJ, accQ, crashed>>
local == <<tgt, qs, js, cur, fp, ids, left, accJ, accQ>>

Free == <<"free">>                             \* c.Lock not held
(* Mutant: ReleaseFwdPort passed true for every link. *)
DecAlways(c) == 1

\* JoinFwdPort(c, !c.isClient) and ReleaseFwdPort(id, !c.isClient).
Inc(c) == IF c \in Accepted THEN 1 ELSE 0
Dec(c) == IF c \in Accepted THEN 1 ELSE 0
Dom(c) == {z \in Zones : joined[c][z] # 0}     \* keys of c.fdbJoined
Registered == {z \in Zones : reg[z] # 0}       \* GetFdbIds

\* Where a goroutine goes once its join loop on client t is over: a
\* reader goes on to updateMasterFdb in dynamic mode, updateMasterFdb to
\* its next master.  A loop over no ids (c.Lock; c.Unlock) is skipped.
AfterJoin(g, t) == CASE g[1] = "mj" \/ ~Dynamic -> "done"
                     [] t = g[2]                -> "um"
                     [] OTHER                   -> "umPick"
AfterQuit(g, t, J) == IF J = {} THEN AfterJoin(g, t) ELSE "jlock"
Loops(g, t, Q, J) == IF Q = {} THEN AfterQuit(g, t, J) ELSE "qlock"


(***************************************************************************)
(* Goroutine entry points                                                  *)
(***************************************************************************)
\* FdbIdsMsgPktHandle -> handleFdbIdsMsg -> handleFdbIds: the announced
\* ids (in static mode only those GetFdbById finds), then, under c.RLock,
\* the ids to join and the ids to quit.
RdStart(a) ==
    LET g == <<"rd", a>> IN
    /\ pc[g] = "start" /\ lock[a] = Free
    /\ \E V \in SUBSET Zones :
          LET W == IF Dynamic THEN V ELSE V \cap Registered IN
          /\ qs' = [qs EXCEPT ![g] = Dom(a) \ W]
          /\ js' = [js EXCEPT ![g] = W \ Dom(a)]
          /\ pc' = [pc EXCEPT ![g] = Loops(g, a, Dom(a) \ W, W \ Dom(a))]
    /\ tgt' = [tgt EXCEPT ![g] = a]
    /\ UNCHANGED <<reg, nfdb, allocNum, held, joined, isNil, lock, cur, fp, ids,
                   left, accJ, accQ, crashed>>

\* Client.Close (after isClosed is set): on to quitAllFdb.
ClStart(a) ==
    LET g == <<"cl", a>> IN
    /\ pc[g] = "start"
    /\ tgt' = [tgt EXCEPT ![g] = a]
    /\ pc' = [pc EXCEPT ![g] = "qlock"]
    /\ UNCHANGED <<reg, nfdb, allocNum, held, joined, isNil, lock, qs, js, cur, fp,
                   ids, left, accJ, accQ, crashed>>

\* A master link after connecting: JoinAllFdb joins every id GetFdbIds
\* returns (read without c.Lock; the join loop takes it).
MjStart(m) ==
    LET g == <<"mj", m>> IN
    /\ pc[g] = "start"
    /\ js' = [js EXCEPT ![g] = Registered]
    /\ tgt' = [tgt EXCEPT ![g] = m]
    /\ pc' = [pc EXCEPT ![g] = AfterQuit(g, m, Registered)]
    /\ UNCHANGED <<reg, nfdb, allocNum, held, joined, isNil, lock, qs, cur, fp, ids,
                   left, accJ, accQ, crashed>>

(***************************************************************************)
(* Quit loop: quitFdbByIds, or quitAllFdb for the closer, under c.Lock.    *)
(***************************************************************************)
QLock(g) ==
    LET t == tgt[g] IN
    /\ pc[g] = "qlock" /\ lock[t] = Free
    /\ lock' = [lock EXCEPT ![t] = g]
    /\ qs' = IF g[1] = "cl" THEN [qs EXCEPT ![g] = Dom(t)] ELSE qs
    /\ pc' = [pc EXCEPT ![g] = "quit"]
    /\ UNCHANGED <<reg, nfdb, allocNum, held, joined, isNil, tgt, js, cur, fp, ids,
                   left, accJ, accQ, crashed>>

\* One id: if joined, ReleaseFwdPort (decPortNum panics below zero) and
\* delete the fdbJoined entry; then, in dynamic mode, TryToDelFdbById.
Quit(g, z) ==
    LET t == tgt[g]
        f == joined[t][z]
    IN
    /\ pc[g] = "quit" /\ z \in qs[g]
    /\ qs' = [qs EXCEPT ![g] = @ \ {z}]
    /\ IF f # 0
       THEN /\ held' = [held EXCEPT ![f][t] = @ - 1]
            /\ allocNum' = [allocNum EXCEPT ![f] = @ - Dec(t)]
            /\ crashed' = (allocNum'[f] < 0)
            /\ joined' = [joined EXCEPT ![t][z] = 0]
            /\ cur' = [cur EXCEPT ![g] = z]
            /\ pc' = [pc EXCEPT ![g] = IF Dynamic THEN "try" ELSE "quit"]
       ELSE UNCHANGED <<held, allocNum, crashed, joined, cur, pc>>
    /\ UNCHANGED <<reg, nfdb, isNil, lock, tgt, js, fp, ids, left, accJ, accQ>>

\* TryToDelFdbById: GetFdbById, then getPortNum() == 0.
TryToDel(g) ==
    LET f == reg[cur[g]] IN
    /\ pc[g] = "try"
    /\ pc' = [pc EXCEPT ![g] = IF f # 0 /\ allocNum[f] = 0 THEN "del" ELSE "quit"]
    /\ UNCHANGED <<reg, nfdb, allocNum, held, joined, isNil, lock, local, crashed>>

\* DelFdbById: delete whatever FdbMap.fdbs holds for the id now.
DelFdbById(g) ==
    /\ pc[g] = "del"
    /\ reg' = [reg EXCEPT ![cur[g]] = 0]
    /\ pc' = [pc EXCEPT ![g] = "quit"]
    /\ UNCHANGED <<nfdb, allocNum, held, joined, isNil, lock, local, crashed>>

\* End of the loop: c.Unlock; quitAllFdb sets fdbJoined = nil first.
QuitDone(g) ==
    LET t == tgt[g] IN
    /\ pc[g] = "quit" /\ qs[g] = {}
    /\ lock' = [lock EXCEPT ![t] = Free]
    /\ isNil' = IF g[1] = "cl" THEN [isNil EXCEPT ![t] = TRUE] ELSE isNil
    /\ pc' = [pc EXCEPT ![g] = IF g[1] # "cl" THEN AfterQuit(g, t, js[g])
                               ELSE IF Dynamic THEN "um" ELSE "done"]
    /\ UNCHANGED <<reg, nfdb, allocNum, held, joined, local, crashed>>

(***************************************************************************)
(* Join loop: joinFdbByIds under c.Lock, joinFdbById per id.               *)
(***************************************************************************)
JLock(g) ==
    LET t == tgt[g] IN
    /\ pc[g] = "jlock" /\ lock[t] = Free
    /\ lock' = [lock EXCEPT ![t] = g]
    /\ pc' = [pc EXCEPT ![g] = "join"]
    /\ UNCHANGED <<reg, nfdb, allocNum, held, joined, isNil, local, crashed>>

\* NewFdb under FdbMap.Lock: the registered FDB, or a new one registered.
NewFdb(g, z) ==
    /\ pc[g] = "join" /\ z \in js[g]
    /\ IF reg[z] # 0
       THEN /\ fp' = [fp EXCEPT ![g] = reg[z]]
            /\ UNCHANGED <<reg, nfdb>>
       ELSE /\ nfdb < MaxFdbs
            /\ nfdb' = nfdb + 1
            /\ reg' = [reg EXCEPT ![z] = nfdb + 1]
            /\ fp' = [fp EXCEPT ![g] = nfdb + 1]
    /\ js' = [js EXCEPT ![g] = @ \ {z}]
    /\ cur' = [cur EXCEPT ![g] = z]
    /\ pc' = [pc EXCEPT ![g] = "add"]
    /\ UNCHANGED <<allocNum, held, joined, isNil, lock, tgt, qs, ids, left,
                   accJ, accQ, crashed>>

\* JoinFwdPort(c, inc) (a free port id is assumed), then c.fdbJoined[id] =
\* fp, which panics when quitAllFdb has set the map to nil.
JoinFwdPort(g) ==
    LET t == tgt[g]
        f == fp[g]
    IN
    /\ pc[g] = "add"
    /\ held' = [held EXCEPT ![f][t] = @ + 1]
    /\ allocNum' = [allocNum EXCEPT ![f] = @ + Inc(t)]
    /\ crashed' = isNil[t]
    /\ joined' = IF isNil[t] THEN joined ELSE [joined EXCEPT ![t][cur[g]] = f]
    /\ pc' = [pc EXCEPT ![g] = "join"]
    /\ UNCHANGED <<reg, nfdb, isNil, lock, local>>

\* End of the loop: c.Unlock.
JoinDone(g) ==
    LET t == tgt[g] IN
    /\ pc[g] = "join" /\ js[g] = {}
    /\ lock' = [lock EXCEPT ![t] = Free]
    /\ pc' = [pc EXCEPT ![g] = AfterJoin(g, t)]
    /\ UNCHANGED <<reg, nfdb, allocNum, held, joined, isNil, local, crashed>>

(***************************************************************************)
(* updateMasterFdb, run by the reader or the closer of an accepted link.   *)
(***************************************************************************)
\* GetFdbIds once, before the loop over ClientMaster.
UpdateMasterFdb(g) ==
    /\ pc[g] = "um"
    /\ ids' = [ids EXCEPT ![g] = Registered]
    /\ left' = [left EXCEPT ![g] = Masters]
    /\ pc' = [pc EXCEPT ![g] = "umPick"]
    /\ UNCHANGED <<reg, nfdb, allocNum, held, joined, isNil, lock, tgt, qs, js,
                   cur, fp, accJ, accQ, crashed>>

\* One master, in map order: under c.RLock add the ids it lacks to joinIds
\* and the ids it has beyond the registry's to quitIds.  joinIds and
\* quitIds are declared before the loop and never reset, so each master
\* is also handed what the masters before it lacked or had.
UmMaster(g, m) ==
    LET J == accJ[g] \cup (ids[g] \ Dom(m))
        Q == accQ[g] \cup (Dom(m) \ ids[g])
    IN
    /\ pc[g] = "umPick" /\ m \in left[g] /\ lock[m] = Free
    /\ accJ' = [accJ EXCEPT ![g] = J]
    /\ accQ' = [accQ EXCEPT ![g] = Q]
    /\ js' = [js EXCEPT ![g] = J]
    /\ qs' = [qs EXCEPT ![g] = Q]
    /\ tgt' = [tgt EXCEPT ![g] = m]
    /\ left' = [left EXCEPT ![g] = @ \ {m}]
    /\ pc' = [pc EXCEPT ![g] = Loops(g, m, Q, J)]
    /\ UNCHANGED <<reg, nfdb, allocNum, held, joined, isNil, lock, cur, fp, ids,
                   crashed>>

UmDone(g) ==
    /\ pc[g] = "umPick" /\ left[g] = {}
    /\ pc' = [pc EXCEPT ![g] = "done"]
    /\ UNCHANGED <<reg, nfdb, allocNum, held, joined, isNil, lock, local, crashed>>

(***************************************************************************)
(* Specification                                                           *)
(***************************************************************************)
\* SetVids has created one FDB per configured zone in static mode.
Init ==
    /\ reg \in IF Dynamic THEN {[z \in Zones |-> 0]}
               ELSE {r \in [Zones -> 1 .. Cardinality(Zones)] : IsInjective(r)}
    /\ nfdb = IF Dynamic THEN 0 ELSE Cardinality(Zones)
    /\ allocNum = [f \in Fdbs |-> 0]
    /\ held = [f \in Fdbs |-> [c \in Clients |-> 0]]
    /\ joined = [c \in Clients |-> [z \in Zones |-> 0]]
    /\ isNil = [c \in Clients |-> FALSE]
    /\ lock = [c \in Clients |-> Free]
    /\ pc = [g \in G |-> "start"]
    /\ tgt = [g \in G |-> g[2]]
    /\ qs = [g \in G |-> {}]
    /\ js = [g \in G |-> {}]
    /\ cur = [g \in G |-> CHOOSE z \in Zones : TRUE]
    /\ fp = [g \in G |-> 0]
    /\ ids = [g \in G |-> {}]
    /\ left = [g \in G |-> {}]
    /\ accJ = [g \in G |-> {}]
    /\ accQ = [g \in G |-> {}]
    /\ crashed = FALSE

\* Every goroutine has returned, or a panic ended the process.
Finished == (crashed \/ \A g \in G : pc[g] = "done") /\ UNCHANGED vars

Step(g) ==
    \/ QLock(g) \/ \E z \in Zones : Quit(g, z) \/ TryToDel(g) \/ DelFdbById(g)
    \/ QuitDone(g) \/ JLock(g) \/ \E z \in Zones : NewFdb(g, z)
    \/ JoinFwdPort(g) \/ JoinDone(g) \/ UpdateMasterFdb(g)
    \/ \E m \in Masters : UmMaster(g, m) \/ UmDone(g)

Next ==
    \/ ~crashed /\ \E a \in Accepted : RdStart(a) \/ ClStart(a)
    \/ ~crashed /\ \E m \in Masters : MjStart(m)
    \/ ~crashed /\ \E g \in G : Step(g)
    \/ Finished

\* Goroutines are scheduled and sync.RWMutex hands the lock on.
Spec == Init /\ [][Next]_vars /\ \A g \in G : WF_vars(~crashed /\ Step(g))

\* The state with every goroutine's dead locals blanked: the zone and FDB
\* in hand outside the steps that use them, updateMasterFdb's snapshot
\* and accumulators outside its loop, everything once it has returned.
InUm(g) == pc[g] # "done" /\ (pc[g] \in {"um", "umPick"} \/ (tgt[g] \in Masters /\ g[1] # "mj"))
LiveLocals(g) ==
    <<IF pc[g] = "done" THEN 0 ELSE tgt[g], qs[g], js[g],
      IF pc[g] \in {"try", "del", "add"} THEN cur[g] ELSE 0,
      IF pc[g] = "add" THEN fp[g] ELSE 0,
      IF InUm(g) THEN <<ids[g], left[g], accJ[g], accQ[g]>> ELSE 0>>
View == <<reg, nfdb, allocNum, held, joined, isNil, lock, pc, crashed,
          [g \in G |-> LiveLocals(g)]>>

(***************************************************************************)
(* Properties                                                              *)
(***************************************************************************)
\* Types.
TypeOK ==
    /\ reg \in [Zones -> 0 .. MaxFdbs]
    /\ nfdb \in 0 .. MaxFdbs
    /\ allocNum \in [Fdbs -> Nat]
    /\ held \in [Fdbs -> [Clients -> Nat]]
    /\ joined \in [Clients -> [Zones -> 0 .. MaxFdbs]]
    /\ lock \in [Clients -> G \cup {Free}]
    /\ pc \in [G -> {"start", "qlock", "quit", "try", "del", "jlock", "join",
                     "add", "um", "umPick", "done"}]

\* Spec section 3 (one FDB instance per zone) and section 8 (a link in a
\* zone receives exactly one copy of a flooded frame): every zone a link
\* has joined is the FDB FdbMap holds for the id, and the link holds one
\* port in it.  TryToDelFdbById checks allocNum and deletes the id in two
\* steps while another link joins; updateMasterFdb computes a master's
\* joinIds under c.RLock and joins under c.Lock, from several goroutines.
ZoneMembership ==
    \A c \in Clients, z \in Zones :
        LET f == joined[c][z] IN
        f # 0 => reg[z] = f /\ held[f][c] = 1

=============================================================================

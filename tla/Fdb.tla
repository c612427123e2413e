-------------------------------- MODULE Fdb --------------------------------
(***************************************************************************)
(* One zone's forwarding database (src/fdb): the MAC learning table, the   *)
(* array-based port-id free list, the port map, the aging tick, and the    *)
(* clients (links or tap devices) that join the zone as ports, forward     *)
(* frames into it from their reader goroutine, and release their port when *)
(* they close.                                                             *)
(*                                                                         *)
(* Concurrency kept from the code: every client has a reader goroutine     *)
(* (ReadForward -> ForwardPkt -> FDB.Forward) and a closer (Client.Close   *)
(* -> quitAllFdb -> ReleaseFwdPort), and one global goroutine runs         *)
(* fdbtick.  A reader takes its fdbPort under c.RLock (GetFdbById) and      *)
(* then forwards without holding any client lock, so its Forward can run   *)
(* while, or after, its own port is being released.                        *)
(***************************************************************************)
EXTENDS Integers, Sequences, FiniteSets, Functions

CONSTANTS
    Ports,          \* client objects that may join the zone (portIO values)
    MACs,           \* source / destination MAC addresses
    MAXPORT,        \* size of portIdPool; ids 1..MAXPORT-1, 0 = empty
    StaleTicks,     \* maybeExpire threshold (3 in the code)
    ExpireTime,     \* aging threshold (300 in the code)
    SweepPeriod,    \* sweep every SweepPeriod ticks (FdbTick&63 == 0)
    SweepMin,       \* sweep only tables larger than this (128)
    MaxTick         \* bound on FdbTick for model checking

ASSUME MAXPORT \in Nat /\ MAXPORT >= 2
ASSUME {StaleTicks, ExpireTime, SweepMin} \subseteq Nat
ASSUME SweepPeriod \in Nat \ {0} /\ MaxTick \in Nat

PortIds == 1 .. (MAXPORT - 1)

\* Ethernet frame classes Forward's learning tells apart: an ARP reply
\* (IsArpRelpy), any other ARP or IPv4 frame (broadcast or not: that only
\* picks flood or unicast delivery), and a frame that is neither.
Kinds == {"arpReply", "arpOrIp", "other"}
Frames == {f \in [src : MACs, dst : MACs, kind : Kinds] : f.src # f.dst}
NoFrame == [src |-> "none", dst |-> "none", kind |-> "none"]

\* A MacNode (FdbMacNode{pio, ft}); Absent marks a MAC not in mactable.
Absent == [port |-> "none", ft |-> 0]
Nodes == [port : Ports, ft : 0 .. MaxTick]

VARIABLES
    mactable,   \* FDB.mactable, MAC -> MacNode
    portMap,    \* FDB.portMap.ports, port id -> portIO (absent = "none")
    pool,       \* FDB.portPool.portIdPool, a free list threaded through an array
    allocNum,   \* FDB.portPool.allocNum
    tick,       \* fdb.FdbTick
    portId,     \* per client: fdbJoined[zone].fdbPortId (0 = not joined)
    life,       \* per client: where it is in its join / close sequence
    closed,     \* per client: Client.isClosed
    rpc,        \* per client reader: "idle" or "forward" (a frame in hand)
    frame       \* per client reader: the frame being forwarded

vars == <<mactable, portMap, pool, allocNum, tick, portId, life, closed,
          rpc, frame>>

Lives == {"down", "up", "nojoin", "closed", "unmapping", "released"}

(***************************************************************************)
(* Port-id free list (port.go).  Mutated forms used by the mutation runs   *)
(* come first; each stands for a plausible slip in the code below it.      *)
(***************************************************************************)
PoolAfterFreeSwapped(p, id) == [p EXCEPT ![0] = id, ![id] = id]

\* portIdAlloc: pop the head of the list kept in slot 0.
PortIdHead(p) == p[0]
PoolAfterAlloc(p) == [p EXCEPT ![0] = p[p[0]]]

\* portIdFree: push id on the head of the list.
PoolAfterFree(p, id) == [p EXCEPT ![id] = p[0], ![0] = id]

\* initPortPool frees 1..MAXPORT-1 in order, so MAXPORT-1 ends at the head.
RECURSIVE FreeAll(_, _)
FreeAll(p, n) == IF n = 0 THEN p ELSE FreeAll(PoolAfterFree(p, MAXPORT - n), n - 1)
InitPool == FreeAll([i \in 0 .. (MAXPORT - 1) |-> 0], MAXPORT - 1)

\* The ids reachable from the head, in list order, following at most
\* MAXPORT links (a cycle shows up as a chain of length MAXPORT).
RECURSIVE Walk(_, _, _)
Walk(p, id, fuel) ==
    IF id = 0 \/ fuel = 0 THEN <<>> ELSE <<id>> \o Walk(p, p[id], fuel - 1)
FreeChain(p) == Walk(p, p[0], MAXPORT)

\* incPortNum / decPortNum on allocNum (decPortNum panics below zero).
IncPortNumSkipped(n) == n
IncPortNum(n) == n + 1
DecPortNum(n) == n - 1

(***************************************************************************)
(* FdbMacNode helpers (fdb.go).                                            *)
(***************************************************************************)
MaybeExpire(n) == tick - n.ft > StaleTicks
Bound(m) == mactable[m] # Absent

(***************************************************************************)
(* Client join: joinFdbById -> FDB.JoinFwdPort(c, inc) under c.Lock.       *)
(* Allocation, incPortNum and addPortMap are done back to back by the      *)
(* joining goroutine and are one step here.  An empty pool (id 0) makes    *)
(* joinFdbById return an error; the client keeps running unjoined.         *)
(***************************************************************************)
JoinFwdPort(c) ==
    /\ life[c] = "down"
    /\ LET id == PortIdHead(pool) IN
       IF id = 0
       THEN /\ life' = [life EXCEPT ![c] = "nojoin"]
            /\ UNCHANGED <<pool, allocNum, portMap, portId>>
       ELSE /\ pool' = PoolAfterAlloc(pool)
            /\ allocNum' = IncPortNum(allocNum)
            /\ portMap' = [portMap EXCEPT ![id] = c]
            /\ portId' = [portId EXCEPT ![c] = id]
            /\ life' = [life EXCEPT ![c] = "up"]
    /\ UNCHANGED <<mactable, tick, closed, rpc, frame>>

(***************************************************************************)
(* Client.Close: set isClosed under c.Lock; then quitAllFdb.               *)
(***************************************************************************)
Close(c) ==
    /\ life[c] \in {"up", "nojoin"}
    /\ closed' = [closed EXCEPT ![c] = TRUE]
    /\ life' = [life EXCEPT ![c] = IF life[c] = "up" THEN "closed" ELSE "released"]
    /\ UNCHANGED <<mactable, portMap, pool, allocNum, tick, portId, rpc, frame>>

\* ReleaseFwdPort, first half: getPortMap finds the port, DelFmnByPortIO
\* deletes every MacNode whose pio is this client.
DelFmnByPortIO(c) ==
    /\ life[c] = "closed"
    /\ mactable' = [m \in MACs |-> IF mactable[m].port = c THEN Absent ELSE mactable[m]]
    /\ life' = [life EXCEPT ![c] = "unmapping"]
    /\ UNCHANGED <<portMap, pool, allocNum, tick, portId, closed, rpc, frame>>

\* ReleaseFwdPort, second half: delPortMap, portIdFree, decPortNum; then
\* quitAllFdb deletes the fdbJoined entry (still under c.Lock).
ReleaseFwdPort(c) ==
    /\ life[c] = "unmapping"
    /\ portMap' = [portMap EXCEPT ![portId[c]] = "none"]
    /\ pool' = PoolAfterFree(pool, portId[c])
    /\ allocNum' = DecPortNum(allocNum)
    /\ portId' = [portId EXCEPT ![c] = 0]
    /\ life' = [life EXCEPT ![c] = "released"]
    /\ UNCHANGED <<mactable, tick, closed, rpc, frame>>

(***************************************************************************)
(* Reader goroutine.  Receive: ReadForward has read a frame and            *)
(* ForwardPkt's GetFdbById found the zone in fdbJoined.  GetFdbById takes  *)
(* c.RLock, so it is blocked while quitAllFdb holds c.Lock, but it can run *)
(* after Close has set isClosed and before quitAllFdb starts.              *)
(***************************************************************************)
Receive(c) ==
    /\ rpc[c] = "idle"
    /\ life[c] \in {"up", "closed"}
    /\ \E f \in Frames :
          /\ frame' = [frame EXCEPT ![c] = f]
          /\ rpc' = [rpc EXCEPT ![c] = "forward"]
    /\ UNCHANGED <<mactable, portMap, pool, allocNum, tick, portId, life, closed>>

\* FDB.Forward: drop non ARP/IP frames, then look the source MAC up and
\* learn it (Add), refresh it (same port), move it (maybeExpire or an ARP
\* reply) or drop the frame as a suspected loop.  The delivery that follows
\* (flood / PutPktToChan) changes no FDB state; it is modelled with the
\* client's packet channel.
Forward(c) ==
    LET f == frame[c]
        n == mactable[f.src]
        learn == [mactable EXCEPT ![f.src] = [port |-> c, ft |-> tick]]
    IN
    /\ rpc[c] = "forward"
    /\ rpc' = [rpc EXCEPT ![c] = "idle"]
    /\ mactable' = CASE f.kind = "other"                       -> mactable
                     [] n = Absent                              -> learn
                     [] n.port = c                              -> learn
                     [] MaybeExpire(n) \/ f.kind = "arpReply"   -> learn
                     [] OTHER                                   -> mactable
    /\ UNCHANGED <<portMap, pool, allocNum, tick, portId, life, closed, frame>>

(***************************************************************************)
(* fdbtick: once a second; every SweepPeriod ticks, a table holding more   *)
(* than SweepMin entries loses every entry older than ExpireTime.          *)
(***************************************************************************)
FdbTickStep ==
    /\ tick' = IF tick < MaxTick THEN tick + 1 ELSE tick
    /\ IF tick' % SweepPeriod = 0
          /\ Cardinality({m \in MACs : Bound(m)}) > SweepMin
       THEN mactable' = [m \in MACs |->
                           IF Bound(m) /\ tick' - mactable[m].ft > ExpireTime
                           THEN Absent ELSE mactable[m]]
       ELSE UNCHANGED mactable
    /\ UNCHANGED <<portMap, pool, allocNum, portId, life, closed, rpc, frame>>

Init ==
    /\ mactable = [m \in MACs |-> Absent]
    /\ portMap = [i \in PortIds |-> "none"]
    /\ pool = InitPool
    /\ allocNum = 0
    /\ tick = 0
    /\ portId = [c \in Ports |-> 0]
    /\ life = [c \in Ports |-> "down"]
    /\ closed = [c \in Ports |-> FALSE]
    /\ rpc = [c \in Ports |-> "idle"]
    /\ frame = [c \in Ports |-> NoFrame]

Next ==
    \/ \E c \in Ports :
          \/ JoinFwdPort(c)
          \/ Close(c)
          \/ DelFmnByPortIO(c)
          \/ ReleaseFwdPort(c)
          \/ Receive(c)
          \/ Forward(c)
    \/ FdbTickStep

Spec == Init /\ [][Next]_vars

(***************************************************************************)
(* Properties                                                              *)
(***************************************************************************)
\* Types; allocNum counts the joined ports and never goes below zero (the
\* panic in decPortNum).
TypeOK ==
    /\ mactable \in [MACs -> Nodes \cup {Absent}]
    /\ portMap \in [PortIds -> Ports \cup {"none"}]
    /\ pool \in [0 .. (MAXPORT - 1) -> 0 .. (MAXPORT - 1)]
    /\ allocNum \in 0 .. (MAXPORT - 1)
    /\ tick \in 0 .. MaxTick
    /\ portId \in [Ports -> 0 .. (MAXPORT - 1)]
    /\ life \in [Ports -> Lives]
    /\ closed \in [Ports -> BOOLEAN]
    /\ rpc \in [Ports -> {"idle", "forward"}]
    /\ frame \in [Ports -> Frames \cup {NoFrame}]

\* The port-id free list (portIdAlloc / portIdFree over portIdPool) stays a
\* simple acyclic list, and it and the ids the clients hold partition
\* 1..MAXPORT-1: JoinFwdPort never hands out an id that a joined client
\* still holds, and no id is lost, across any order of joins and releases.
PoolPartition ==
    LET chain == FreeChain(pool)
        held  == {portId[c] : c \in {d \in Ports : portId[d] # 0}}
    IN  /\ Len(chain) < MAXPORT
        /\ IsInjective(chain)
        /\ Range(chain) \cap held = {}
        /\ Range(chain) \cup held = PortIds

\* Spec section 3: every MacNode's port is currently in the port map (a
\* MacNode is removed when its owning port is released).  The reader of a
\* closing client can learn a source MAC after ReleaseFwdPort's
\* DelFmnByPortIO has run.
MacBoundToLivePort ==
    \A m \in MACs : Bound(m) => mactable[m].port \in Range(portMap)

=============================================================================

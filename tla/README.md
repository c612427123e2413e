# TLA+ models of govnet (jursonmo/mygovnet)

govnet is a virtual Layer-2 network. Tunnel clients and TAP devices join
*zones* (VLAN ids). Every zone has a learning bridge, the forwarding database
(FDB). Frames can also go through a connection tracker (netstat) and a
source NAT with IPv4 fragment reassembly. Timeouts run on a hierarchical
timer wheel. This directory holds TLA+ models of those parts and the TLC
configurations that check them.

## 1. Inventory

| Part | Source | State | Operations | Concurrency |
|---|---|---|---|---|
| FDB | `fdb/fdb.go`, `fdb/port.go`, `fdb/forward.go` | `mactable` (MAC → {pio, ft}), `portIdPool` (a free list threaded through an array, slot 0 is the head), `portMap` (id → port), `allocNum`, global `FdbTick` | `JoinFwdPort`, `ReleaseFwdPort` (`DelFmnByPortIO`, `delPortMap`, `portIdFree`, `decPortNum`), `Forward` (learn / refresh / move / loop-drop, then flood or unicast), `fdbtick` aging | every client's reader goroutine, closers, the `fdbtick` goroutine |
| Zone registry | `fdb/fdb.go` `NewFdb`, `GetFdbIds`, `TryToDelFdbById` | `FdbMap.fdbs` | create on first join, delete when `allocNum` is 0 | joins and quits of different clients |
| Zone membership | `vnet/vid.go` | `Client.fdbJoined` | `joinFdbById`, `quitAllFdb`, `GetFdbById`, zone-id messages to and from the master | guarded by the client's RWMutex |
| Client session | `vnet/client.go`, `vnet/conn.go`, `vnet/encode.go` | `isClosed`, `valid`, `pktchan`, `fdbJoined`, reconnect channel | `HandleConn`, `Working`, `ReadForward`, `WriteFromChan`, `PutPktToChan(2)`, `Close`, `Reconnect`, `ForwardPkt` | a reader, a writer, a heartbeat and a stats goroutine per client; other clients' readers put frames on its channel |
| Heartbeat / echo | `vnet/heartbeat.go`, `vnet/wuwu.go` | `hbID`, timeout count, `valid` | send, check a reply, time out | heartbeat goroutine and reader |
| Backup links | `vnet/bakLink.go` | `activeSlave`, recv queue, `wg` | add/del backup, choose active, `PutToRecvQueue` | slaves' readers, master |
| Conntrack | `netstat/conntrack.go`, `netstat/net.go` | `nct.conntracks` (tuple → record, both directions), per record `status`, `stats`, `timer` | `tcpHandler`, `udpHandler`, `ctTimeoutDel`, `ctESTABLISHEDTimeout` | the single `netStatHandle` goroutine and timer callbacks, which run in goroutines started by `onTick` |
| Timer wheel | `vendor/timer/timer.go` | `jiffies`, `tv1..tv5` buckets, per timer `index` (−1 once fired) | `addTimerInternal`, `cascade`, `onTick`, `delTimer`, `resetTimer` | the wheel's tick goroutine and callers of Stop/Reset |
| SNAT | `nat/snat.go` | NAT conntracks, fragment tables | `ipHandler`, `udpHandler`, `doNat`, `getUniqueTuple` | packet path |
| Fragment reassembly | `nat/fragment.go` | per (src, dst, id) queue: fragments, `meat`, `qLen`, flags | `ProcessFragment`, `completed` | packet path |
| Packet buffers | `packet/pktpool.go` | reference count per buffer | Hold / Release / pool put | every goroutine that queues a buffer |
| Checksums | `nat/checksum.go` | none | RFC 1071 sum, combine, pseudo-header | pure |
| Devices, routes, info, main, ciphers, `reaserch/` | | | I/O and setup | not modelled (see PROJECT.json) |

How the parts interact:

1. A client's reader decrypts a frame.
2. `ForwardPkt` looks up the frame's zone in `fdbJoined`.
3. It calls `FDB.Forward`. That learns the source MAC and puts the frame on other clients' `pktchan` with `PutPktToChan`.
4. When `netstat` is enabled, it queues the buffer for the conntrack goroutine.
5. Conntrack arms wheel timers. Their callbacks delete records later.
6. When a client closes, it releases its FDB port: its MacNodes, its port-map entry and its port id. If it was the zone's last port, it may delete the zone.

Hard behaviours in this code:

- A reader keeps forwarding while its own client is being closed.
- Timer callbacks run after the timer can no longer be stopped.
- Check-then-act on the zone registry and on the packet channel.
- Buffers shared by several writers and encrypted in place.
- Fragment overlaps that panic.
- Counters that wrap.

## 2. Plan and status

| Module | Part | Status |
|---|---|---|
| Fdb | FDB, zone membership, the FDB side of `Close` | done |
| Conntrack | netstat handlers and timer callbacks, over the timer contract | done |
| TimerContract, TimerWheel | the timer wheel and what it promises | done (refinement checked) |
| FragQueue | `ProcessFragment` under the fragment branch of `ipHandler` | done |
| ClientSession | reader, writer, `PutPktToChan2`, `Close`, buffer reference counts | done |
| ZoneRegistry | the zone registry and zone membership (`vnet/vid.go`) across goroutines | done |
| Heartbeat | `HeartBeat`, `hbID`, `checkHeartBeat`, timeout and `Reconnect` | done |
| BackupLink | slave add/delete, `choseBackup`, `MasterWorking`'s activation and WaitGroup | done (frame path not modelled) |
| Checksum | `Checksum`, `ChecksumCombine`, the IPv4 header checksum, against RFC 1071 | done |
| Wire | the framed transport: taps, two links and a relay, frame handlers, per-node ciphers, the p2p binding | done (one dial per link) |

## 3. What is modelled

### Fdb.tla (`fdb/*.go`, `vnet/vid.go`, `Client.Close`, `ForwardPkt`)

**State.**

| Variable | Code |
|---|---|
| `mactable` | `FDB.mactable` |
| `portMap` | `portMap.ports` |
| `pool` | `portIdPool` (the array itself: `PoolAfterAlloc` and `PoolAfterFree` are `portIdAlloc` and `portIdFree` line for line) |
| `allocNum` | `allocNum` |
| `tick` | `FdbTick` |
| `portId` | `fdbJoined[zone].fdbPortId` |
| `closed` | `isClosed` |
| `life` | where the client is in join → close → release |
| `rpc`, `frame` | the reader goroutine's frame in hand |

**Actions.**

- `JoinFwdPort` (allocation + `incPortNum` + `addPortMap`).
- `Close` (`isClosed`).
- `DelFmnByPortIO` and `ReleaseFwdPort`: the two halves of `ReleaseFwdPort`, split where another goroutine can act.
- `Receive`: `GetFdbById` after a read.
- `Forward`: the learning part of `FDB.Forward`, including the loop drop. Delivery changes no FDB state.
- `FdbTickStep`: `fdbtick`.

**Frames.** A frame is abstracted to (src MAC, dst MAC, kind). The kind is an ARP reply, other ARP/IP, or neither.

**Constants.** The code's 3 s / 300 s / every 64 ticks / more than 128 entries are scaled to StaleTicks=1, ExpireTime=1, SweepPeriod=2, SweepMin=1. This makes port moves and the aging sweep happen inside MaxTick=2. `FdbTick` stops at MaxTick; after that the tick goroutine keeps running without effect.

**Abstractions.**

- `inc`/`dec` are taken as true, the server side.
- `valid` is not modelled.

### Conntrack.tla (`netstat/*.go`, the timer contract)

**State.**

| Variable | Code |
|---|---|
| `table` | the record both tuple keys map to |
| `status` | `ct.status` |
| `dirty` | `ct.stats` ≠ the stats the EST timer captured |
| `timers` | every timer each record armed; the last one is `ct.timer` |

A timer is `pending` (in the wheel), `fired` (`index = -1`, callback not run), `stopped` or `done`.

**Actions.**

- `TcpPacket` and `UdpPacket`: one whole handler call. The handler is one goroutine. Every decision that races a callback goes through Stop or Reset, which the model evaluates in the same step.
- `Fire`: `onTick`.
- `Callback`: the callback goroutine, running `ctTimeoutDel` or `ctESTABLISHEDTimeout`.

**Packets.** A packet is (direction relative to the record, TCP flag combination, outbound).

**Protocol.** `proto` is chosen in `Init` from the constant `Protos` and never changes: a flow's tuple fixes which handler `netStatHandle` calls. One run covers both protocols.

**Timeouts.** Timeout lengths are abstracted: any pending timer may fire at any point, because packets can arrive at any time.

**Fairness.** Weak fairness on firing and on running callbacks. The wheel's `run` goroutine ticks forever, and `onTick` always starts the callback goroutine.

**Deadlock.** Deadlock checking is off. Once the bounded traffic stops, the handler blocks on an empty queue and the wheel has nothing to fire, which is a real quiescent state.

### TimerContract.tla (what `vendor/timer` promises)

This module is the abstract timer, the contract that Conntrack's callers rely on.

- `now` is the wheel's tick count.
- A timer is either armed with a `deadline`, or `Unarmed`.
- `Tick` moves every armed timer whose deadline is at most `now` into `queued`, all at once.
- `Run` is the callback. A periodic timer is re-armed `period` ticks after the current `now`.
- `Cancel` applies only to an armed timer, so a fired timer cannot be stopped.

The contract is written from the callers' use of the package. The `Timer` and `Ticker` wrappers are not in the repository, so the contract is taken as their interface (the map marks it `spec_modelled`).

### TimerWheel.tla (`vendor/timer/timer.go`)

**State.**

| Variable | Code |
|---|---|
| `jiffies` | `w.jiffies` |
| `tv[l][s]` | `w.tv1..tv5[s]`, each a slice: `delTimer` nils an entry in place, and `cascade` empties the slice and re-adds the non-nil entries |
| `index`, `lvl`, `findex` | `t.index` (−1 once fired or deleted), `t.tv`, `t.findex` |
| `expires`, `period` | `t.expires`, `t.period` |
| `running` | the `do_vec` of every callback goroutine started by `onTick` and still running |
| `pc` | where each timer's user is: free → made → armed → done |

**Scaling.** The widths `tvr_bits = 8` and `tvn_bits = 6` are the constants `TvrBits` and `TvnBits`. The run uses 1 for both, so tv1 holds delays 0..1, tv2 2..3, tv3 4..7 and tv4 8..15.

**Operators and actions.**

- Pure operators: `Place` and `AddInternal` (addTimerInternal, including the negative-index branch and the clamp at `0xffffffff`), `Cascade`, `GetIndex` and `CascadeFrom` (the short-circuit chain of `onTick`), and `DelTimer`.
- `OnTick` covers the cascade, `jiffies++`, taking `tv1[index]` and starting the goroutine.
- `NewTimerFunc` and `TickFunc` are `newTimer`. It reads `jiffies` without the lock, so `AddTimer` (`addTimer`) is a separate step.
- `Stop` is `delTimer`.
- `Reset` is `resetTimer(t, d, 0)`.
- `Callback` runs one entry of `do_vec`. For a periodic timer it re-adds the timer at `period + jiffies`.

**Type.** The module has no type invariant of its own: every wrong state a plausible slip in the code leads to is one `IndexConsistent`, `ImplementsContract` or `CascadeMovesDown` rejects.

**Refinement.** `Contract == INSTANCE TimerContract WITH ...` maps:

- `now` to `jiffies`;
- `deadline` to `expires` for timers whose `index ≠ −1`;
- `queued` to the timers in a running `do_vec`.

`ImplementsContract == Contract!Spec` is checked as a PROPERTY. A wheel step that does not correspond to a contract step is a stuttering step of the contract: `AddTimer`, a cascade of timers that are not yet due, or a `Stop` that fails.

### FragQueue.tla (`nat/fragment.go`, the fragment branch of `ipHandler` in `nat/snat.go`)

The model covers one `fragQueue` key (proto, IP id, source, destination). The fragments of successive datagrams that reuse the key are fed to it.

- **Fragments.** A fragment's payload is abstracted to its identity `<<datagram, position>>`. The queue keeps the code's list order, `meat`, `qLen` and flags.
- **`ProcessFragment`.** It is one CASE whose arms are the code's branches:
  - the queue is COMPLETE;
  - the list is empty (the fragment is pushed without LAST_IN);
  - a tail fragment, which panics on overlap;
  - a middle fragment: the loop from the back finds the insertion point; there is no point (reject), or it overlaps the next fragment (panic), or it is inserted.
- **`IpHandler`.** `fragQueueFind`, then `newfragQueue` when the key is absent, then `ProcessFragment`. The result is DROP, STOLEN, or `completed()`, and the chain is handed on.
- **Network.** `Duplicate` delivers a fragment once more, up to `MaxDup` times. `Send` sends the next datagram with the same IP id once the previous one has left the network.
- **Arrival order.** Under `FirstFragmentFirst`, a datagram's first fragment arrives before its others. Otherwise the order is arbitrary.
- **No fairness.** Only safety is checked. A datagram whose tail arrives first never completes, but the spec asks for first-fragment-first arrival.
- **Not wired in.** `DoNat`, the only caller of `ipHandler`, is never called in the repository, so this path is not reached in the program as built. The model checks the reassembly code as the spec describes its use.

### Checksum.tla (`nat/checksum.go`, `IPv4.CalculateChecksum`/`SetChecksum`, the header rewrite in `nat/snat.go`)

The Internet checksum is a pure function. The module translates it into operators:
- `SumWords`, a RECURSIVE operator, is the loop of `Checksum` in a uint32.
- `Checksum` adds an odd last byte as a high byte, then the words, then folds once through `ChecksumCombine` (`uint16(v + v>>16)`).
- `HeaderChecksum` is the SNAT path's `SetChecksum(0); SetChecksum(^CalculateChecksum())` on a header whose checksum field sits at an even offset.

The byte width is the constant `ByteBits`. A uint16 has `2 * ByteBits` bits and the uint32 accumulator `4 * ByteBits`, so every shift, truncation and carry stays where the code has it. With 8-bit bytes the accumulator cannot overflow for any packet, and the same holds for the scaled widths and lengths checked.

**Reference.** The RFC 1071 definition: the ones' complement sum (`OnesAdd`, end-around carry) of the 16-bit words, an odd last byte padded with zero. A state is one input: a buffer and an initial sum. Every input of up to `MaxLen` bytes is an initial state. `Extend` checks the same input one byte longer, so the run has steps.

**Properties.**
- `ChecksumIsOnesSum`: `Checksum` equals the reference.
- `HeaderVerifies`: a rewritten header checksums to all ones.

`PseudoHeaderChecksum` is only chained `Checksum` calls and is left out; the one chained sum of the SNAT path, the UDP checksum, is discarded at `snat.go:339`, so chaining is not checked. `DoNat`, the only caller, is never called, and the `UDP` type it uses is not defined in package `nat`.

**Checked with FragQueue.** MCNat checks FragQueue and Checksum in one run, with `part` choosing which moves (as in MCLinkFailover). The run checks invariants only.

### ClientSession.tla (`vnet/client.go`, `vnet/conn.go`, `packet/pktpool.go`, `fdb/forward.go` flood)

The model has several clients of one zone. Each client has three goroutines, written as separate actions where they can interleave.

**The reader.**

- `ReadFrame`: `getPktBuf` (a pooled or a new buffer, `ref = 1`), `cio.Read`, and `ForwardPkt`. `FDB.Forward` then floods every other port, picks one port, or drops the frame.
- `PutCheck`: the `IsClose` test and `HoldPktBuf` of `PutPktToChan2`.
- `PutSend`: `c.pktchan <- pkt`. It blocks while the channel is full and panics once the channel is closed.
- `FwdDone`: `putPktBuf`.
- `ReadFail`: `Read` fails after `Close`.

**The writer.**

- `WriterRecv`: `range pktchan`.
- `WriterEncrypt`: `vnetConn.Write` encrypts the buffer in place under `cryptLock`.
- `WriterWrite`: the write, then `putPktBuf`.
- `WriterFail`: a failed write returns without `putPktBuf`, and `Reconnect` calls `Close`.

**Close.**

- `CloseBegin`: `isClosed` is set under the lock. Only the first caller proceeds.
- `CloseChan`: `close(pktchan)`.
- `CloseConn`: `cio.Close` and `quitAllFdb`. The port leaves the zone.

**Abstractions.**

- A buffer's bytes are abstracted to how many times they have been encrypted since the reader filled them.
- `written` records the encryption counts of the frames that reach the wire.
- `valid` is taken as true. The heartbeat, statistics and p2p/backup paths are left out.

**Deadlock.** Deadlock checking is off. With bounded traffic, every goroutine ends blocked on `Read` or on an empty channel, which is the program's idle state.

`MCClientSession` runs ClientSession and Wire side by side. They share no state: `part`, chosen in Init from `Parts`, picks the model that moves, and the other stays in its initial state. The two violation runs set `Parts` to the session alone. Deadlock checking is off in Wire too, for the same reason: once its traffic is bounded, every goroutine waits on a socket or a channel.

### Wire.tla (`vnet/encode.go`, `vnetConn.Read`/`Write`, the frame handlers of `vnet/client.go` and `vnet/vid.go`, `mytun.Read`/`Write`, `ConnectNc`, `ConnBindTun`, `HandleConn`, the roles chosen by `main`)

Three nodes and two links. S runs its taps through the master link it dials to H
(`HandleTuns`); R runs in p2p mode (`ConnBindTun`), its tap client bound to the
link it dials (`bindPairClient`); H accepts both links and bridges them through
its FDB. `s1`/`h1` are the two ends of link 1, `h2`/`r2` those of link 2. Every
node has its own `CryptType`.

**State.** Per end: `st` (idle, up, closed), `pktchan`, `stream` (the frames it
has written that its peer has not read), `valid`, `fdbJoined` (has joined the
taps' zone) and `hbSent`. Per link: `dials` and `announced`. Per tap: `tapRead`,
`tapOut`. Also `ct` (each end's cipher), `zones` (how many zones S's master
link announces), `fails` and `panicked`.

**Actions.**

- `ConnectNc` (link 1) and `ConnBindTun` (link 2): the dialers' loops, each enabled only for the role `main` gives its node. `NodeConf` is the configuration, and `Roles` is main's choice of mode from it: one tun, one server and no listener mean p2p. Both loops use `Dial`.
- `Dial`: `myDial.Connect` (`Connect`, which retries until it succeeds) and `HandleConn` on both nodes. `NewClients` is `CreateConnClient`: both ends come up, with empty channels and streams and `valid` false.
- `AcsSize` is the frame range of every end: `setAcsSize` gives R's bound client its tap's `getPktRange`, which for a tap is NewClient's 42..1514. `DataLenOk` and `UseBufOk` are the `log.Panicf` guards of `SetDataLen` and `LoadAndUseBuf`; the latter adds two uint16 lengths, so its sum wraps at 2^16. Every handler checks the length against `AcsSize` first, so the wrap is never reached here.
- `Announce`: `JoinAllFdb` and `reportFdbMsg`: the dialer joins its zones and queues an ids frame of two bytes per zone. `SetDataLen` panics when the frame exceeds the buffer.
- `HbRequest`: the first heartbeat request of `HeartBeat`.
- `TapRead`: `mytun.Read` (lengths outside 42..1514 are re-read), the header, and `ForwardPkt`. S's frame goes to the master link once it has joined; R's goes to its bound peer. A frame for an end that is not yet `valid` goes nowhere.
- `Writer`: `WriteFromChan` and `vnetConn.Write`, which encrypts with the end's cipher and sets the header's crypto byte. Towards a closed peer a write is lost or fails, and the writer closes its end.
- `Reader`: `vnetConn.Read` and the handler for the header's type:
  - `ReadUser` (`UserDataPktHandle`, `DataPktHandle`): length checks, the `valid` gate, decryption, the crypto byte cleared, `ForwardPkt`. At S and R the frame reaches the tap (`mytun.Write`, which may drop a frame that is not ARP or IP). At H it goes to the other link once both have joined and the other is valid.
  - `ReadHb` (`HearbeatPktHandle`, `checkHeartBeat`): a request is answered, the reply sets `valid`, and anything else is only logged.
  - `ReadIds` (`FdbIdsMsgPktHandle`): the hub joins the announced zone.
- `Fail`: an I/O error on an end (`Reconnect`, `Close`). `Eof`: the peer closed and everything it wrote has been read.

**Abstractions.**

- A stream is a sequence of whole frames. Every handler reads exactly the header's length or returns an error that ends the link, and the senders here emit only the four registered types, so framing is never lost.
- A payload is its origin, its sequence number and the cipher layers on it. A cipher's `Decrypt` removes only its own last layer. Over anything else it yields bytes that no cipher undoes. `CRY_NONE` (2) copies.
- One dial per link, and later heartbeats are left out: `Heartbeat` models the timer loop.

**Properties.**

- `DeliveredPlain`: every payload a tap receives is plaintext, comes from the other tap, and arrives in the order it was read. Checked in client_session.
- `HandshakeCompletes`: every end that comes up eventually becomes valid, unless its link closes or a node panics. Checked in link_failover, where Wire is a third `part` with its `valid` renamed `wvalid`.
- `AnnouncementJoins`: once a dialer has run `reportFdbMsg`, the hub's end eventually joins the zone, unless an end of the link closes or a node panics. The ids frame is sent once per connection and is the only way an accepting end joins a zone, so it must pass the dialer's `pktchan`, its node's cipher, and `FdbIdsMsgPktHandle`'s decryption on H. Also checked in link_failover.

**Fairness.** Weak fairness applies to the steps of HeartBeat, the readers, the writers and `Eof`, taken together. These are goroutines the Go scheduler keeps running. A link carries finitely many frames, so joint fairness lets every one of these steps that stays enabled run. Dials, tap reads, announcements and failures are not forced.

**Deadlock.** In link_failover, `Ended` is the one state allowed to stutter: a node has panicked, or every dial has been made, every live link has announced and sent its request, and nothing is queued or in flight.

### Heartbeat.tla (`vnet/heartbeat.go`, the heartbeat branch of the reader, `Reconnect`)

The model covers one link: client c, its `HeartBeat` goroutine, its reader, its `hbTimer`, and the peer.

**Queues.**

- `out` is everything between c's `PutPktToChan2` and the peer's reader: `pktchan`, the writer and the socket buffers.
- `in` is the path back.
- Both are FIFO, as TCP is, and bounded (`OutCap`, `InCap`). A send blocks on a full queue, as `c.pktchan <- pkt` does.

**Messages.** A message is a kind plus an id. The flag `cur` is history only: it marks the messages of the latest request.

**Actions.**

- `HeartBeatStart`: `c.hb`, the 5 s timer, and the first `sendHeartBeat(HBRequest)`.
- `HbSend`: its `PutPktToChan2`, then `hbTimerReset(HeartbeatIntv)` and `timeout_count++` after an idle period.
- `HbTop`: the loop top, which takes the rx snapshot.
- `HbExpire`: `<-hbTimer.C` and its four outcomes (closed or not valid, the count reached, idle, traffic).
- `TimerFire`: the runtime fires the timer.
- `ReadMsg`: one read. Every message grows `rx_bytes`, and a reply with the current id sets `valid`.
- `ReaderReply`: the answer to the peer's request.
- `ReadFail`, `WriteFail`: a failed read or write, followed by `Reconnect`.
- `Reconnect`: only the first `Close` proceeds. It re-arms `hbTimer` when `hb` exists.

**Environment.** Other clients `Forward` frames into `out`. The peer answers requests (`PeerRecv`), sends frames and requests (`PeerSend`), or dies without closing the connection (`PeerCrash`).

**Fairness.** Weak fairness on the goroutines' steps, the timer, and `WriteFail`. The runtime fires armed timers and runs runnable goroutines. The kernel's TCP gives up a write the dead peer never acknowledges. Neither the peer nor the other clients are obliged to send.

**Send on a closed channel.** A send racing `Close` is taken as dropped. The panic it really causes is finding 4 and is checked in ClientSession.

**Deadlock.** The run MCLinkFailover allows a stuttering step only once c is closed, both goroutines have quit and no timer is armed. Deadlock checking stays on, and TLC finds no other state without a successor.

### BackupLink.tla (`vnet/bakLink.go`)

`NcAccessBackup` makes a master client `blc` whose `cio` is a `backupLink`. It starts one `BackupClient` goroutine per dial target (a *slot*) and runs `MasterWorking`.

**Slaves.** Each slot's loop:
1. dials a new slave client;
2. adds it to `bl.backupClients` (`AddBackup`: first free index, a value on `backupChan` if it is empty);
3. waits for the slave's `Reconnect`;
4. removes it (`DelBackup`: clears its index and, if it is the active slave, clears `activeSlave` and calls `wg.Done`);
5. dials again.

A slave is `<<slot, generation>>`, because each redial makes a new `Client`. `IsClose` of an older generation is true.

`SlaveFail` is the deferred `Reconnect` of one of the slave's goroutines. `HbReply` is a heartbeat reply that sets the slave's `heartBeatDelayAvg`. Both are environment steps, not forced by fairness. Failures are bounded by `MaxFail`.

**Master.** `MasterWorking` is four steps:
- `Choose` is `choseBackup`, the `Min` over listed live slaves by delay, else the first listed.
- `Recv` blocks on `backupChan` when none is listed.
- `Activate` takes `bc.Lock`, re-checks `IsClose`, then sets `activeSlave` and `wg.Add(1)`.
- `WaitDone` is `wg.Wait`.

**Fairness.** Weak fairness on every goroutine step. `myDial.Connect` retries every 2 s until it connects, so `AddBackup` eventually happens.

**Properties.**
- `ActiveListed`: `activeSlave` is always a listed slave, and `wg` counts exactly that one activation. It would fail if `Activate` skipped the `IsClose` re-check: `choseBackup` releases `bl.Lock` before the master takes `bc.Lock`.
- `EventuallyActive`: once failures stop, the master ends up with an active slave for good. It would fail if `addBackup`'s wake-up on `backupChan` could be lost.

**Checked with Heartbeat.** MCLinkFailover checks Heartbeat, BackupLink and Wire (without tap traffic) in one run. They share no state. `part` is chosen in `Init` and says which of the two moves. Each module's fairness is restated per action for its own steps, so a module that does not move cannot satisfy the other's liveness vacuously.

**End state.** `Finished` stutters once the failure budget is spent, every slave is up and the master waits on an active slave. Deadlock checking stays on.

### ZoneRegistry.tla (`vnet/vid.go`, `fdb/fdb.go` registry, `fdb/port.go` allocNum, `Client.Close`)

This module models the goroutines that change the zone registry (`FdbMap.fdbs`) and the links' `fdbJoined` at the same time:
- the reader of an accepted link, handling an `FdbIdsMsg` (`updateFdb`);
- the `Close` of an accepted link (`quitAllFdb`, then `updateMasterFdb`);
- a master link's `JoinAllFdb` when it starts working.

`G` has one goroutine of each kind per link. `pc` holds each goroutine's place in the code. The locals (`tgt`, `qs`, `js`, `cur`, `fp`, `ids`, `left`, `accJ`, `accQ`) hold what the Go locals hold:
- the id lists computed under `c.RLock`;
- the FDB object `NewFdb` returned;
- the masters `updateMasterFdb` still has to visit;
- `joinIds` and `quitIds`, which accumulate across masters as in the code.

**Locks and steps.**
- `c.Lock` is `lock[c]`. `RLock` sections are one step: no writer changes `fdbJoined` without `c.Lock`.
- `FdbMap`'s own mutex makes `NewFdb`, `GetFdbIds`, `DelFdbById` and the `allocNum` reads atomic steps.
- The check in `TryToDelFdbById` and its delete are two steps, as in the code.
- `JoinFwdPort` increments `allocNum` only when the link is not a client (`inc = !c.isClient`). `ReleaseFwdPort` decrements under the same condition. `held[f][c]` counts the ports link c holds in FDB f.

**Crashes.** A write to `fdbJoined` after `quitAllFdb` set it to nil (`isNil`) is the nil-map panic: `crashed` stops the model. So does a negative `allocNum`.

**State reduction.**
- A `VIEW` blanks the locals of goroutines that are not using them.
- Loops over an empty id list are skipped.
- `Finished` stutters once every goroutine is done or the process crashed. This keeps the deadlock check on for real lock cycles.

**Fairness.** Weak fairness per goroutine. Go's scheduler runs every runnable goroutine, and a lock is held only for a bounded number of steps.

## 4. Runs

| Run | Cfg | Bounds | Result |
|---|---|---|---|
| fdb | MCFdb.cfg | 3 clients, 2 MACs, 2 port ids (pool runs dry, ids reused), ticks 0..2, symmetry on clients and MACs | pass: `TypeOK` (allocNum ≥ 0), `PoolPartition`; ≈1.1M states, under 1 min |
| fdb_release_race | MCFdbRelease.cfg | same | violation of `MacBoundToLivePort` (see findings) |
| conntrack | MCConntrack.cfg | a TCP or a UDP flow, 3 records, 7 packets (a full handshake, data, RST/FIN, and a new SYN) | pass: `TypeOK`, `TimerAuthority`, `UdpNoOrphan`, `DeleteOwn`, `EventuallyUntracked` (the last two for UDP flows); ≈1.7k states |
| conntrack_tcp_orphan | MCConntrackTcpOrphan.cfg | TCP only, 3 records, 6 packets | violation of `NoOrphan` (see findings) |
| timerwheel | MCTimerWheel.cfg | 2 timers, TvrBits = TvnBits = 1, t1 delays {0, 9}, t2 {0, 2}, one Reset each, jiffies ≤ 11 | pass: `IndexConsistent`, `ImplementsContract`, `CascadeMovesDown`; ≈1.4M states, under 1.5 min |
| nat | MCNat.cfg | FragQueue: 2 datagrams with the same key (4 and 3 fragments), any arrival order, 1 duplicate. Checksum: 2-bit bytes, every buffer of up to 4 bytes and initial sum | pass: `TypeOK`, `CompleteIsExact`, `ChecksumIsOnesSum`, `HeaderVerifies`; ≈5.8k states |
| client_session | MCClientSession.cfg | ClientSession: 3 clients, a's peer sends 2 frames (flood, unicast or drop), `ChanSize` 1, no encryption. Wire (`part` "wire"): S and R encrypt (aes, 5) and H does not, S's tap reads one 1514-byte frame, 1 or 762 zones, one dial per link, one failure of `s1`, channels of 1 | pass: `TypeOK`, `RefCovers`, `DeliveredPlain`; ≈381k states (≈263k + ≈118k), about 35 s |
| client_session_close | MCClientSessionClose.cfg | ClientSession part only, as above | violation of `NoSendOnClosed` (see findings) |
| client_session_crypt | MCClientSessionCrypt.cfg | same, with encryption on | violation of `WireEncryptedOnce` (see findings) |
| zone_registry | MCZoneRegistry.cfg | 2 accepted links (reader and closer each), 1 master link, 1 zone id, dynamic mode, up to 6 FDB objects, symmetry on the accepted links | pass: `TypeOK` (allocNum ≥ 0); ≈934k states, about 1.5 min |
| zone_registry_membership | MCZoneRegistrySplit.cfg | same | violation of `ZoneMembership` (see findings) |
| link_failover | MCLinkFailover.cfg | Heartbeat: hbID of 2 bits, `HeartbeatCnt` 2, one message per direction in flight, the peer sends 2 frames or requests. BackupLink: 2 slots, delays {1, 2}, 3 slave failures. Wire: S and R encrypt and H does not, one dial per link, one failure of `s1`, no tap traffic | pass: `TypeOK`, `ReplyIdsUnambiguous`, `ActiveListed`, `DeadPeerClosed`, `EventuallyActive`, `HandshakeCompletes`, `AnnouncementJoins`; ≈67k states (≈17k + ≈9k + ≈41k), about 1.5 min |

**Why the bounds are enough.**

- Fdb: two port ids and three clients are the smallest setting where the pool empties, an id is freed and then reused, and one client is refused a port. Two MACs let a MAC move between clients while the other stays put.
- Conntrack: six or seven packets cover SYN, SYN-ACK, ACK, data and RST/FIN for one record, with a new record created after the first is deleted. Timers interleave freely with all of them.
- TimerWheel: with widths of 1 every level boundary is a few ticks away. t1's delay 9 sits in tv4, and the cascade at jiffies 8 moves it into tv1 or tv2 before it fires. t2's delays put it in tv1 and tv2, in the slices t1 passes through, so `delTimer` nils an entry next to a live one and a cascade re-adds around the hole. tv5 is only ever the last link of the same `cascade` chain. A run that reaches it (delays up to 17, 19 ticks) passes with one timer, but with two timers it does not finish in 5 minutes.
- ZoneRegistry: two accepted links are the least for one to join a zone while the other's `TryToDelFdbById` runs. A reader and a closer per link let an announcement race `Close`. One master is enough for `JoinAllFdb` to race `updateMasterFdb`. One zone id suffices because the races are per id. Six FDB objects are never all used: no run stops at the bound, and the deadlock check would report it if one did. With two masters the run does not finish in 5 minutes.
- FragQueue: a 4-fragment datagram has a first, two middle and a last fragment, so every branch of `ProcessFragment` is reachable. A second datagram with the same key exercises the reuse of a completed queue.
- ClientSession: three clients are the least for a flood to reach two channels. One sender with two frames, each of which may be flooded, unicast or dropped, lets a buffer go back to the pool and be reused while another is queued. `ChanSize` 1 makes senders block on a full channel.
- Wire: a relay that does not encrypt between two nodes that do is the case where the crypto byte matters most. H decrypts S's frame and must clear the byte, or R decrypts plaintext. The other cases (a relay that encrypts, no cipher at all) take the same code paths. One frame is enough for decryption, and ordering needs traffic from more than one source; the frame can race the heartbeat that validates the link, the zone announcements, and a failure of link 1. 762 zones is the smallest count at which `reportFdbMsg` panics. Between 758 and 761 zones H rejects the ids frame. That range, a second dial, a second frame and R's traffic each multiply the state space by 2 to 4.
- Heartbeat: ids 1..3 and one message in each direction give exactly as many ids as heartbeat messages can be in flight (two, plus the current request). The wrap from 3 back to 1 is reached on every fourth request. The code's ratio is 65535 ids to a 1024-entry pktchan plus the socket buffers. Two idle periods exercise both the "send a request" and the "give up" outcomes of an expiry.

## 5. Findings

1. **FDB release race** (`fdb/forward.go:48`).
   - `Client.Close` closes the connection before `quitAllFdb` takes `c.Lock`, so a frame the reader already holds is still forwarded.
   - If that `Forward` runs after `DelFmnByPortIO`, it adds a MacNode bound to the released client.
   - This breaks the spec's rule that every MacNode's port is in the port map. Frames to that MAC go to a dead client until the host moves (after `maybeExpire`).
2. **Orphaned TCP conntrack** (`netstat/net.go:187`). Trace:
   1. SYN, SYN-ACK and ACK arrive.
   2. The ESTABLISHED timer fires.
   3. An RST arrives: status becomes DEL, and `Stop()` returns false, so no DEL timer is armed.
   4. `ctESTABLISHEDTimeout` then sees DEL and returns.

   The record is never deleted, and later SYNs of the same tuple are ignored.
3. **A link in a zone twice** (`vnet/vid.go:187`). Trace:
   1. Accepted link a2's reader joins zone 1, and `NewFdb` registers it.
   2. The master's `JoinAllFdb` reads `GetFdbIds` = {1}.
   3. Link a1's reader runs `updateMasterFdb`: under the master's `c.RLock` it finds zone 1 missing from `fdbJoined` and puts it in `joinIds`.
   4. `JoinAllFdb` joins zone 1.
   5. `updateMasterFdb` then takes `c.Lock` and joins zone 1 again.

   `joinFdbById` does not check `fdbJoined`. `JoinFwdPort` hands out a second port, and `fdbJoined` keeps only the last one. Every frame flooded in the zone reaches the master twice, which breaks spec section 8's "exactly one copy". The first port is never released. The same property (`ZoneMembership`) is broken by the zone-split race in `TryToDelFdbById`: `allocNum` is checked, and the id deleted, while another link joins the FDB.
4. **Send on a closed channel** (`vnet/client.go:364`).
   - `PutPktToChan2` tests `isClosed` without the lock and then sends.
   - If the target's `Close` sets `isClosed` and runs `close(pktchan)` in between, the forwarding reader panics.
   - Trace: a's reader passes the test for b; b closes; the reader sends.
5. **Flooded buffers encrypted twice** (`vnet/conn.go:89`).
   - A flooded frame is one buffer queued to several channels.
   - Each writer's `vnetConn.Write` encrypts `LoadUserData()` in place, so the second peer gets a frame that was encrypted twice.
   - The spec says a buffer handed to N destinations is treated as immutable.

Not checked by a run: `fragQueueDel` is never called (`nat/fragment.go:63`). A completed queue keeps its key with FRAG_COMPLETE set, so a later datagram that reuses the 16-bit IP id would have every fragment rejected, although the spec says the queue is removed on completion. Nothing calls `DoNat` today, so no datagram reaches the queue.

Modelled, not checked by a run: the reader of a link computes its `joinIds` under `c.RLock`. If `Close`'s `quitAllFdb` then sets `fdbJoined = nil`, `joinFdbById` writes to a nil map and the process panics (`vnet/vid.go:44`). TLC reaches this crashed state in the zone_registry model.

Observed, not a finding: a duplicated fragment overlaps its first copy, and `ProcessFragment` calls `log.Panicf`. The spec classes an overlap as fatal, so this is the specified outcome. The nat run reaches it.

Observed in Heartbeat, not a finding: when a peer dies silently, its pktchan fills with flooded frames. `sendHeartBeat` then blocks, and `HeartBeat` stops counting idle periods. `DeadPeerClosed` still holds, but only because TCP eventually fails the writer's blocked write (assumed fair). Until then, every reader that floods to that client blocks as well.

## 6. Not modelled

- Device, socket and route I/O.
- Cipher arithmetic.
- Status pages.
- `reaserch/`.
- `DoNat` and the SNAT rewrite (`udpHandler`, `getUniqueTuple`, `doNat`). Nothing imports package `nat`. The package also does not build: it uses `netConntrack`, `conntrack` and `GetNctByZone` from package `netstat`, and `ct.natFlag`, `snatFlag` and `ct.ctConfirm`, which are defined nowhere in the repository. Only `ctConfirm` would index the record under the reply tuple `getUniqueTuple` picks, so no code says what that table holds. The fragment branch that feeds `ProcessFragment` is modelled.
- The echo exchange of `vnet/wuwu.go`: one request and reply when a client starts working, with AES over a fixed string and no state beyond `PutPktToChan2`.
- Frames of a type with no handler. For such a type, `vnetConn.Read` returns without consuming the payload, and the stream loses its framing. Wire keeps streams frame by frame because this program's senders emit only the four registered types. The echo frames would not be registered, but `EchoReqSend` uses `assembleEchoReqHead`, which is not defined in the repository, and neither is `assembleEchoRplHead`.
- In Wire: redials after a link fails, heartbeats after the first, and zone changes after the first announcement. These are modelled by `Heartbeat` and `ZoneRegistry`. The link that flaps when 758 to 761 zones are announced is also left out; it needs a redial.
- The heartbeat delay statistics (`heartBeatDelayCalc`), which are only logged and shown.
- The level tv5 of the wheel with two timers: see the bounds above.
- The frame path of backup links: `backupLink.Read`, `Write`, `PutToRecvQueue` and their buffer references. `Write` reads `activeSlave` without `bl.Lock` and can hand a frame to a closing slave; the resulting race is the one in `PutPktToChan2` (finding 4). `PutToRecvQueue` holds a buffer before it checks the active slave, so a frame from an inactive slave is never released. It is never returned to the pool and is left to the garbage collector.
- Closing and reconnecting master links in the zone registry. Their `Close` runs the same `quitAllFdb` as an accepted link. `reportFdbMsg` only sends the joined ids to the peer.
- A full port pool in `JoinFwdPort` within the zone registry. The Fdb module covers that path.

Unsynchronised map iteration (`fdbtick`, `DelFmnByPortIO`, `flood`, `GetFdbIds`) is a Go runtime fatal error rather than a state of the program. The models make each map operation atomic and list the race as a hazard.

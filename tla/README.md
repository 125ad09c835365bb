# A verification of Elo

Elo is a mesh of agents without a broker: each node (`src/py/elo/node.py`) keeps
TCP connections to its peers, learns from them which agents and tools they offer,
and sends tasks along those connections.  The Go SDK (`src/go`) is a second kind of
node, which is found through a registry in NATS.  This directory models both in
TLA+: TLC checks small instances, TLAPS proves the properties that matter most for
every size.

## 1. Inventory

| component (source) | state | operations | in the model |
|---|---|---|---|
| connection tables (`py/elo/transport/tcp.py`) | per node `_peers`, keyed `"<node id>@<host:port>"`; per connection `_alive`, idle clock | `start`, `stop`, `connect_to_peer`, `_handle_incoming`, `_remove_stale_peer`, `_read_loop`, `send_to`, `broadcast`, `start_heartbeat` | `TCPManager` |
| routing table (`transport/routing.py`) | `_peer_caps`, `_peer_interests`, `_forwarding` | `register_peer`, `remove_peer`, `find_peer_for`, `find_all_peers_for`, `query_peers` | `InterestTable`, `InterestRouting` |
| node, membership part (`node.py`) | bootstrap list, `_reconnecting_peers`, connect tasks, local capabilities | `connect`, `register`, `disconnect`, `_on_hello`, `_on_interest_update`, `_on_bye`, `_handle_message` (known peers), `_schedule_reconnect`, `_on_discovered_peer` | `MeshNode` |
| node, task queue (`node.py`, `pending_queue.py`) | `~/.elo/pending/<id>.jsonl`, retries in flight | `send_task` (its outcome), `enqueue`, `load_all`, `save_all`, `_flush_pending`, `_retry_single_task` | `PendingQueue`, `TaskOutbox` |
| node, task exchange | `_pending_results`, the handler each read loop awaits | `send_task`, `send_task_async`, `send_task_via_tracker`, `_on_task`, `_on_result`, `_wait_for_result` | `TaskExchange`, `RemoteCall` |
| node, query flood | `_seen_queries` | `_on_query`, `_on_query_resp`, `discover_peers_network`, `_query_capability` | `QueryFlood` |
| node, rate limit | `_msg_count`, `_hello_count` | the first half of `_handle_message` | `RateLimit` |
| node, cache of last peers | `~/.elo/last_peer` | `save_last_peers`, `load_last_peers` | no: see section 7 |
| local tracker (`transport/tracker.py`) | `_caps`, visibility, allowlist | `register`, `allow_peer`, `get_public_caps`, `get_caps_for_peer` | `MeshNode` |
| LAN discovery (`transport/discovery.py`) | a UDP socket | announce, listen | partly: the action `Discover` |
| wire protocol (`transport/protocol.py`) | none | message constructors, framing | message types and the fields that matter |
| identity (`security.py`) | key files | sign, verify | no: cryptography without protocol state |
| types, CLI (`types.py`, `__main__.py`, `run_sauron.py`) | none | data classes, parsing, printing | no |
| relay example (`examples/python/tracker.py`) | none | a task handler that passes tasks on | `TaskExchange` (its relay) |
| Go node and registry (`go/node.go`, `go/discovery.go`) | `nc`, `caps`, `shutdownCh`, `hbDone`; two keys in a bucket with a TTL | `Connect`, `Register`, `Run`, `heartbeatLoop`, `Disconnect` | `GoNode` |
| Go node, tasks | none of its own: NATS matches replies | `SendTask`, `SendTaskAsync`, `handleTask`, `FindByCapability` | no |
| Go transport (`go/transport/tcp.go`) | `peers`, a mutex | `ConnectToPeer`, `handleConn`, `readLoop`, `SendTo`, `Broadcast`, `Stop` | `GoTransport` |
| watchdog (`scripts/elo-watchdog.sh`) | PID file, a lock file | restart | no: what it does to a node are steps of `MeshNode` |

**How they interact.**  `Node` owns a `TCPManager` and gives it one callback,
`_handle_message`.  The manager runs one coroutine per accepted connection, one
per connection that was dialled, and one for the heartbeat; all of them await
the callback in line, so a handler that raises ends the coroutine that called
it.  The callback changes the routing table, answers, and spawns tasks that dial
(known peers, reconnection loops).  The manager tells it of the end of a
connection by a BYE, from three places.  Discovery calls back with the address
of a node that announced itself.  The flush loop of the node (every 30 seconds)
and `send_task` share the queue file.

**What is hard.**  Everything runs in one thread, so the hazards are in what
happens between two `await`s, and between nodes:

- both ends of a connection keep a table of their own and replace entries of the
  same identity independently; connections are opened in both directions at once;
- a table key is built from the address, and the clean-up of an old connection
  goes by key, not by object (`tcp.py:222`);
- the end of a peer is announced up to three times, maybe after a successor was
  announced under the same key;
- handshakes are cut short by time-outs, by cancellation (`node.py:224`), by sends
  and receives that raise (`tcp.py:270`, `tcp.py:274`) and by handlers that raise,
  with the connection already in the table at either side;
- a send that raises marks an entry as not alive (`tcp.py:45`), and it stays filed, and
  picked, until the heartbeat looks;
- reconnection loops decide, sleep, and dial without looking again;
- a read loop awaits the handler of a task, which may itself wait for a RESULT that
  another read loop, or this one, has to read; writes wait, without a time-out, for
  the peer's read loop to read;
- a RESULT may come before its future is registered, or after it is gone, and the
  rate limit drops frames without a word;
- retries of queued tasks run concurrently with flushes, each of which rewrites
  the whole file; file errors are swallowed; the process may end in between;
- copies of one query come along several ways, some of them after the node has
  forgotten the id, and answers come back to nodes that did not ask;
- the rate limit counts per key in windows that restart, and its counters outlive
  the connections they are about;
- in the Go node, a heartbeat is under way while the application registers or
  disconnects, without a lock, and the keys it refreshes expire;
- in the Go transport, goroutines check the table under one lock and file under
  another, and a broadcast holds the read lock while it writes to the network.

**What makes each component correct.**  Connection tables: one entry per identity, each
entry read or left to the purge, nothing that is served left out of the table, every
announced peer retracted in the end. Routing: a registered capability is found, and no
route is kept that its peer did not give. Membership: whatever is routed to is watched
by a read loop, a configured peer is not given up, half-open connections do not stay.
Where the code keeps less than this, the properties say exactly what is excepted, and
section 5 lists it. Queue: a task is in one place, never twice in the file, kept until
delivered or ten minutes old. Task exchange: a task runs at most once per TASK sent, a
call that succeeds was executed or met no handler, no read loop is blocked for ever. Go
node: listed while it runs, with the capabilities it registered last, and no more when
it has disconnected or died. Query flood: each node serves a query once, nobody is told
to dial itself, the flood dies out. Rate limit: nobody is punished who kept to it, and
nobody gets past it by more than one window. Go transport: what is read can be found, a
connection that is gone leaves the table, Stop closes what is open.

The hazards, each at its line and with the properties aimed at it, are listed in
`PROJECT.json`.

## 2. Modules

```
TCPManager ------ MeshNode ------ InterestTable ---- InterestRouting
                (EXTENDS both)                              |
                     |                           InterestRoutingProofs
               MeshNodeProofs (of TCPManager and of MeshNode)

PendingQueue --implements--> TaskOutbox
   |
PendingQueueProofs
TaskExchange --implements--> RemoteCall
   |
TaskExchangeProofs
QueryFlood ---- QueryFloodProofs
RateLimit ---- RateLimitProofs
GoNode ---- GoNodeProofs                         MC*: instances for TLC
GoTransport ---- GoTransportProofs
```

### TCPManager

One step is what asyncio runs from one real suspension to the next (a read, a
connect, a timer).  Writes are taken not to suspend here; what a write that does
costs is the business of `TaskExchange`.  `Conn` is a set of
connections, each dialled once; its element also stands for the ephemeral port,
so keys of accepted connections are unique and keys of dialled ones are shared by
all dials of an address, as in the code.  Each connection has two ends, `<<c,
"out">>` and `<<c, "in">>`: the two `PeerConnection` objects.

| model | code |
|---|---|
| `Dial` | `connect_to_peer` up to the wait for HELLO_ACK (232-271) |
| `RecvAck`, `DialFails`, `DialCancelled` | the rest of it (272-303); `wait_for` of `Node.connect` |
| `DialRaises`, `DialCut` | a send (270) or a receive (274) that raises out of it, with the socket left open |
| `SendFails` | a send on an established connection that raises (38-46): `_alive` is False, and nothing else changes |
| `AcceptHello`, `RejectIncoming` | `_handle_incoming` (161-205) |
| `IsStaleChoice`, `Enrol` | `_remove_stale_peer`, filing, and the handler's answer |
| `Read`, `LoopDone`, `LoopBreaks` / `EndLoop` | `_read_loop` and its `finally` (209-228) |
| `SendTo`, `Broadcast` | 305-324 |
| `Heartbeat`, `Dead`, `Silent` | `start_heartbeat` (328-360) |
| `Stop`, `Exit`, `Start` | `stop`, the end of the process, a new process with the same identity |

`phase` tells apart the ends that no coroutine owns: `"cut"`, whose dial was
cancelled or raised before it was filed, and `"abandoned"`, whose handler raised after
it had been.  An abandoned end waits for the purge; once another connection of the
same identity has replaced its entry it is `Leaked`, and nothing retracts what was
announced of it.  `failed` are the ends on which a send has raised.  `announced` is
a history variable: what the handler was told.  `Faults` selects what the
environment may do (time-outs, cancellation, sends, receives and handlers that raise,
resets, idle peers, shutdown, crash); idleness of a peer that is *alive* is one of these
faults, while an entry whose far side is in no table really gets silent
(`Silent`), because nobody sends heartbeats on it.

### InterestTable, InterestRouting

The four dictionaries as relations, the methods as operators on them;
`InterestRouting` drives one table by what the handlers of a node call, with a history
of which capabilities a peer has `dropped`: left out of a later HELLO.  Related
capabilities (`query_peers` compares descriptions by token) are a relation
parameter.

### MeshNode

Extends the two above: each action is an action of `TCPManager` together with
what `Node` does in the same step.  `intent[c]` is a dial that was decided on and
has not ended, with its reason (bootstrap, LAN announcement, known peer,
reconnection); `armed` are the reconnection loops that found their peer absent
and sleep; `reached` is history.  HELLO carries a copy of the interests made when
the message was built, and the dictionary of capabilities itself, which
`register()` updates in place, hence `Hello(i)` reads `caps` at the time of
sending.  A node is public, or shows its capabilities to the peers of its allowlist
only (`PublicCaps`, `CapsForPeer`: `tracker.py`); `Announced` is what it tells the
LAN.  Its interests, which are the same names, are told to everybody
(`node.py:285`), hidden or not.

An exception out of `connect_to_peer` ends what called it: the reconnection loop for
good (`node.py:977`), or `connect()` with the initial peers undialled that are left
(`DialRaised`).  It comes from its own send or receive (`ConnectRaises`), or from the
handler, which may have registered the peer, in whole or in part, and dialled some of
the listed ones before it raised (`MayHaveRegistered`, `AckRaises`, and the raising
case of `Accept`).

### PendingQueue, TaskOutbox

`file` counts the lines per task, `torn` says that the last line has no end,
`flying` counts the retries under way, `delivered` is history.
Writing may fail (a rewrite then leaves the old file, an append may leave part of
a line, which spoils the next one), reading may fail (`load_all` then returns
what it read so far); `failures` counts these faults.  A retry may raise, and then
drops its task without putting it back (`RetryRaises`, `node.py:918`).  `cut` is
history: the tasks whose retry raised, or was under way when a process ended.
`TaskOutbox` is the promise: a task is new, waiting, delivered, refused or dropped; it
is dropped only when it is ten minutes old, when a retry of it has broken off, or when
the storage has been damaged, that is, when a file operation has failed.

### TaskExchange, RemoteCall

Several nodes over an abstract transport: `wire[<<n, m>>]` holds the frames that
the read loop of `n` on its connection with `m` has not read.  `busy` is the task
whose handler such a loop awaits, so that it reads nothing else meanwhile;
handlers make calls of their own (`HandlerCall`, and `Forward` for the relay of
`examples/python/tracker.py`).  `stage` is how far a call has come: written but
held up in `send_to` (a RESULT that arrives then finds no future), waiting,
resolved but not resumed, over.  A handler may be held up in the same way when it
answers (`replying`): `drain` (`tcp.py:310`) has no time-out, and a write may wait for
as long as the peer's read loop reads nothing.  A node in `Late` may not have called
`on_task` yet: it answers success, and executes nothing (`AnswerUnregistered`,
`node.py:705`).  What a QUERY answers is any connected peer, or
none.  `PeersFor` is the choice of `send_task`: the target if connected, or else a
relay; with an empty target, a peer with the capability.

`RemoteCall` is the promise: a call begins, ends once, its task is executed at most once
(by each receiver, for `send_task_async` to all), and success means that it was
executed, or that its receiver had no handler for it. The queue is not part of it:
`PendingQueue` takes over where a call ends in an error.

### GoNode

One node of the Go SDK and its two keys, `node:<id>` and `caps:<id>`, in the bucket.
A step is what a goroutine does between two waits or round trips, so a call of
`Register` and a round of `heartbeatLoop` interleave at each write.

| model | code |
|---|---|
| `Connect`, `Run`, `RunFails`, `RunReturns` | `node.go` 73-99, 270-302, with its error returns (277, 285) |
| `Register`, `Stored`, `RegisterNode`, `RegisterCapabilities` | `Register` (129-161), whose store of `n.caps` takes time: a heartbeat may read half of it (`CapsSeen`) |
| `Fire`, `StoreNode`, `BeatNode`, `StoreCaps`, `BeatCaps`, `Wake`, `Stopped` | `heartbeatLoop` (338-377): a write is stored, and returns later |
| `Disconnect`, `HeartbeatDone`, `UnregisterNode`, `UnregisterCaps` | `Disconnect` (102-117) with `Unregister` (`discovery.go` 70-78) |
| `DisconnectAgain`, `Exit` | the panic of a second `close`; the end of `main`, or a crash |
| `Tick` | time, and the TTL of the bucket |

Time is counted in ticks: `spent` is how long the heartbeat goroutine has been where it
is, `Limit` how long it may stay (the interval, the time-out of a write, the jitter),
`age` how old a key is. The bucket is external: a write stores its value or fails, and
of one key at most `MaxMisses` in a row fail. A key ages from its store, which may come
at any time of the write: at the beginning of one and at the end of the next, so
`RoundsFitTTL` has a `PutTime` to spare. With the code's numbers (TTL 90,
`discovery.go:14`; interval 30 by default, an option of `node.go:44`; jitter 3; writes
of 5) no failed write fits: 2 * (30 + 3 + 2 * 5) + 5 = 91. The budget holds with no
failure (48), or with one if writes take no more than 4 seconds. A Register whose write
was stored may still see an error, when the answer is lost. `kept` and `undeleted` are
history: the keys that the loop has written, and those that could not be deleted.
`Connect` succeeds and `Run` starts the loop at most once, and an application that
disconnects does not register meanwhile.

### QueryFlood

Several nodes over their connections.  A key is `<<m, d>>`, for the `d`-th
connection with `m`: a peer that dials anew is filed under another key, while the read
loop of its old connection may still be held up in a handler and its old key be listed.
`dial` is the connection that a node has filed for another, `link` the read loops that
run, per direction, since the two ends notice the end of a connection independently;
`known` is the routing table, whose keys may be old ones, and which may lack a peer
that is connected (its HELLO was dropped, or has not come); `wire` holds what a read
loop has not read.

| model | code |
|---|---|
| `Ask`, `Returns`, `Discovered`, `Found` | `discover_peers_network` (418-462), `_query_capability` (818-834) |
| `Peers`, `Answer`, `Serve`, `Forwarded`, `OnQuery` | `_on_query` (602-647) |
| `OnQueryResp` | `_on_query_resp` (649-656) |
| `Forget` | the purge of `_seen_queries` after 60 seconds, by then the caller has returned |
| `Register`, `Unlink` | a HELLO is handled; a connection ends and its BYE is handled |
| `Reconnect` | the peer is connected anew, and filed in place of the old connection |

`served` is history.  The scores, names and capabilities in an answer are left out:
an entry `<<m, n, k>>` is `m` as `n` lists it, under the key `k`.

### RateLimit

One node and the keys of its peers.  `hello`, `count` and `start` are `_hello_count`
and `_msg_count`; the rest but the clock is history: when the messages of a key came,
which were dropped, when those that passed did, and which HELLOs reached the handler
(`heard`) or did not (`lost`).  `Receive` is the code up to the
dispatch (`RefuseHello` 516-520, `CountHello` 521 and on, `CountOther`, with the BYE
that passes anyhow).  The clock counts in units that are small against the window.

### GoTransport

One process, and its connections to the other ends.  `pc` is where the goroutine of
a connection is, `table` is `m.peers`, `readers` holds who has the read lock; a
goroutine that waits for the write lock keeps new readers out, as `sync.RWMutex`
does.  A critical section that cannot block is one step.

| model | code (`go/transport/tcp.go`) |
|---|---|
| `Connect`, `HandshakeDone`, `HandshakeFails`, `File` | `ConnectToPeer`: the check under the read lock, the dial, the filing under the write lock |
| `Accept` and the same three | `acceptLoop`, `handleConn` |
| `RecvFails`, `Delete`, `Close` | `readLoop`: its end, the deletion by address, the close and the BYE |
| `SendTo`, `Send`, `Sent` | `SendTo`, under the mutex of the connection only |
| `Broadcast`, `CastSend`, `CastSent`, `CastEnds` | `Broadcast`, with the read lock throughout |
| `Stop`, `Sweep` | `Stop` |
| `PeerCloses`, `PeerStalls` | the other end: it closes, or stops reading with the connection open |

`raced` and `late` are history: the addresses to which two dials overlapped, and the
connections filed after Stop had emptied the table.

## 3. Runs

| run | instance | shows |
|---|---|---|
| `tables_faults` | 2 nodes, 2 connections, LAN and loopback address, all faults (802383 states) | the table invariants |
| `orphan` (violation) | 2 nodes, 2 connections, no faults | the clean-up of a replaced connection removes its successor from the table |
| `simultaneous_open` (violation) | the same | two simultaneous dials can end with no connection |
| `routing` | 2 peers, 2 capabilities | lookups after any sequence of calls, and which routes outlive a peer |
| `mesh_pair` | 2 nodes, 2 connections, one configured with the other, all faults (1178547 states) | routes keep a reader; configured peers are kept; loops end connected, or with a dial that raises |
| `mesh_live` | 2 nodes, 2 connections, cancelled bootstraps, raising handlers, fairness (34431 states) | half-open and orphaned connections and their routes are cleaned up |
| `queue` | 3 tasks, crashes, raising retries, failures of the file, fairness | no task twice in the file or in two places; loss is bounded; implements `TaskOutbox`; queued tasks leave the queue |
| `task_exchange` | 2 nodes, one of them `Late`, and a relay, 3 tasks, all faults, fairness (217468 states) | a node holds a task once at most; implements `RemoteCall`; blocked read loops recover, but for writes in a circle |
| `go_node` | 2 calls of Register, 1 failed write in a row, times as tight as `RoundsFitTTL` allows, crashes, failing deletions, failing Run, fairness (761574 states) | listed while running, gone after Disconnect, the registry catches up, Disconnect returns, the dead are forgotten |
| `query_flood` | 4 nodes (a triangle and a leaf), one query, a link that changes and is replaced once, TTLs 3 and 5, fairness (about 400000 states) | a node serves a query once while its caller waits; askers are offered themselves under stale keys only; forwarding is blind; the flood ends |
| `rate_limit` | one key, limit 2, window 2, 6 messages in 6 units of time | what is dropped and which HELLOs are lost have their cause; twice the limit at most |
| `go_transport` | 2 dials of one address, one accepted connection, a peer that may stop reading, one address called, fairness | what is read can be found; Stop closes what it promises; gone connections leave the table; Stop returns |

**Bounds.**  Two connections between two nodes is the smallest instance with a
replacement, a simultaneous open, a re-dial of one address and a dial of oneself; for
more, the invariants are proved. `MaxInbox` bounds application frames in flight: one is
enough for a frame to be read after the BYE of a purge. With two nodes, the known peers
of a HELLO_ACK are entries of connections that were replaced; for more nodes the safety
properties are proved. Three tasks let one be in a retry, one be flushed and one be
appended. Two failures let a torn line be followed by another failure. Three task ids
let a relayed call (two ids) meet a call in the opposite direction, or a handler call;
`Room` keeps the ids that relays need from being used up by others. Two calls of
Register let a heartbeat overtake the second one with the capabilities of the first
(`MaxRegister`); the interval of 2, the jitter of 1 and writes of 1 tick fill the TTL of
11 with one failed write. In the flood, a triangle brings a query to a node along two
ways, a leaf behind it is reached only by forwarding, and the TTLs are those of the
code; queries do not read each other's state, so one is enough (`Query`); one end of a
link that is registered late or lost (`Changing`) makes a node forward that would have
answered, and a second connection of that link (`Dials`) leaves an old key in the table
of the node that the leaf asks. A window of 2 and a limit of 2 in 6 units let a burst
straddle two windows (`MaxTime`, `MaxMessages`), and a node starts within the first
window after boot or after it; keys share nothing, so one is enough. In the Go
transport, two dials of one address race and one accepted connection stands beside them;
one peer may stop reading (`MayStall`) and `SendTo` is called for one address
(`Called`), which is enough for a broadcast that hangs and for a sender that waits
behind it.

The bound on connections can stop a behaviour (no dial is left), so runs of the mesh
and of the Go transport and those of the tables without faults do not check for
deadlock; neither do those of the queue, of the task exchange and of the flood, which
end when all is settled, that of the rate limit, which ends with its clock, nor that
of the Go node, which ends with its process and with an empty bucket.

**Fairness.**  `NodeFairness` is weak fairness of what the event loop of a running
node does by itself: open or fail a dial that was decided on, finish a handshake
(`connect_to_peer` waits at most 5 seconds), run a read loop, and purge silent
entries (the heartbeat task runs for as long as the node).  Nothing is assumed of
applications, of faults, or of announcements.  In `PendingQueue`, `FairSpec` assumes
that a retry ends or raises (30 seconds at most), that flushes keep running (a timer), and
that time passes; `QueuedIsSettled` adds that the process stays up at last, since
flushes need one.  In `TaskExchange`, read loops read, time-outs expire, and a
handler that waits for no call ends: the last is an assumption on the application, and
for the relay it is its code.  Writes are sure to drain only when the peer has read all
that was sent to it, or the connection is lost; two read loops whose handlers write to
each other may therefore wait for ever, which `ReadersRecover` excepts
(`<>[]WritesInACircle`).  In `GoNode`, goroutines go on
(writes answer or time out after 5 seconds), and so does time; nothing is assumed of
the application.  In `QueryFlood`, read loops read, and a caller resumes within 5
seconds (`wait_for`).  In `GoTransport`, goroutines run on, a handshake ends by its
deadline, a read ends when either end closes, and a write returns when the peer reads
or the connection is closed; handlers return.  Nothing is assumed of a peer that is
silent or does not read: writes have no deadline, so a broadcast to such a peer may
hang for ever, which both liveness properties except (`<>[]Hangs`).

## 4. Proofs

The first part of `MeshNodeProofs` is about the connection tables alone, the steps of
`TCPManager`.  It proves `Spec => []IInv` for any sets of nodes, connections,
addresses and messages and any faults, and from it type correctness, soundness of
the tables, that accepted connections are never orphaned, and that everything
announced has a reader.  The named properties are not inductive by themselves:
a filed end must have two nodes and an address (`UsedIsWired`), a connection
nobody dialled must be unused, a handshake must be on an open socket, and, for
`NeverOwnPeer`, the dialling end of a connection to oneself must never get an
answer (`SelfDialUnanswered`).  Sends that fail change no more than what is on its way.
`OneEntryPerIdentity` is in the invariant because
`_remove_stale_peer` removes one entry only, which suffices when there never were
two.  The argument is one lemma per action, most of them by showing what the
action does to the ends, keys and announcements.  Assumed: addresses and
ephemeral ports differ, `None` is no node, message types are what they are called.

`InterestRoutingProofs` proves that the routes are complete (`CapsAreForwarded`) and
which ones are stale (`StaleRoutesAreDropped`), that a query reaches a known peer or
consists of stale routes alone (`QueriesFind`), and that an update of interests keeps
the routes (`UpdatesKeepRoutes`).

`PendingQueueProofs` proves for any finite set of tasks, all faults and any number of
them: types, `OneLinePerTask`, `InOnePlace`, `NothingLost`, `LossIsBounded` and the
refinement of `TaskOutbox`.  Two facts carry them: a retry puts a task back only when no
line holds it, and a failure loses two tasks at most, the second one only when the
next append meets the line it cut short (`torn`).

The second part proves for any number of nodes, connections and configured peers,
and for all faults what the mesh adds to the connection tables, whose proved invariant
holds in it since each of its steps is one of theirs, or none (`StepRefines`).  On top
of it stands `MeshInv`: a handshake under way is one that was decided on, under the key
it will be filed under (`HandshakeIsDialled`), which makes the peer that `OnHello`
registers the one that the table files; and the dial of a reconnection loop belongs
to a loop that has not ended and does not sleep, and is its only one (`LoopDials`).
`RoutedHasReader` is then inductive: whatever ends a read loop has the handler forget
its key, and whatever the handler registers has a loop that just read or was started;
where the handler raised, it has an abandoned entry instead, left to the purge, or, once
that is replaced, a leaked end.

Two more results are about reconnection.  `LoopsEndConnected`: the loop of a running
node ends only in the step that files the peer under its configured address, or because
its own dial raises, so `LoopEndsConnected` follows from `MeshInv` step by step.
`ReachedPeersAreKept`: a configured peer that was reached, and no dial of which has
raised since, has a read loop or a reconnection loop.  The exception is the code's:
such a dial ends the loop for good (`node.py:977`), and its entry may be filed and
unread.  Exceptions of the handler on a HELLO are no matter, nor are resets, failing
sends, purges, stops, crashes and restarts.  Needed besides (`ReachedInv`): only
configured peers are reached, since `on_bye` starts a loop for these only; a process
that is gone has reached nothing and dials nothing; and a *dialled* entry of a peer that
counts as reached has its read loop, so that purging or replacing it ends a loop that
hands its key to a reconnection loop.

`TaskExchangeProofs` proves for any nodes, relays, connections, calls and faults that
`TaskExchange` implements `RemoteCall`, its types, and `HeldOnce`. A TASK carries
nothing by which a second copy could be told from the first, and a node does not
remember what it has executed, so the argument is about where the frames are
(`ExchangeInv`): a node has a TASK once at most, unread, with its handler, or executed
(or left so, by a node without a handler) (`OnceInv`); only the peer of the call has it
(`SenderInv`) or has executed it (`ExecutorInv`), which is why no two nodes execute one
call; and a RESULT that says success, or a future resolved by one, is of a task that was
executed or met no handler (`ResultInv`). The lemmas about sequences say what `Append`,
`Tail` and the loss of a connection do to the copies and to the set of unread frames;
then every step is a call that begins, one that goes on, a handler that is over, or
nothing to the calls (`Steps`), and each of the first three is a step of `RemoteCall`.
`ResultsAreAwaitedInNoCircle` is the part of `ReadersRecover` that is no liveness: where
a handler waits for a call of its own, that call or one made before it goes on without a
reply from anyone, or else the write of that call waits for a read loop which is held up
(`Jammed`). It is about circles of results only: circles of writes are possible, and
nothing bounds them. Ids are taken in their order and a handler calls for a task that is
older (`OrderInv`), so the oldest of the calls that wait has a time-out that is due.
That there is an oldest one is an induction over the ids (`LeastTask`), in terms of
sets.

`GoNodeProofs` proves the types and both invariants of `GoNode` for all times and
numbers of failures within `RoundsFitTTL`, each write being stored at any time before
it returns.  `ListedWhileRunning` needs to know how old a
key may be at each point of the loop: at most a round per failed write, and the
time since the loop last had its turn to write it (`KeptIsYoung`), which is less
than a round as long as the loop stays nowhere too long (`InTime`).  `Unregistering`
is why a node is gone: keys are deleted when the loop is over and nobody registers.

`RateLimitProofs` proves the three properties of `RateLimit` for any limit, window and
keys, without a bound on time or messages.  The invariant of a key (`KeyInv`) relates
its counters to its history.  The last `count` arrivals lie in the window that began
at `start`, so a message over the limit has `Limit` others with it.  Of the messages that
passed, all but the last `Limit` came before `start`, and of those before `start` all
but the last `Limit` came more than a `Window` before it: a message that passes
therefore finds the one of twice `Limit` messages ago more than a `Window` back.  The
time in `hello` is that of a HELLO that was handled or dropped by the limit (`HelloInv`),
which is the cause of the ones that are refused after it.

`GoTransportProofs` proves for any set of connections, addresses and stalling peers
that what is read is in the table (`NamedUnlessRaced`) and that Stop leaves open only
what was displaced or filed after it (`StopClosesTheRest`).  They need that an entry
belongs to a goroutine that will remove it (`EntriesAreServed`), that up to Stop a
goroutine that has not ended has its connection open (`BusyIsOpen`), and that there is
one such goroutine for an address unless dials to it overlapped (`OneForAnAddress`):
only then does the deletion by address remove the entry of its own connection.  Assumed:
the address of an accepted connection is its own.

`QueryFloodProofs` proves `ServedOnce`, `OffersAskerOnlyStale` and `ForwardedBlindly`
for any nodes, connections, queries and TTLs. The invariant is about the frames under
way (`FrameInv`): a QUERY of a discovery names its caller, which is why the caller drops
the copies that come back; and an answer goes out only on the connection that is filed
for the asker, whose key it leaves out, so that it lists the asker under older keys
only. A key of a connection that was replaced stays one (`StaleKeysStay`), in the frames
under way and in what the caller has collected (`OfferInv`). `ServedInv` adds that a
node remembers what it has served for as long as the caller waits. Assumed: no node
files itself as a peer, which is proved of the connection tables (`NeverOwnPeer`).

The type invariants are proved, so that no run checks them again.  Every safety
invariant, action property and refinement that a passing run checks is proved.  Only
model-checked are the liveness properties, since liveness under fairness is out of the
prover's reach:
`HalfLinkResolved`, `OrphanResolved`, `RoutesFollowTable`, `QueuedIsSettled`,
`ReadersRecover`, `RegistryCatchesUp`, `DisconnectReturns`, `DeadAreForgotten`, `FloodEnds`,
`GoneAreForgotten` and `StopReturns`.

## 5. Findings and observations

Each violation run has an entry under `findings`.  The model reproduces the
following as well, without a run of their own:

- `register()` runs after `connect()`, and the INTEREST_UPDATE it broadcasts holds
  interests only (`node.py:659`): peers connected by then learn no capabilities,
  although `docs/specs/registry-schema.md:31` announces "caps/interests".
- A peer that dialled in is listed to others under its ephemeral port
  (`node.py:467`), where nobody listens; `RUNBOOK.md:194` counts on the list.
- The reconnection check compares dialled addresses (`node.py:945`), so a peer that is
  connected by an inbound connection is dialled again and its connection replaced.
- An exception out of `connect_to_peer` ends the reconnection loop for good
  (`node.py:977`), with the peer in no table, or filed and unread: its send and its
  receive on a socket that was reset (`tcp.py:270`, `tcp.py:274`) are outside of any
  `try`, and so is the handler.  `LoopEndsConnected` and `ReachedIsKept` except this.
  In `connect()` it leaves the rest of the initial peers undialled (`node.py:217`).
- A send that raises sets `_alive` to False (`tcp.py:45`), and nobody looks before the
  next heartbeat: the entry is picked by `send_to` and `broadcast` until then.
- `_on_hello` registers the peer (`node.py:575`) before it may raise.  The entry is then
  closed or unread and left to the purge; if another connection of that peer replaces
  it, the purge has nothing to purge, no BYE comes, and the routes stay for good.
  `AnnouncedHasReader`, `RoutedHasReader` and `RoutesFollowTable` except these leaked ends.
- A flush removes tasks from the file before their retry (`node.py:890`): a crash loses
  them, and so does a retry that raises (`node.py:918`), hence `NothingLost` and
  `LossIsBounded` leave them out (`cut`) and `TaskOutbox` has a step for it.
- `remove_peer` cleans the forwarding entries of the capabilities registered last
  (`routing.py:78`, "Remove a peer and clean forwarding entries."): a capability that
  the peer dropped in a later HELLO is still forwarded to it after it has gone, and
  answers a query although nobody known does (`StaleRoutesAreDropped`,
  `QueryReachesSomebody`).  Nothing in `src/` calls `query_peers` yet.
- The relay passes a task whose target it does not know on to another peer, which
  executes it, and returns success; `RUNBOOK.md:196` and `RUNBOOK.md:200` promise
  delivery to the target.
- Every error is queued (`node.py:343`), also one of a task that its target has
  executed; the retry has a new id and executes it again, while the caller is told
  "Target offline, task queued for retry" (`node.py:345`).
- A node that has no handler for tasks answers success and executes nothing
  (`node.py:705`): the caller cannot tell, and the task is not queued.
- `send_to` waits for the socket to drain, without a time-out (`tcp.py:310`).  Two
  handlers that write large frames to each other, each in the read loop that would have
  to read, wait for ever.  A result that cannot be serialised raises out of the write,
  which marks the connection as not alive.
- The relay answers with status success whatever became of the task it passed on,
  a time-out included (`examples/python/tracker.py:80`), so such a call is never
  queued.  Its fallback may pick the caller, whose read loop is the one that would
  have to serve it only after the relay has answered.
- A node answers a QUERY with its peers, and with the address of the *asker* for
  itself (`node.py:638`); it passes the QUERY on only if it routes to nobody else, so
  no answer comes from further than one hop, while `README.md:75` lists the QUERY
  broadcast as a step of finding a peer.  It forwards only to peers that its routing
  table does not list (`ForwardedBlindly`), and what they answer is dropped, since only
  the asker has the query pending: the mesh is not found as `node.py:623` hopes.
- An answer leaves out the key that the question came by (`node.py:628`), and not the
  peer: an asker that dialled anew is still listed under its old key while the read loop
  of the old connection is held up, and is told to dial itself (`OffersAskerOnlyStale`).
- `discover_peers_network` does not collect answers until its time-out, as its docstring
  says (`node.py:421`): the first one that is not empty wakes the caller, and what
  comes after it has resumed is ignored.
- `_query_capability` returns the first entry of the first answer.  The peers come before
  the answerer's own entry, and that one carries the key it has for the asker
  (`node.py:638`), so the task goes to a peer that need not have the capability, or to
  an address that is not connected, and is queued.  A search has no origin, so the
  asker may serve its own query when a copy comes back.
- The time of a HELLO is recorded before the general limit may drop it
  (`node.py:521`), so the next one is refused for one that nobody handled.  In the
  first minute after boot, when the monotonic clock is below 60, all HELLOs are refused.
  Windows do not slide: twice the limit passes within one.  Counters are never
  removed, and those of accepted connections have a key each.  A peer that reconnects
  under one key within a minute may lose its HELLO.
- A private node hides its capabilities, and shows their names to everybody as its
  interests (`node.py:282`).
- A connection cancelled in its bootstrap, or whose handler raised, is cleaned up by
  the idle time-out of the other side only.
- In the Go SDK, Disconnect of a node whose Run was never called, or returned an error
  (`go/node.go:277`, `go/node.go:285`), waits for ever (`go/node.go:104`), hence the
  exception in `DisconnectReturns`; a second call panics. With the default interval, one
  heartbeat that fails and writes that take their 5 seconds let a running node expire:
  91 seconds against a TTL of 90 (`go/discovery.go:14`). Run returns before Disconnect
  has unregistered, so a program that ends with Run, as the example of `go/README.md`
  does, may leave its keys to the TTL. A heartbeat writes the node's metadata without
  its start time (`go/node.go:354`). SendTaskAsync publishes on a subject that no node
  of the SDK subscribes to.
- In the Go transport, two calls of ConnectToPeer for one address both dial
  (`tcp.go:176`); the later one displaces the other from the table, and whichever
  ends first deletes the entry of the other.  ConnectToPeer does not ask for shutdown,
  and handshakes under way are filed after Stop, which then has not closed all
  connections (`tcp.go:99`).  A Broadcast to a peer that does not read holds the read
  lock for ever: every writer waits, the read loop that would close the connection
  included, and Stop.  A second Stop panics.  The BYE of a connection may reach the
  handler after a new one is filed under its address.  Nothing in `src/go` uses the
  transport yet.

## 6. Abstractions

Payloads, signatures, sizes and wording are left out; the visibility of a node is set
once; the rate limit is a module of its own, and drops frames in `TaskExchange` and,
as peers that are connected and not known, in `QueryFlood`; the heartbeat's frames are
folded into `idle`; an unread frame on a closed socket is lost; a restarted node keeps
its identity; `MeshNode` handles every HELLO, while the code drops the first one right
after boot (section 5); `query_peers`' score of related words is a relation; timers are
nondeterministic.

## 7. Not modelled

- EVENT: the handler passes it to a callback of the application and changes nothing.
- The cache of last peers (`node.py:50-75`): a small file, rewritten whole on each
  HELLO, so two processes of one user may lose each other's last entries.  They are
  hints for the next bootstrap, where any set of addresses is an instance of
  `Configured`.
- The cache of public keys: a pure function of the node id, remembered.
- `security.py`, `go/security.go`: cryptography without protocol state.
- `types.py`, `__main__.py`, `run_sauron.py`: data classes, parsing and printing.
- The sockets and the announce loop of `discovery.py`, the framing of `protocol.py`:
  I/O, of which the modules keep the order and the loss of messages.
- Tasks and events of the Go node: NATS matches requests and replies, the node keeps
  no state; `FindByCapability` only reads.
- `scripts/elo-watchdog.sh`: restarts a dead process, under a file lock; to the node
  these are the steps `ProcessEnds` and `ProcessStarts` of `MeshNode`.

## 8. Plan

Every safety property that a run checks is proved.  What could be proved next is what
liveness properties rest on, as `ResultsAreAwaitedInNoCircle` does for `ReadersRecover`:

- `FloodEnds`: each forwarded QUERY has a TTL smaller than that of the one it forwards,
  and one with a TTL of 1 is forwarded no more;
- `HalfLinkResolved` and `OrphanResolved`: in each state where such an end is left, a step
  that the fairness covers can resolve it, and no other step makes it worse;
- `DisconnectReturns` and `StopReturns`: who is waited for is under way and not itself
  waiting, except for the peers that stall (`Hangs`).

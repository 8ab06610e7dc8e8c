# Verification of distflow

TLA+ models of distflow, checked with TLC on small instances, and theorems about
them checked with TLAPS. distflow (`src/`) is a TypeScript framework of three
packages: a port mapper daemon (PMD), a node runtime that
registers with it and talks to its peers over TCP, a replicated JSON document
(JSONCrdt), and a consistent-hash ring on a Yjs document.

## 1. Inventory

| Component | Source (`src/packages/...`) | State | Operations |
|---|---|---|---|
| JSONCrdt | `core/src/json-crdt.ts` | document, vector clock, hybrid clock, lww and tombstone maps, log, pending buffer | `set`, `del`, `receive`, `drainPending`, `diffSince`, `gcLog`, `gcTombstones`, `cleanPendingBuffer`, `autoGc`, `snapshot`, `restore`, `replay`, `diffSnapshots` |
| PMD daemon | `pmd/src/pmd.ts`, `pmd/src/types.ts`, `pmd/src/cli.ts` | registry, alias map, watchers, sockets of nodes, auto-shutdown timer | REGISTER, UNREGISTER, RESOLVE, LIST, HEARTBEAT, WATCH, SHUTDOWN, close of a socket, the timers, SIGINT/SIGTERM |
| PMDClient | `core/src/pmd-client.ts` | one socket field, the receive buffer, a table of requests, event handlers | `connect`, `register`, `unregister`, `resolve`, `list`, `heartbeat`, `watch`, `disconnect`, request timeouts |
| NodeRuntime | `core/src/node-runtime.ts` | started, "maintain the connection", listeners of "disconnect" | `start`, reconnection, `send`, `discover`, `shutdown` |
| Transport | `core/src/transport.ts` | server, cached connections, receive buffers | `listen`, `send` (`getConnection`, `connect`), incoming data, close events, `stop` |
| Mailbox | `core/src/mailbox.ts` | bounded queue, handlers | `push`, `processQueue` |
| RingNode, Awareness | `core/src/ring-node.ts` | Yjs array of members, heartbeats, known peers, state BOOTSTRAPPING/UNSTABLE/STABLE | `start` (discovery, join, sync), updates, two-step sync, heartbeats, stability check, `cleanupOfflineNodes`, `leaveRing`, `shutdown`, `findSuccessor`, `getNeighbors` |
| Command line | `cli/src/cli.ts` | one connection | `ls`, `resolve`, `pmd kill`, ... |
| Logger, entry points | `core/src/logger.ts`, `*/index.ts` | none of interest | |
| Examples, agents, tests | `src/examples/`, `src/test/` | programs that use the packages | |

How they interact. A process has one `NodeRuntime`; it owns a `PMDClient` (one
TCP connection to the daemon, requests and answers with identifiers, pushed
events), a `Transport` (TCP to the peers it resolved through the daemon) and a
`Mailbox` between the transport and the application. The daemon ties the life of
a registration to the socket it came on: the close event of that socket removes
the node and tells the watchers. `RingNode` extends `NodeRuntime` and ships Yjs
updates and heartbeats with `send`. `JSONCrdt` talks to nobody: the application
ships what `set` and `del` return, by any means, and calls `receive`.

What is hard, and what would make each part correct:

* **JSONCrdt.** Operations are lost, repeated and reordered; wall clocks differ and
  go back; a call can throw half way, during a drain too; three collections
  forget things; a replica can be restored from a snapshot. It is correct when the
  vector clock says what was applied (`ClockIsApplied`), delivery is causal
  (`ImplementsCausal`), stamps are unique and follow causality (`HlcOrder`), writes
  that are causally last or latest decide (`CausallyLastDecides`, `LastWriterWins`,
  `Convergence`), deletions are not undone by older writes (`NoResurrection`), and
  replicas that synchronise catch up (`DiffIsComplete`, `EventualDelivery`).
* **PMD.** Sockets close late, nodes come back before the daemon noticed they left,
  change their alias, compete for one; timers race registrations; the daemon stops
  only when its last connection ends. It is correct when aliases resolve to their
  owners, no registration outlives its process, watchers are told exactly what
  happened, and the daemon neither stops under a node by a forgotten timer nor
  lingers when alone.
* **PMDClient and NodeRuntime.** Several asynchronous flows share one socket field;
  timeouts race answers; a shutdown races a reconnection; the daemon is killed and
  comes back empty. It is correct when a node has one connection, is registered
  whenever things are settled, and is not registered after it left.
* **Transport and Mailbox.** Two sends to a new peer open two connections; a close
  event deletes the key of its peer, whichever socket is there by then; `stop` waits
  for sockets that only the peers close. It is correct, for nodes that await each
  send, when messages are handled in the order they were sent in (`HandledInOrder`),
  no socket is forgotten (`NothingLeaks`), what `send` resolved for arrives unless
  the receiver stops before it accepts the connection (`Delivered`), and nodes that all stop do not wait for each other (`StopCompletes`).
* **RingNode, one node.** The ring and the peers change while the application routes
  by them. It is correct when a node is STABLE only after it joined, with a ring that
  has members, was quiet, and of whose peers a quorum is still there
  (`RoutesOnlyWhenSettled`), its view does not change while it is
  (`TopologyFrozen`), it becomes STABLE again when things are quiet (`StableAgain`),
  and its lookups are those of consistent hashing (`NeighborsAgree`, `OnlyOwnKeysMove`).
* **RingNode, a cluster.** Nodes join at once, learn of each other through a list or
  through events, push, pull and broadcast at the same time, leave, die by
  rejections that nobody handles, and are taken for dead when they were silent. It is
  correct when those in the ring come to know each other (`SettledKnowEachOther`), and
  who left is forgotten (`LeaversForgotten`, which fails).

`PROJECT.json` lists each of these hazards with the line where it bites and the
properties that watch it.

## 2. Modules

| Module | What it is | Source |
|---|---|---|
| `Hlc` | hybrid logical clocks: order, local event, merge | `json-crdt.ts` `compareHlc`, `makeLocalOp`, `applyOp` |
| `JsonDoc` | the document as what each path holds: set and delete with the parents they create and the values they remove | `ensureContainer`, `setAtPath`, `delAtPath` |
| `PathKey` | the key of a path in the lww and tombstone maps | `pathKey` |
| `JsonCrdt` | the replicas, one action per call; the loop of `drainPending` one action per item | class `JSONCrdt` |
| `JsonCrdtPersist` | `JsonCrdt` with `snapshot`, crashes and `restore` | `snapshot`, `restore` |
| `CausalBroadcast` | abstract: causal delivery, at most once | class comment of `JSONCrdt` |
| `Pmd` | the daemon, its clients' connections and its timers, one action per handler | class `PMD`, `pmd/src/cli.ts` |
| `Directory` | abstract: a directory in which no two nodes share an alias | README, section on PMD |
| `PmdSession` | one node's `PMDClient` and the flows of `NodeRuntime`, against a daemon that may be killed | `PMDClient`, `NodeRuntime` |
| `Transport` | the sockets between nodes, overlapping sends, `stop`, the end of a process, down to the mailbox's handler | class `Transport`, `Mailbox.push` |
| `RingRouting` | the lookups on a set of entries sorted by token | `getSortedMembers`, `findSuccessor`, `getNeighbors` |
| `RingStability` | one RingNode, its awareness and its state machine; extends `RingRouting` | classes `Awareness`, `RingNode` |
| `RingSync` | the ring of a cluster: discovery, pushes, two-step sync, join, leave, cleanup, deaths | `RingNode`: `start`, `handleRingMessage`, `leaveRing`, `shutdown` and what they call |
| `JsonCrdtProofs`, `JsonCrdtBufferProofs` | theorems and proofs about `JsonCrdt`: delivery, documents and the map entries; the buffer and the log | |
| `JsonCrdtPersistProofs` | theorems and proofs about `JsonCrdtPersist`; extends `JsonCrdtProofs` | |
| `PmdProofs`, `PmdSessionProofs`, `TransportProofs`, `RingProofs`, `RingSyncProofs` | theorems and proofs about `Pmd`, `PmdSession`, `Transport`, `RingStability`, `RingSync` | |
| `MCJsonCrdt`, `MCJsonCrdtPersist`, `MCPmd`, `MCPmdSession`, `MCTransport`, `MCRingStability`, `MCRingSync` | instances for TLC | |

`JsonCrdtPersist` extends `JsonCrdt`, which uses `Hlc` and `JsonDoc` and implements
`CausalBroadcast`; `Pmd` implements `Directory`. `PmdSession` has the daemon
of `Pmd` as far as one node sees it, `RingSync` has it as a list and a queue of
events per node, and takes from `Transport` what that shows: messages to a peer
that are each awaited arrive in order (section 3 says where they are not awaited).

Definitions marked `Fault` in the modules are plausible mistakes that no action
uses; `PROJECT.json` ("mutants") says which definition each replaces and which
property must then fail.

### How states and actions correspond to the code

*JsonCrdt.* `doc, vc, hlc, lww, tomb, log, pending` are the fields of the class, by
replica; `seq` is `seq`. `ops` (what `set` and `del` returned) and `applied` (what
`applyOp` was run on to its end) are history. A document is a function from the
paths the application writes to what they hold: `Absent`, `Null`, a scalar or
`Obj`, the object that a nested set creates; `Anc` gives the paths above a path.
`set` is `FinishOp` or, when `setAtPath` throws, `FailOp`, which leaves what the
code leaves: ticked clocks, a used number, an lww entry. `receive` is `Receive`
with its three outcomes (ignored when seen, which is a stutter; buffered; applied,
which may throw and else starts a drain). A drain is `drain`, with the items of
the current pass still to look at and those put back; the buffer itself is
replaced at the end of a pass only, as `this.pending` is. Cleaning the buffer drops
what is older than a timeout by a clock that may go back: any subset may go
(`Thinnings`). `diffSince` filters the log. The log is a sequence in application
order; `KeepLast(l, 0)` is the whole log, as `slice(-0)` is.

*Pmd.* A connection goes from `new` to `open`, `dead` (the client is gone, the
daemon does not know) and `closed`. Requests already sent may be handled on a dead
connection. `assoc[c]` is the variable `associatedNodeId` of the closure that
handles `c`; `nodeSockets` the map of that name. `view` is history: what a watcher
knows from its LIST and the events after it. `timer` has three values because
`stop()` clears the timer and keeps its handle.

*PmdSession.* A flow (`Start`, `Stop`, one per reconnection) is at one of its
awaits; what happens between two awaits is one action. `current` is the socket
field: the newest socket, set before it is connected, emptied by the close event
of any socket. `wire` and `answers` are the two directions of a connection; a
request that timed out leaves them alone and its answer is ignored. A connection
may be lost by the client while the daemon still has it (`halfOpen` remembers
that), or with the daemon, which comes back empty. A reset connection makes
PMDClient emit an "error" nobody listens for, which ends the process: `Crash`.

*Transport.* A socket is named by the node that opened it and the number of the
call of `send` it was opened for. `near` is its state there, `far` at the peer, `pipe`
what is under way (calls, then `FIN`). For its opener the connection is there, and
`send` resolves, before the peer's process has accepted it: it waits in the backlog of
the listening socket until `Accept`, and `server.close()` in `Stop` resets what is still
there (`Backlog`), with all that was written to it. `connections` is the map of that name. A call
that finds a socket is `due` until the continuation of its await runs, before
anything else happens in the process (`Idle`); one that connects goes on in
`Connected` or `Refused`. `Closed` is the close event: it empties the key of the
peer whatever it holds. `overlapped` is history: the pairs of nodes whose sends were
not awaited before the next one or before `stop`. `push` handles a message at once:
`NodeRuntime` sets the mailbox's only handler in the continuation of `listen()`,
before a message can arrive.

*RingStability.* Of the times a node keeps only comparisons matter: a heartbeat is
`fresh` or `expired` (`states`; a heartbeat carries its sender's clock, so one may
have expired when it arrives), and the last change is older than `stabilityWindow`
or not (`quiet`). `members` is what the Yjs array shows, and a remote update may leave
any set of entries there. Entries with equal tokens keep their order in the array
(`Place`), because the sort is stable.

*RingSync.* A process is a node and the number of its start, and stands for the one
entry it may make. `left` and `mistaken` are history: who left in order, and whose entry
was deleted while it was in the ring. `Cleanup` takes away any member, alive or not, as
`cleanupOfflineNodes` does: it looks at the age of heartbeats only. The Yjs document is external: `ins` and `del` are the insertions
and deletions a replica was given, merged by union; an entry shows once the entry it
was appended to (`base`) is there (`Integrated`), and a difference to a state vector
leaves out insertions only. `queue` is what the daemon has sent to a node, `net` the
messages from one node to another, in order. `start` is cut at its awaits: `Register`,
`Wire`, `Listed`, `Join`, then `SyncPush` and `SyncPull` for each peer of
`syncWithExistingPeers`, whose loop comes to keys that are added while it runs.
Messages sent without `catch` may end their sender when the receiver is gone:
`dying`, then `Rejected`.

## 3. Runs

Passing runs (`tlc -config <run>.cfg <module>`):

| Run | Instance | What it shows |
|---|---|---|
| `crdt_causal` | 3 replicas, 3 operations in all, 2 by one replica at most, one key, clock {0, 1}, all limits at their smallest | the vector clock is exactly what was applied; stamps are unique and grow along causality; a drain leaves nothing that could be applied, also where that takes a second pass; no collection or concurrent write undoes an operation that every other one happened before; causal broadcast is implemented |
| `crdt_nested` | 2 replicas, 2 operations each, a key and one below it, collections at any time | throws at the origin, on receipt and in a drain leave the vector clock exact and delivery causal |
| `crdt_sync` | 2 replicas, 2 operations each, fairness, no collection | `diffSince` gives exactly what is missing, first things first; everything is delivered eventually; a deleted key does not come back by an older set |
| `crdt_saved` | 2 replicas, 2 sets each, two values, a snapshot in every 'change' event, one crash each | crashes, in the middle of a drain too, lose no operation a replica made, reuse no clock value and no identifier; the latest write decides; equal histories give equal documents |
| `pmd` | 3 connections, 2 nodes, 3 processes (one node restarted with another alias, which the other node wants), fairness | aliases resolve to their owners; a registration has a live socket whose close removes it; the timer is set exactly when the last node left; watchers know the registry; the daemon implements `Directory`; no registration outlives its process; if clients leave, a daemon told to stop, or left alone, exits |
| `session` | 3 sockets, 2 reconnections, 2 losses, 2 attempts each | one connection and one connecting flow while no reconnection failed; settled means registered and watching; reconnection; no registration is left behind |
| `transport` | 2 nodes, 3 and 1 sends, one crash, fairness | for pairs whose sends are awaited: order, no socket forgotten, delivery of what `send` resolved for, but for what a stopping receiver has in its backlog; and every `stop` resolves if all stop |
| `ring_stable` | 3 nodes, 4 entries (one node may have two, two hash alike), hashes below 5, quorum 3/5, fairness | that a node routes only when joined, quiet, with members and with a quorum still there; that its view stays the same while it does, that it may again once things are quiet; what its lookups return on every ring |
| `ring_sync` | a founders' ring {a, b} that c joins, a ring of c that one joins, or two that join at once; one leave, crash or mistaken removal; c may clean up | those in the ring know each other once every message has arrived, but for who was taken for dead |

Runs that show a disagreement between the code and what it or its documents say
(each is a finding of `PROJECT.json` with the quoted line):

| Run | Violated | Because |
|---|---|---|
| `crdt_v_lww` | `LastWriterWins` | an older deletion that arrives after a newer set removes its value: `applyOp` compares it with the tombstone map only |
| `session_v_shutdown` | `StaysGone` | the flag that stops reconnections is read before the pause of one second, not after it |
| `ring_v_leave` | `LeaversForgotten` | a deletion is broadcast once, by the node that leaves, and never forwarded: who got a peer's state before and is not known to that node keeps the member |

Seen while modelling and not given a run of their own: a `set` that throws has used
up a number the peers then wait for (`json-crdt.ts:368`); a replica restored from a
periodic snapshot gives out numbers again (`json-crdt.ts:632`, against
`docs/CRDT.md:263`); the late close of an old socket removes a node that registered
again (`pmd.ts:114`); two sends that overlap leave a socket that `stop` never ends,
under a comment "Close all connections" (`transport.ts:185`); a node restarted with
its identifier makes a second entry and leaving removes one of the two
(`ring-node.ts:342`; with `MaxStarts = 2` `SettledKnowEachOther` fails); the quorum is a
count of whoever is online, where the comment has peers that "share the same Yjs
state" (`ring-node.ts:811`); `isConvergedWith` is never called; the daemon's `ttl` is never
used and a host that disappears silently stays registered (`pmd.ts:31`);
`pmd kill` waits for the connections of nodes that are never told to leave
(`pmd.ts:64`); a daemon that never had a node never starts its timer
(`pmd.ts:248`); a node that registers after the timer fired does not keep the
daemon (`pmd.ts:199`); an alias a node gave up stays taken (`pmd.ts:190`); a full
pending buffer of recent items grows (`json-crdt.ts:435`); the log of a replica that
only receives is never collected (`json-crdt.ts:1020`); after `gcLog`, `diffSince`
leaves out what others may lack (`json-crdt.ts:476`); a set below a deleted key
brings the key back (`json-crdt.ts:981`), and so does an older set of the key itself once
the tombstone was collected (`json-crdt.ts:562`); `["a.b"]` and `["a", "b"]` share an entry
of the maps (`json-crdt.ts:952`); a reconnection that fails is not tried again
before the next disconnect (`node-runtime.ts:264`), when two listeners reconnect at
once; `shutdown()` awaits `transport.stop()`, which waits for the peers' sockets and may
never resolve (`node-runtime.ts:377`); a message whose `send` resolved is lost when the
receiver stops before its process accepted the connection (`transport.ts:194`); an
operation whose application threw has left its lww entry, so that it is counted without
effect when it is received again, and older writes of others are suppressed
(`json-crdt.ts:1006`); a node becomes STABLE with a ring
that has lost its own entry (`ring-node.ts:819`); a live node that was silent for
`awarenessTimeout` is deleted from the ring and makes no entry again
(`ring-node.ts:504-518`).

### Bounds, and why they are enough

* `MaxOps` bounds the operations of each replica, `MaxAllOps` those of all. Causal
  delivery goes wrong with two ordered operations and a replica that gets the second
  first; three replicas give chains through a third party, two operations of one replica
  give gaps in its numbers. The three operations of `crdt_causal` can be a chain
  a1, b1, a2: a third replica that buffers a2 before b1 puts a2 back in the first pass
  and needs the second. With one operation each no buffer would ever hold two items.
* `BufferBound` bounds the pending buffer of the model (the code has no such bound) at
  two items, what such a pass needs. `BufferCorrect` is for any number.
* `Clock` is what `Date.now()` may return at any call: with {0, 1} it goes forward,
  back and stands still. `crdt_nested` and `crdt_sync` use {0}, where the counters
  alone order the stamps.
* `MaxLogSize`, `MaxPendingSize`, `Grace` are the code's options; 1, 1, 0 make every
  collection happen within three operations, 9 makes none happen.
* `MaxRestarts`: one crash of each replica; the second starts from a state like the first.
  The theorems are for any number.
* `Conn`: three connections hold a node's old socket, its new one and a rival's or a
  watcher's at once. The invariants are proved for any number.
* `Socket`, `Task`, `MaxLosses`: two losses are a reconnection and one that begins
  while the first is still waiting. A failure-free behaviour needs no more sockets
  and flows than it has; one that would need more stops there, and every liveness
  property is excused once a reconnection failed. The invariants are proved for any
  number of each.
* `Budget`: three sends give two that overlap and one after them, on the socket that
  is kept or the one that is not; the send the other way keeps a socket open in the
  direction `stop` waits for. Order and cleanliness are proved for any number.
* `Entries`, `Token`, `Space`: two equal tokens, a node with two entries, keys before,
  between and after the tokens. The lookups are proved for any ring.
* `Casts`, `MaxStarts`, `MaxDepartures`: a join is seen by two members that may push at
  once, and two nodes join a ring that neither finds; one leave, crash or mistaken removal
  falls at any point of it (`MaxDepartures` counts all three), the deaths it entails come
  on top, and so do removals of nodes that are gone.
  `Swappers` are the nodes whose two messages at `peer:join` may change places: c, in the
  small casts where it is a founder or one of two that join, and all in `ring_v_leave`;
  with all of them in the ring of three TLC needs three times the states. The theorems
  are for any casts and any `Swappers`. Nodes start once: identifiers are
  random unless the application sets them. `KnowCorrect` has that as its hypothesis
  `StartOnce` and bounds nothing else.
* Symmetry is used in runs without liveness only: values in `crdt_saved`, the nodes a
  and b in the ring runs (the casts do not tell them apart).
* Deadlock is not checked: bounded operations, used-up connections and an exited
  daemon all stop.
* Types are proved for every component with proofs; TLC repeats them in `session`
  and `ring_sync` only, where they relate variables.

### Assumptions about the surroundings

* `Transport`: a process that ends does not come back at the same address (the system
  chooses the port). A crash loses any suffix of what the process had written. The
  backlog of a listening socket is never full.
* `RingSync`: between processes that live no message is lost and two messages stay in
  order. Where the code does not await one send before the next, the order could change:
  the two that `peer:join` sends at once are modelled in both orders (`Swappers`); the broadcast of
  `joinRing` could also change places with the first push of `syncWithExistingPeers`
  (`ring-node.ts:653`, `705`), and one answer with another. Those keep their order in the
  model; what a replica has in the end does not depend on it, because merges are unions. A
  node that leaves in order has written all it sent, one that dies loses any suffix. The
  daemon answers, and sees at once that a process is gone.

### Fairness

* `JsonCrdt`, `FairSpec`: a call returns (weak fairness of the drain's steps) and any
  two replicas keep synchronising (strong fairness of `SyncFrom`: the application
  calls `diffSince` and `receive` now and then, and any one exchange may be lost).
* `Pmd`, `FairSpec`: timers fire and `server.close()` calls back; the close of a
  client that is gone is noticed (its FIN or RST arrives); the commands disconnect
  once answered (the process ends). `StopCompletes` and `AloneExits` state their
  further condition, `Leaving`: every client leaves some day. Without it they are
  false, since the daemon waits for its clients.
* `PmdSession`, `FairSpec`: the daemon handles what it received, sockets close when
  the other end is gone, attempts end and timers fire. Nothing is assumed about
  losses, shutdown or who starts a daemon again.
* `Transport`, `FairSpec`: event loops and the network go on; nobody must send, stop
  or crash. `StopCompletes` has its further conditions in the formula: every node
  stops or ends, and sends are awaited.
* `RingStability`, `FairSpec`: time passes and the stability timer fires. `StableAgain`
  is about behaviours in which peers come to rest and a quorum stays online; heartbeats
  may go on, which is the point of it.

## 4. Proofs

All theorems hold for every value of the constants that satisfies the named
assumptions (`ReplicaAssumption`, `KeyAssumption`, ... in the modules): any
finite or infinite set of replicas, paths, connections, nodes, entries.

*JsonCrdtProofs.* `ClockIsApplied` is not inductive: that a received operation is
new to `applied` when its number is new to the clock needs that numbers identify
operations, that no clock runs ahead of the replica it counts, and that what
waits in buffers was really made. The inductive invariant is `CausalInv`:

* `TypeOK`, and `BufferedExist`: buffers and the drain hold operations of `ops`;
* `ClockBounds`: clocks and dependencies never exceed the maker's own count, and a
  number names one operation;
* `ClockIsApplied`: applied = what the clock covers;
* `AppliedPast`: a replica's clock covers the dependencies of what it applied;
* `Stamps`: a replica's hybrid clock is past every stamp it applied, so stamps grow
  along happened-before.

From it follow `TypeCorrect`, `CausalCorrect`, `ClockCorrect`, `HlcCorrect`
and `ImplementsCausalBroadcast` (initial states map to initial states; a local
call maps to `Issue`, an application to `Deliver`, all else to stutters). The
theorems about documents need conditions that they state, because without them
they are false: `FlatPaths` (top-level keys with map entries of their own) for
`CausallyLastCorrect`; that and `Kinds \subseteq {"set"}` (no deletions) for
`LwwCorrect` and `ConvergenceCorrect`, with the invariants `MapsFromApplied` and
`SetsOnly`; `FlatPaths` and `TombstonesKept` (no tombstone is collected) for
`NoResurrectionCorrect`. `crdt_v_lww` shows what happens with deletions.

*JsonCrdtBufferProofs.* Here the hypothesis is `TopLevelOnly`: calls do not throw,
because no path is below another. A call that throws does break both properties:
an exception in a drain leaves what was applied in the buffer, one in `set` leaves a
number that no operation has. `BufferCorrect` rests on `DrainInv`: what a buffer
holds can neither be applied nor forgotten yet, but for the buffer being drained,
where that is only so of what was put aside since the last application. So a pass
that applied nothing leaves nothing that it should have taken, and a pass that did
is followed by another. A local operation never makes a buffered one ready, since
nobody can depend on it yet. `DiffCorrect` rests on `LogInOrder` (a log is what was
applied, in an order it can be applied in) and `NoGaps` (every number up to a
replica's own count names an operation). Its two other conditions, no `gcLog` by
hand and no log long enough for `autoGc` to cut (`LogsShort`), are what the first
needs: after a cut `diffSince` leaves out what others may lack. That what is missing
has a least element, which can be applied at once, is by well-founded induction on
the sum of the numbers in `deps`.

*JsonCrdtPersistProofs.* The hypothesis is `SaveEach`, an application that saves in
each 'change' event, before the operation leaves; without it a restored replica
uses numbers again. A crash then takes back only what nobody else can know:
`NothingPastSaved` says that no clock, no dependency and no operation covers more of
a replica than its last snapshot does. `SnapshotCausal` says that the snapshot could
be the state now, also when others went on after it was taken. With
`CausalInv` this is inductive (`SavedCorrect`), so what was proved of replicas
without crashes is again so with them: `MakersRememberCorrect`, `RestoredClosedCorrect`,
`UniqueIdsCorrect` (stamps identify operations, so identifiers do, though `seq`
starts again), and for documents, under the conditions of `JsonCrdtProofs`,
`CausallyLastAfterCrash`, `LwwAfterCrash`, `ConvergenceAfterCrash`, where `SavedFlat` and
`SavedSetsOnly` say of a snapshot what the invariants say of a replica.

*PmdProofs.* `PmdInv` is the conjunction of `TypeOK`, `AliasFindsOwner`,
`RegisteredIsConnected`, `TimerMatchesRegistry` and `WatchersSeeRegistry`, which
support one another (removing a node must not remove another's alias, so aliases
must be found before); with `RemembersOwnNode`, that a connection remembers its own
node, it is inductive. `DirectoryCorrect` is the refinement of `Directory`:
a registration is `Join`, a removal `Leave`. `TypeCorrect` is its first conjunct.

*PmdSessionProofs.* Two invariants beside the types. `OneAtATime` (while no
reconnection failed): what connects or is open is what the socket field holds, at
most one flow connects, and only when no socket is open. It needs that there is at
most one listener of "disconnect", and that a socket `disconnect()` closed is not
waited for. `ServedIsRegistered` (while no connection is half open and `shutdown` was
not called): for every connection the daemon has there is one flow that is registering
the node on it, and `Registering` says how far it has come: REGISTER under way, or answered
and the node registered on this socket, or WATCH under way, and so on. A daemon that is
killed takes its connections with it, so an old answer is never taken for one of
the daemon that follows. `TypeCorrect`, `OneConnectionCorrect` and `RegisteredCorrect` have
no hypotheses and hold for any number of sockets, reconnections, attempts and losses.

*TransportProofs.* Order alone is not inductive: one must know where the messages of
a pair are. `TransportInv` has three parts. `Types`, with the shape of calls and pipes.
`Links`: sockets, calls and the map of a node refer to one another (a socket that
connects has a call that waits for it, the map holds open sockets of this node to
that peer, a due call is due once). `PairsInv`, for every pair that was not overlapped:
`Kempt` (the open socket is the kept one; at most one call waits, and none once the
node stops; at most one socket flows) and `Ordered` (what is handled is older than
what flows, which is older than the call that waits). `LeaksCorrect` and
`OrderCorrect` follow, for any number of nodes, sends and crashes.

*RingProofs.* `RoutesOnlyWhenSettled` supports itself with the types: while a node is
STABLE its handlers are on, so a change of the members or of who is present takes STABLE
back, and the quorum that was counted stays (`Id` is finite, `IdAssumption`, so that it can
be counted). `FrozenCorrect` needs its `phase = "joined"`, since only then are the
handlers on. `NeighborsCorrect` and `KeysCorrect` are about the lookups: `Before` is a
strict total order, and places are bounded, so every non-empty set of entries has a
first and a last, and `findSuccessor` and `getNeighbors` pick one of them in a part of
the ring;
the theorems then hold for any hash function and any ring, also with equal tokens.

*RingSyncProofs.* Documents travel, so `SyncInv` follows an entry wherever it may be.
Inserted, in a document or a message, it was made by a process that has joined (`Made`);
deleted, that process is on its way out, gone, or was taken for dead (`Gone`). Both sets
only grow (`LifeOK`), so what is under way stays true. `TypeCorrect` adds `PeerInv`: whoever
a node has still to come to is a peer it knows.

`KnowCorrect` is about every ordered pair of nodes: how the entry of `a` gets to `b`.
`SettledKnowEachOther` speaks of the end only, when nothing is under way. `KnowInv` says
at any time where the entry is (`Reaches`): `b` shows it; or `a` will push it; or `b`
will ask for it, and of `a`; or a message that will be handled carries it or asks for it.
The other parts support that. `Discovery`: of two nodes that are up, each that listens
knows the other, or has the event queued, or has it in the list it is to
look at. `OwnEntry`: who joined shows its own entry, so it can answer. `QuestionsSound`:
a question does not claim entries that its sender lacks, so the answer leaves none out.
`EventsSound`: no `leave` event is of a process that is still there. An entry shows only
with what it was appended to, so `Shows` asks for a chain, and every step that moves
entries is shown to move chains. The hypothesis is `StartOnce`: each node starts at most
once. With two starts TLC finds a run of 18 steps in which it fails: the node appends a
second entry to a ring it has not received yet.

Only model-checked: what needs fairness (`GhostsLeave`, `AloneExits`, both
`StopCompletes`, `EventualDelivery`, `Delivered`, `StableAgain`, and `Reconnects`,
`LeavesForGood` of `session`), which the prover does not reach. Every invariant
and action property of the passing runs is a theorem, some under hypotheses, which
their runs satisfy: `crdt_causal` has `BufferSettled` and `CausallyLastDecides` on
top-level keys, `crdt_sync` has `DiffIsComplete` and `NoResurrection` with limits that
cut nothing (`crdt_nested` has only what needs no hypothesis), `crdt_saved` saves each operation and sets
only, `ring_sync` starts each node once. The mutants and the three runs that
find a violation show that the hypotheses matter.

## 5. Not modelled

* Arrays (numeric path segments) and the empty path in JSONCrdt; `replay`,
  `diffSnapshots`, inspection, metrics and events; calls made from inside an event
  handler.
* Answers' contents and framing of bytes in PMD, PMDClient and Transport.
* `NodeRuntime.send`, a RESOLVE followed by a send of Transport, and the lock file.
* A mailbox without a handler, its limit, and handlers that push: `NodeRuntime` never
  has them.
* Awareness messages between nodes: `RingStability` has an environment that sends any
  heartbeat at any time, which includes them.
* The internals of Yjs: only what the code relies on (see `RingSync`).
* The command line, beyond being clients of the daemon; logger, entry points,
  examples: nothing depends on them.

## 6. Plan

Done: the replicated document, the daemon, the session of a node, the transport, the
ring (one node, routing, a cluster), and the proofs of section 4. Next:

1. **Proofs**: a theorem about documents with nested paths; `OneConnection` after a reconnection failed, as far as it
   holds.
2. **Restarts in the ring**: what a node with the same identifier finds and keeps, as
   an abstract set of members that grows by join and shrinks by leave.
3. **JSONCrdt, the rest**: `replay`, arrays, reentrant handlers.
4. **Frames**: what the loss of a connection leaves in PMDClient's buffer.

Running: `tlc -workers 2 -config <run>.cfg <module>`, and `tlapm` on each of
`JsonCrdtProofs`, `JsonCrdtBufferProofs`, `JsonCrdtPersistProofs`, `PmdProofs`,
`PmdSessionProofs`, `TransportProofs`, `RingProofs`, `RingSyncProofs`. The longest run,
`crdt_causal`, takes about a minute and a half (1 million states).

# TLA+ models of dlstorage

dlstorage is a replicated in-memory key-value store. Every node is at the same
time a store, a coordinator for the clients that call its API, a server for the
other coordinators and a member of a gossip group. This directory holds TLA+
models of those parts, TLC configurations that check them on small instances and
TLAPS proofs of the results that hold for every instance.

Paths below are relative to `src/dlstorage/`.

## 1. Inventory

| Part | State | Operations | Talks to |
|---|---|---|---|
| LWW store, `store/lww.py` | `_data`: key → (value or tombstone, deadline, timestamp); a lock | `set`, `delete`, `get`, `exists`, `get_versioned`, `keys`, `scan`, `scan_keys`, `flush_all`, `flush_keys`, `clear`, `purge_expired` | called by the local handle, the dispatcher and the purge loop of its node |
| Basic store, `store/basic.py` | the same without timestamps and tombstones | the same without versions | no node uses it; same interface as the LWW store |
| Rendezvous ring, `ring/rendezvous.py` | the set of members | `add`, `remove`, `get_node`, `get_nodes` | read by coordinators, changed by gossip |
| Merge resolvers, `consistency/` | none | `read_resolve` of LWW and FHW, sync and async | called by `get` with one handle per replica |
| Coordinators, `node/sync.py`, `node/async_.py` | ring, store, pool | `get`, `set`, `delete` over the replica handles | each handle is a local call or one request through the pool |
| Node lifecycle, same files | threads and stop flag (sync); server, tasks and handler tasks (async) | `start`, `stop`, accept, purge and gossip loops, connection handlers | everything above |
| Dispatcher, `node/dispatcher.py` | none | GET, SET, DELETE on the store; the rest to gossip | called by the connection handlers |
| Gossip, `peer_comm/gossip.py` | none of its own; ring and discovery | rounds of PEER_LIST, eviction, PEER_ANNOUNCE, PEER_LEAVE | ring, discovery, pool |
| Discovery, `discovery/` | `GossipDiscovery`: seed and learnt peers; static list; DNS | `get_peers`, `add_peer`, `remove_peer` | gossip, `start` |
| Connection pools, `connection_pool/mux.py`, `sync.py`, `async_.py` | idle sockets per peer, pending requests, the mux selector loop | `execute`, `close_peer`, `close` | handles, gossip |
| Wire format, `connection_pool/wire.py` | none | length-prefixed pickle | pools and servers |

What is hard in it:

* the store takes its timestamps before its lock, so writes commit in another
  order than their timestamps;
* a write reaches its replicas one after the other (sync) or in any order
  (async) while other writes and reads run;
* a request may time out and still be served later, or be served twice after a
  retry; a replica may crash and return empty;
* a write is reported as done when any replica answered;
* timestamps are wall-clock times of different machines and may tie;
* each node has its own view of the ring, learnt from announcements that are
  sent once and from peer lists that may be out of date;
* expiry and flushes delete an entry together with its timestamp;
* the pools look a queue up, make it and use it in separate steps, while
  `close_peer` takes it away without the lock; a call may raise or be cancelled;
* the sends of the pools wait without a timeout for a peer that does not read;
* in the sync node no lock covers ring and discovery together, and handler
  threads and the gossip thread change both;
* `stop` of the async node suspends several times, while connections, calls and
  the other nodes' `stop` go on.

`PROJECT.json` lists these as hazards with the lines where they bite and the
properties that cover them; a note says what the properties leave out, where
that is part of the hazard or all of it.

What makes each part correct: the store keeps the newest write whatever the
order of arrival, time never runs backwards in a slot, and until it refuses a
write it is the plain store; placement is the
ranked top n and moves as little as possible; a read policy returns a newest
answer; a replica keeps what it has answered; reads are not stale when nothing
fails; calls return unless a replica keeps them waiting; a pool gives every caller its own answer and every
connection one owner; ring and discovery stay one set; rings converge; `stop`
returns and nothing older survives it.

## 2. Modules

| Module | Models | State and actions |
|---|---|---|
| `LWWEntry` | one slot of `_data` | pure operators: what each store method makes of the slot and what it returns |
| `LWWStore` | `LocalLWWStore` with its threads | `data` is `_data`, `call` the writes that have their timestamp and wait for the lock, `mono` the monotonic clock. `StampSet`/`StampDelete` are the code before the lock, `CommitSet`/`CommitDelete` the code under it; `GetVersioned`, `PurgeExpired`, `FlushKeys`, `FlushAll` are the other methods that change something. `buriedAt` is the newest tombstone ever stored for a key |
| `PlainEntry`, `StorePair` | `LocalStore`, and the two stores side by side | `plain` is `LocalStore._data`; each action of `LWWStore` is made on it as well, in the order of the lock. The comparison ends for a key when a write on it is refused and begins again with a flush |
| `Rendezvous` | `get_node`, `get_nodes` | pure operators over arbitrary injective scores; `TopN` is the order-free reading |
| `RendezvousRing` | the ring | `members`; `AddNode`, `RemoveNode` |
| `MergeResolver` | LWW and FHW | `LWWResolve`, `FHWResolve` as functions of the list of answers (a raised exception and an unreachable replica are both None) |
| `ReadPath` | one `get` on the ring | `read`: the replicas, looked up once, and the answers so far. `BeginRead`, `Answer`, `EndRead`, with joins and departures in between |
| `Replication` | coordinators, handles, dispatcher and stores together, one key | per client `op`: the call, the replicas in ring order, how many handles were called, whose answer is out, the answers. `BeginWrite`, `BeginGet`, `CallLocal`, `CallRemote`, `Serve`, `Refused`, `Finish`, `Raise` (a handle that raises); `Coordinate` is what the thread or task of a call does by itself; `TimeOut`, `LoseReply`, `Retry`, `ServeLate`, `Crash`, `Start`, `Join`, `Evict` |
| `Gossip` | async membership | `ring`, `peers` (the discovery), `asked` (the round in progress), `msgs` (announcements). `GossipRound`, `ServePeerList`, `NoPeerList`, `Apply`, `Start`, `Leave`, `Stopped`, `Crash`, `Deliver`, `Lose` |
| `ThreadedNode` | one sync node from `start` to `stop`, with class `Gossip` and either discovery | `ring`, `peers`, `running` (its threads), `job` (the single updates a thread still has to make). `Start`, `Round`, `Answered`, `Unanswered`, `Accept`, `Handle`, `Step`, `Stop`, `JoinFlagged`, `Stopped`; the other nodes are the environment (`PeerStarts`, `PeerEnds`, `Forgotten`) |
| `AsyncStop` | `stop` of async nodes that call each other | per connection its client's end and its handler (`client`, `server`, `queued`), per node the line of `stop` it is at (`phase`) and its background tasks. Calls of the API go on whatever `phase` says. `Open`, `Reuse`, `Run`, `Serve`, `SeeEnd`, `GiveUp`, `Evict`; `Leave`, `CancelTasks`, `EndTasks`, `CancelHandlers`, `CloseServer`, `Finish` |
| `MuxPool` | the multiplexed pool towards one peer | `call` (a thread's place in `execute`), `idle`, `regQueue`, `sel`, `wake`, `io` (the selector thread), `event`, `result`, `conn` (what is on each connection). `Acquire`, `Connect`, `Send`, `HandOff`, `Wakeup`, `Return`, `GiveUp`; `DrainWakeup`, `Register`, `Read`, `Deliver`, `Fail`, `Exit`; `ClosePeer`, `CloseAll`, `CloseRest` |
| `PoolCall` | what `execute` promises | `phase` and `served` per request. `Execute`, `Serve`, `Succeed`, `Fail`, `Raise`. The abstract specification that `RetryPool` implements |
| `RetryPool` | the sync and async pools towards one peer | `call`, `table` and `idle` (queues, told apart by a number, since a caller keeps the one it looked up), `conn`. `Lookup`, `Make` and `Fetch` are the three accesses of `_queue` to the table; `Take`, `Discard`, `Connect`, `Send`, `Receive`, `Fails`, `Cancel` (the task of a call is cancelled); `ClosePeer` takes the queue out of the table and `Drain` closes its connections one by one |
| `MC*` | | constants for TLC |
| `RoutingLemmas` | | what the ranking and the LWW scan compute, for every input |
| `StoreProofs`, `ReadPathProofs`, `ReplicationProofs`, `GossipProofs`, `MuxPoolProofs`, `RetryPoolProofs`, `NodeProofs` | | theorems (`NodeProofs`: `ThreadedNode` and `AsyncStop`) |

`Replication` composes `LWWEntry`, `Rendezvous` and `MergeResolver`; `ReadPath`
composes `RendezvousRing` and `MergeResolver`; `StorePair` composes `LWWStore`
and `PlainEntry`.

Choices worth knowing:

* One key is enough in `Replication`: no API call touches two keys and the
  handlers share nothing between keys. Writes carry no ttl there; `LWWStore`
  has expiry, purge and flush.
* Sync nodes call a handle when the previous one has answered; async nodes
  start all handles at once, except FHW reads, which are sequential in both.
  The constants `Concurrent` and `FirstHit` say which node is which, and a
  cluster may be mixed: the wire protocol is the same.
* In `Replication` a pool is seen from its callers: `execute()` returns the
  answer, or None when the peer refuses, the answer is late, or the connection
  breaks, or it raises before it has sent (a value the mux pool cannot pickle,
  the KeyError of the plain sync pool), or it does not return at all, which no
  fairness condition excludes. A request given up may still be served (`late`). The
  retry of the plain pools repeats a request. `MuxPool` and `RetryPool` are what
  stands behind this view: answers do not cross (`OwnAnswer`), a message is
  served at most twice, and never if the call raised (`KeepsPromise`), and calls
  return where the peer reads and answers (`CallsReturn`).
* `MuxPool` and `RetryPool` read an answer as a whole; pools keep no state
  shared by two peers but the selector thread, so one peer is modelled. A socket
  that nothing refers to any more (after a failed `pickle.dumps`, or when the
  selector is closed) counts as closed: CPython closes it.
* A crash empties the store and the ring and ends the calls that node
  coordinates; writes sent to the dead process are dropped with its sockets.
* In `Gossip` every handler is one step, because in the async node nothing
  runs between two awaits. `_peers` may list the seed as well as the `seed`
  field does, and `random.sample` draws from that list: `Samples` keeps this.
* In `ThreadedNode` a handler is a check and then a job of single updates: each
  `set` operation is atomic under the GIL and nothing larger is. What the other
  nodes answer is any set of the nodes they may know. A round asks a sample of
  `FanOut` peers; a seed drawn twice is asked once.
* Scores stand for SHA-256 prefixes and are taken to be different for
  different nodes.

History variables (`presented`, `buriedAt`, `refused`, `acks`, `floor`,
`contested`, `served`, `late` and `after` of `AsyncStop`) record what happened for the
properties. No guard reads them; `refused` decides when the comparison of the
two stores is off.

## 3. Runs

Passing:

| Run | Checks | Instance |
|---|---|---|
| `lww_store` | `TypeOK`, `NewestWins`, `ExpiryOrdered`, `VersionsOnlyAdvance`, `SameAsPlain` | both stores, 2 threads, 1 key, 2 values, timestamps 1..3, ttl none or 1, clock to 2 |
| `read_path` | `RankedIsTopN`, `MinimalRemap`, `LWWReturnsNewest`, `FHWAgreesWithLWW` | 4 nodes, every ranking, replication 3, answers of 2 values with 3 timestamps, tombstones and missing ones |
| `repl_mixed` | `FreshRead`, `ReplicasConverge` | sync LWW, async LWW and FHW node, 2 clients, 3 timestamps, clocks that differ by 1, no disturbance |
| `repl_faults` | `TypeOK`, `AckedWriteHeld`, `CallsFinishUnlessStuck` | 2 nodes, 1 client, 3 timestamps, any 2 disturbances of 7 kinds |
| `mux_pool` | `TypeOK`, `OneOwner`, `OwnAnswer`, `NoLostWakeup`, `CallsReturn` | 2 threads with 2 calls each, 3 sockets, pool size 1, 1 disturbance, `close_peer` and `close_all` at any time |
| `retry_pool` | `TypeOK`, `OneOwner`, `OwnAnswer`, `KeepsPromise` | 2 callers with 2 calls each, 3 connections, pool size 1, 3 queues, any 2 disturbances |
| `gossip_churn` | `TypeOK`, `RingDiscoveryAgree`, `RingsConverge` | 3 nodes, only the seed up at first, fan-out 2, any 1 disturbance of 5 kinds |
| `threaded_node` | `TypeOK`, `AgreeUnlessContested`, `DeadEvicted`, `StopReturns` | 2 peers, fan-out 3, 2 handler threads, 2 changes of the environment, gossip discovery (the node is the seed or not) or static discovery |
| `async_stop` | `StopTypeOK`, `StoppedClean`, `StopReturnsUnlessLate` | 2 nodes that may both stop, 3 connections |

Violated, each against a sentence of the documentation (`findings` in
`PROJECT.json` quotes it):

| Run | Property | What TLC shows |
|---|---|---|
| `lww_store_resurrection` | `NoResurrection` | a set is stamped, a newer delete stores its tombstone, a flush drops the tombstone, and the older set is stored. With the flushes taken out TLC finds the other way: a set with ttl replaces the tombstone, expires, and leaves the slot to the older set |
| `repl_stale_read` | `FreshRead` | a write whose first request timed out is reported True; a read that times out at the other replica misses it |
| `gossip_dead_node` | `FailedRemoved` | two nodes evict a dead one and learn it back from each other's answers, for ever |

Bounds. Two threads and three timestamps give every order of two overlapping
writes against a stored third; a ttl of 1 with a clock to 2 reaches the moments
before, at and after a deadline. Four nodes with three replicas put the cut of
the top n inside the ring, at its end and beyond it, and three answers hold a
tie, a tombstone and a missing answer at once. With replication 2 three nodes
have a replica that is local, one that is remote and a coordinator that
is none; two clients give overlapping writes, and a read between the two halves
of a write. Two disturbances are enough for a lost request on each side
of a write/read pair, or for a crash with a request still on its way. Three
gossip nodes are the fewest in which a node can be learnt from a third one. Two
calls per caller and a pool of one socket give reuse, overflow and a late answer
that meets the next call on the same socket. In `threaded_node` two handler
threads and the gossip thread are enough for an addition, a removal and a third
thread in between; two changes let a peer start and end, or end and come back.
In `async_stop` the second connection from b to a lets one be cancelled and
another arrive too late, and the one from a to b lets the two nodes wait for
each other.

`retry_pool`, `threaded_node` and `async_stop` come to an end (every caller has
made its calls, every node has stopped), so their configurations have no
deadlock check. Symmetry is used in the store runs, in `retry_pool` and in
`read_path`, where the initial states have every ranking; never in a run that
checks liveness. `lww_store` has a view without `buriedAt`, which only
`NoResurrection` reads.

Fairness. `CallsFinishUnlessStuck` assumes weak fairness of what the thread or
task of a call does by itself (`Coordinate(c)`: call the next handle, return) and
nothing of the replicas, the network or the timeouts. The waits for an answer are
bounded (5 s), but not every wait is: the mux pool's `sendall` works on a socket
without a timeout (`connection_pool/mux.py:104`, `:164`), and the async pool's
`drain` is outside `wait_for` (`connection_pool/wire.py:24`, called at
`async_.py:69`), so a message larger than the buffers waits as long as a live
peer does not read. The property says that a call which never ends has one
handle that never ends; crashes, restarts, ring changes, exceptions and lost or
late answers do not keep a call. `Gossip` assumes that the event loop
runs each node's rounds and delivers what has arrived (`Round(n)`, `Handle(n)`);
rounds recur because `gossip_loop` never ends, and nodes are not assumed to
start: `RingsConverge` speaks of runs in which all are up from some time on.
`MuxPool` assumes that the threads run, their `sendall` included, and that the
peer reads, and answers what it received unless it closes the connection, and nothing of the five-second
timeout: `CallsReturn` shows that it is needed only for a silent peer and for a
request that `close_all` left in the register queue (`Abandoned`).
`ThreadedNode` assumes that threads run on: the gossip thread goes from round to
round, a handler finishes the job it began, `stop` goes from line to line (its
`join` has a timeout). `AsyncStop` assumes that the event loop runs what is
ready and that a call fails on a connection the server has closed. Neither
assumes that anybody calls, connects, hangs up or stops.

## 4. Proofs

Checked by TLAPS for all values of the constants under the named assumptions
(`Sentinels`, `StoreConstants`, `PlainSentinel`, `RingConstants`,
`ReadConstants`, `ReplicationConstants`, `NoCall`, `GossipConstants`,
`PoolConstants`, `RetryPoolConstants`, `ThreadedConstants`,
`StopConstants`: None and the tombstone are not user values, None is no call,
None and KeyError are no messages and differ,
nodes and connections are finitely many where a cardinality is taken, scores are
injective, the gossip thread is no handler thread, bounds are natural numbers).
Two theorems of `ReplicationProofs` have a hypothesis of their own, which the
violated runs show to be needed; it is given below.

**Store** (`StoreProofs`)

* `TypeCorrect`: `TypeOK` is inductive; one lemma per slot operator says that it
  yields a slot.
* `NewestWinsAlways`: with `TypeOK`, `NewestWins` is inductive. `SetKeepsNewest`
  and `DeleteKeepsNewest` carry the argument: the new entry is one of the old
  writes or the new one, and in both cases not older than any.
* `ExpiryOrderedAlways`: follows from the type of an entry and the order of the
  three comparisons. `VersionsAdvance`: an action property, one case per method.
* `PairImplementsStore`: every step of the pair is a step of `LWWStore`, so its
  theorems hold of the pair. `SameAsPlainAlways`: the live part of an LWW slot
  (`View`) is the plain entry wherever no write was refused; `SetView`,
  `DeleteView` and `ExpiryView` say that each method commutes with `View`, and
  the answers follow.

**Ring and read policies** (`RoutingLemmas`, `ReadPathProofs`)

* `RankingIs` and `GetNodesIs`: a descending order of the ring exists (a node's
  place is one more than the number of nodes that beat it), its i-th node is
  beaten by exactly i - 1 others, and so the first n are `TopN`. `BestIs`: the
  scan of LWW ends with the first of the newest answers, or with nothing if all
  are None. `ScanExists` and `BestIs` are inductions over the list of answers.
  They are made by taking the least length for which the claim fails, since
  the induction theorems of the library cannot be instantiated.
* `RankingIsRight`, `LWWIsRight`, `FHWIsLWWOnAgreement`: the three invariants of
  `read_path` follow from these lemmas and from the type of ring and answers.
* `RemapIsMinimal`: a node beaten by fewer than n of a set is beaten by fewer
  than n of a subset (`TopNShrinks`), so a departure keeps every remaining
  replica and a join brings in only the newcomer. `ReadKeepsRing`: a read in
  progress implements the ring, so this holds while reads run.

**Cluster** (`ReplicationProofs`)

* `WellFormed` is invariant by itself: a call, a late request, an answered write
  and a slot have their fields, and the nodes a call has called are those whose
  answer it has and those whose answer it awaits, without overlap. `StepsAre`
  sorts the steps by what they do (begin, call, serve, answer, finish, ...), and
  the invariants below are shown for these cases.
* `TypeCorrect`: from `WellFormed` and `Bounded`, the part about the bounds of
  clock and counters.
* `AckedWriteHeldAlways`: every way a slot is written (served, repeated, late,
  local, before start) raises its timestamp or keeps it.
* `ReadsAreFresh`, under `Steady`: every ring is complete and the only
  disturbances are repeated requests and handles that raise. Any replication
  factor, clock skew and mixture of sync, async, LWW and FHW nodes is allowed.
  The invariant `Fresh` says that every replica has what finished writes wrote,
  and some replica has what finished LWW reads returned; and for each
  read in progress some replica's version, heard already or still to be heard,
  reaches the floor (for FHW, every replica's). Versions only grow, so an answer
  that was heard never exceeds what the replica has. `repl_stale_read` shows that
  the hypothesis cannot include timeouts.
* `ReplicasDoConverge`, under `Settled`: every ring is complete and the only
  disturbances are repeated requests and lost answers. The invariant `Settling`
  says of the version of each slot and each late request that every replica has
  one as new or is still to be sent one by a call in progress. At rest nothing is
  to be sent, so all versions are equal, and two slots of one version come from
  writes that tied or from the same write. With a lost request or an exception
  in the middle of a write it is false: nothing repairs a replica that missed a
  write.

**Membership** (`GossipProofs`, `NodeProofs`)

* `GossipProofs!TypeCorrect` and `RingDiscoveryAgreeAlways`: the agreement of
  ring and discovery is inductive only together with `NeverToItself` (no
  announcement is addressed to its sender, no node asks itself): otherwise an
  eviction could take a node out of its own ring.
* `NodeProofs!TypeCorrect` and `AgreeUnlessContestedAlways`, for the sync node.
  `AgreeUnlessContested` speaks only of peers nobody is at work on; the invariant
  says what holds meanwhile. For a peer that is not contested all pending
  updates of all threads pull the same way; once no update of the ring is left
  among them the ring is what they make of it; once none is left the two sets
  agree (`Consistent`). It needs `Telling`: whoever changes the ring has the
  update of the discovery behind it. `AddAllTask` shows this of the job that an
  answer with any number of new peers leads to.
* `NodeProofs!StopTypeCorrect` and `StoppedCleanAlways`, for the async nodes:
  the strengthening `StopInOrder` says what each line of `stop` has already
  brought about for the tasks, handlers and connections of its node. In a
  stopped node a connection has a queue to return to only if it was opened
  after `close_all()`.

**Pools** (`MuxPoolProofs`, `RetryPoolProofs`)

* `MuxPoolProofs!TypeCorrect`, `SocketsHaveOneOwner`, `AnswersDoNotCross`,
  `WakeupsAreNotLost`: one invariant `IInv` for the four. `Owned` is `OneOwner`
  said of single sockets (none lost, none shared, among the idle ones, the
  callers, the register queue and the selector); `Clean` says that what is on a
  connection is the request or the answer of whoever owns it, and nothing on an
  idle one. An answer is delivered to the request its socket was registered for,
  which by `Clean` is the one it answers.
* `RetryPoolProofs!TypeCorrect`, `OneOwnerAlways`, `OwnAnswerAlways`: no one of
  the three is inductive alone. The invariant `IInv` joins the type (`Typed`),
  the bound of a queue (`Bounded`), ownership said of single connections
  (`Owned`: every open connection has an owner and only one) and `Clean`, as in
  the mux pool. `Clean` gives `OwnAnswer`, needs `Owned` to say that the others'
  connections are untouched, and gives the type of the answers that are read.
* `RetryPoolProofs!PromiseKept`: `RetryPool` implements `PoolCall`. `Accounted`
  counts the copies of a request that were served or are still to be (`Spent`,
  `Due`): none before a connection was taken, one on a pooled connection, one
  more on the retry; with it each action is one step of `PoolCall` (`Lookup` is
  `Execute`, `Receive` is `Succeed`, a refusal, a cancellation or the last
  failure is `Fail`, a `Fetch` whose queue is gone is `Raise`, both services of
  the peer are `Serve`) or leaves its variables alone. `StepsAre` sorts the
  steps; `Breaks` joins `Fails` and `Cancel`, which differ in the retry only.

Every invariant and action property of the passing runs is proved. Only
model-checked are the liveness properties (`CallsFinishUnlessStuck`, `CallsReturn`,
`RingsConverge`, `DeadEvicted`, `StopReturns`, `StopReturnsUnlessLate`): fairness
and ENABLED are outside the prover.

## 5. Observations

Besides the findings above, reading the code for the models showed:

* `set()` answers True when every replica rejected the write as stale, because
  the dispatcher answers OK whatever `store.set` returned
  (`node/dispatcher.py:31`); `delete()` of a stale timestamp returns True though
  nothing was deleted (`store/lww.py:92-95`), and returns False when the
  pool's retry repeats a delete that had worked.
* At the deadline itself `get()` returns a value that `keys()` and `scan()` no
  longer list (`store/lww.py:73`, `:106`); `ExpiryOrdered` is what does hold.
* Two writes with one timestamp can reach two replicas in opposite orders; each
  keeps the one it served last (`store/lww.py:41`) and nothing reconciles them.
  `ReplicasConverge` allows that and no other difference.
* A value that cannot be pickled makes a remote handle raise
  (`connection_pool/mux.py:101-104`): `set()` ends there, with the write stored
  on the replicas called before, the local one perhaps.
* A node's announcement is sent once and the PEER_LIST handler ignores its
  requester (`peer_comm/gossip.py:192`), so in a cluster of two a node whose
  announcement is lost is never discovered, although it asks the seed in every
  round.
* In the sync node a thread that adds a peer while another drops it can leave it
  in the ring and out of the discovery (`peer_comm/gossip.py:81-83`, `:91-93`),
  where no round checks it any more. `AgreeUnlessContested` shows that nothing
  else pulls the two apart.
* With a static list a peer that was learnt enters the ring but not the list
  (`peer_comm/gossip.py:82`), so rounds never check it; and a listed live peer
  that misses one answer leaves the ring and, where nobody else names it, does
  not come back.
* The gossip thread of the sync node knows no stop flag
  (`peer_comm/gossip.py:55`): `stop()` gives up on it after three seconds, and
  it goes on through the closed pool, evicting everybody. Handler threads are
  not ended either, and the flag is never cleared, so a stopped node cannot be
  started again.
* `stop()` of the async node waits for ever for a connection that was accepted
  after the handlers were cancelled, as long as its client keeps it
  (`node/async_.py:194-198`), and a node closes its own pooled connections only
  after that wait: two nodes that stop together can wait for each other. The
  comment at `:191` says that the cancellation makes `wait_closed()` return
  promptly; `StopReturnsUnlessLate` shows that this connection is the only
  exception.
* On `close_all()` the mux pool wakes the callers of registered sockets; one
  whose socket is still in the register queue waits out its five seconds
  (`connection_pool/mux.py:218-222`).
* `_queue()` of the plain sync pool makes a queue under its lock and looks it up
  again (`connection_pool/sync.py:50-51`), while `close_peer()` pops without the
  lock (`:127`): in between, `execute()` ends with a KeyError. Gossip takes it
  for an unresponsive peer; `set()` and `delete()` end with it in the middle of
  their replicas, and out of `announce_leave()` it ends `stop()` before anything
  was stopped. `close_all()` iterates over the table (`:137`), which another
  thread's new queue changes: a RuntimeError.
* A task cancelled inside `execute()` of the async pool drops its connection
  without a retry (`connection_pool/async_.py:79`): CancelledError is no
  Exception.
* An API call that overlaps `stop()` of an async node and looks its queue up
  after `close_all()` (`node/async_.py:198`) makes a new queue and leaves its
  connection pooled in a stopped node; `StoppedClean` shows that this is all
  that can be left.
* A queue with `max_per_peer` 0 has no limit (`queue.LifoQueue`,
  `asyncio.LifoQueue`), where the mux pool with 0 keeps nothing idle.
* A connection that comes back after `close_peer()` goes into a queue that is no
  longer in the table (`connection_pool/sync.py:90`, `:127`) and is closed only
  by the garbage collector.
* Data does not follow the ring: a key written before two higher-ranked nodes
  joined is not found through them.
* The docstring of the node says replication defaults to 3, the code has 2
  (`node/sync.py:132`, `:146`); comments call the mux pool's idle sockets LIFO,
  they are a FIFO (`connection_pool/mux.py:155`, `:181`).
* The default ring and pool arguments are shared by all nodes of a process
  (`node/sync.py:143-144`).

## 6. Not modelled

* DNS and A-record discovery, message and node types: one resolver call, or
  plain records; they keep no state.
* The length prefix and pickle of the wire format, and reads of part of a
  frame: an answer is read as a whole.
* The ttl of a write in the cluster: each replica counts it from its own
  monotonic clock; what expiry does to one store is in `LWWStore`.
* Benchmarks, profilers, examples.

## 7. Open ends

* A `Framing` module: the incremental reader of the mux pool refines the
  blocking one.
* An abstract register that `Replication` implements when nothing fails; ttl in
  the cluster.

---------------------------- MODULE Replication -----------------------------
(***************************************************************************)
(* The replicated key-value store: StorageNode and AsyncStorageNode        *)
(* (dlstorage/node/sync.py, node/async_.py) as coordinators, their replica *)
(* handles, the message dispatcher and the LWW store of every node, seen   *)
(* from one key (no operation of the API touches two).  A client runs one  *)
(* API call at a time on some node; the call asks the top Replication      *)
(* nodes of that node's ring, one after the other (sync) or at once        *)
(* (async), and each remote handle is one request over the connection      *)
(* pool, which may fail, be delayed past its timeout or be sent twice.     *)
(* Writes carry no ttl here; LWWStore covers expiry.                       *)
(***************************************************************************)
EXTENDS MergeResolver, Rendezvous

CONSTANTS
  Nodes,
  Clients,
  Score,          \* _score(node, key) of the one key
  Replication,    \* the replication parameter of the node
  Concurrent,     \* the async nodes, whose writes and LWW reads asyncio.gather
  FirstHit,       \* the nodes with the FHW merge policy; the others have LWW
  InitRing,       \* the ring of each node at first, {} before start()
  Peers,          \* what discovery.get_peers() returns
  Skew,           \* how far a coordinator's clock may lag the newest stamp
  MaxTs,          \* bound on the timestamps handed out
  Disturbances,   \* the kinds of disturbance a run allows
  MaxDisturbed    \* bound on their number

ASSUME ReplicationConstants ==
  /\ IsFiniteSet(Nodes)
  /\ Score \in [Nodes -> Nat]
  /\ \A a, b \in Nodes : Score[a] = Score[b] => a = b
  /\ Replication \in Nat \ {0}
  /\ Concurrent \subseteq Nodes /\ FirstHit \subseteq Nodes
  /\ InitRing \in [Nodes -> SUBSET Nodes]
  /\ Peers \subseteq Nodes
  /\ Skew \in Nat /\ MaxTs \in Nat /\ MaxDisturbed \in Nat
  /\ Disturbances \subseteq {"timeout", "reply", "retry", "raise", "crash", "join", "evict"}

(* An API call in progress. *)
Reply == VersionedValue \cup {None} \cup BOOLEAN

Replies == UNION {[D -> Reply] : D \in SUBSET Nodes}

Call ==
  [kind : {"set", "delete", "get"}, at : Nodes, value : Values \cup {TOMBSTONE, None},
   ts : Nat, order : Seq(Nodes), called : Nat, sent : SUBSET Nodes,
   res : Replies, floor : Nat]

ASSUME NoCall == None \notin Call

VARIABLES
  store,      \* per node, the slot of the key in _store
  ring,       \* per node, the members of _ring; {} for a node not started
  op,         \* per client, the API call in progress or None
  late,       \* write requests whose caller has given up, still on the wire
  clock,      \* the newest timestamp handed out by time.time_ns()
  disturbed,  \* how many disturbances happened
  acks,       \* history: the writes each node has answered since it started
  floor       \* history: the newest version written, and known, by finished calls

vars == <<store, ring, op, late, clock, disturbed, acks, floor>>

Max2(a, b) == IF a > b THEN a ELSE b

-----------------------------------------------------------------------------
(* One replica serving one request. *)
NewSlot(kind, e, v, ts) ==
  CASE kind = "set"    -> SetEntry(e, v, None, ts)
    [] kind = "delete" -> DeleteEntry(e, ts)
    [] kind = "get"    -> e

(* dispatch() and the remote handle that reads its answer: SET is answered *)
(* OK whether or not the store took it, DELETE is OK if an entry lived.    *)
RemoteReply(kind, e) ==
  CASE kind = "set"    -> TRUE
    [] kind = "delete" -> Lived(e)
    [] kind = "get"    -> Versioned(e, 0)

(* The local handle returns what the store returns. *)
LocalReply(kind, e, ts) ==
  IF kind = "set" THEN SetAccepts(e, ts) ELSE RemoteReply(kind, e)

(* What a handle makes of an execute() that returned None. *)
NoReply(kind) == IF kind = "get" THEN None ELSE FALSE

(* The answer of replica m is in: res with r for m. *)
With(res, m, r) == [x \in DOMAIN res \cup {m} |-> IF x = m THEN r ELSE res[x]]

(* A write answered by node n. *)
Acked(n, v, ts) == [node |-> n, value |-> v, ts |-> ts]

Request(o, m) == [dst |-> m, kind |-> o.kind, value |-> o.value, ts |-> o.ts]

-----------------------------------------------------------------------------
Init ==
  /\ store = [n \in Nodes |-> None]
  /\ ring = InitRing
  /\ op = [c \in Clients |-> None]
  /\ late = {}
  /\ clock = 0
  /\ disturbed = 0
  /\ acks = {}
  /\ floor = [written |-> 0, known |-> 0]

(* The timestamps time.time_ns() may give a coordinator now. *)
Stamp == {ts \in 1..MaxTs : ts <= clock + 1 /\ ts + Skew > clock}

(* The oldest version a read that node n begins now may return: FHW        *)
(* compares no timestamps (fhw.py:21), so only finished writes bind it.    *)
FloorAt(n) == IF n \in FirstHit THEN floor.written ELSE floor.known

(* set(), delete() and get(): look up the ring, then the clock. *)
NewOp(n, kind, v, ts) ==
  [kind |-> kind, at |-> n, value |-> v, ts |-> ts,
   order |-> GetNodes(ring[n], Score, Replication),
   called |-> 0, sent |-> {}, res |-> <<>>,
   floor |-> IF kind = "get" THEN FloorAt(n) ELSE 0]

BeginWrite(c, n, kind, v, ts) ==
  /\ op[c] = None
  /\ ring[n] # {}
  /\ op' = [op EXCEPT ![c] = NewOp(n, kind, v, ts)]
  /\ clock' = Max2(clock, ts)
  /\ UNCHANGED <<store, ring, late, disturbed, acks, floor>>

BeginGet(c, n) ==
  /\ op[c] = None
  /\ ring[n] # {}
  /\ op' = [op EXCEPT ![c] = NewOp(n, "get", None, 0)]
  /\ UNCHANGED <<store, ring, late, clock, disturbed, acks, floor>>

(* With an empty ring, a write made before start() stays on the local      *)
(* store; a read then changes nothing and answers from that store.         *)
WriteBeforeStart(c, n, kind, v, ts) ==
  /\ op[c] = None
  /\ ring[n] = {}
  /\ store' = [store EXCEPT ![n] = NewSlot(kind, @, v, ts)]
  /\ clock' = Max2(clock, ts)
  /\ acks' = acks \cup {Acked(n, v, ts)}
  /\ UNCHANGED <<ring, op, late, disturbed, floor>>

-----------------------------------------------------------------------------
(* The next handle may be called: gather starts every handle, the sync     *)
(* node and FHW wait for the previous answer, and FHW stops at a hit.      *)
FirstHitRead(o) == o.at \in FirstHit /\ o.kind = "get"

Hit(o) == FirstHitRead(o) /\ \E m \in DOMAIN o.res : IsHit(o.res[m])

MayCall(o) ==
  /\ o # None
  /\ o.called < Len(o.order)
  /\ (o.at \in Concurrent /\ ~FirstHitRead(o)) \/ o.sent = {}
  /\ ~Hit(o)

(* The replica m answers the call of client c with r. *)
Answer_StaysSent(c, m, r) ==
  [op EXCEPT ![c].res = With(@, m, r)]

Answer(c, m, r) ==
  [op EXCEPT ![c].sent = @ \ {m}, ![c].res = With(@, m, r)]

Ack(o, m) ==
  IF o.kind = "get" THEN acks ELSE acks \cup {Acked(m, o.value, o.ts)}

CallLocal(c, n) ==
  LET o == op[c] IN
  /\ MayCall(o)
  /\ o.at = n /\ o.order[o.called + 1] = n
  /\ op' = [Answer(c, n, LocalReply(o.kind, store[n], o.ts)) EXCEPT ![c].called = @ + 1]
  /\ store' = [store EXCEPT ![n] = NewSlot(o.kind, @, o.value, o.ts)]
  /\ acks' = Ack(o, n)
  /\ UNCHANGED <<ring, late, clock, disturbed, floor>>

CallRemote(c, m) ==
  LET o == op[c] IN
  /\ MayCall(o)
  /\ o.at # m /\ o.order[o.called + 1] = m
  /\ op' = [op EXCEPT ![c].called = @ + 1, ![c].sent = @ \cup {m}]
  /\ UNCHANGED <<store, ring, late, clock, disturbed, acks, floor>>

(* A started replica serves the request. *)
Serve(c, m) ==
  LET o == op[c] IN
  /\ o # None /\ m \in o.sent
  /\ ring[m] # {}
  /\ op' = Answer(c, m, RemoteReply(o.kind, store[m]))
  /\ store' = [store EXCEPT ![m] = NewSlot(o.kind, @, o.value, o.ts)]
  /\ acks' = Ack(o, m)
  /\ UNCHANGED <<ring, late, clock, disturbed, floor>>

(* Nobody listens at m: execute() returns None. *)
Refused(c, m) ==
  LET o == op[c] IN
  /\ o # None /\ m \in o.sent
  /\ ring[m] = {}
  /\ op' = Answer(c, m, NoReply(o.kind))
  /\ UNCHANGED <<store, ring, late, clock, disturbed, acks, floor>>

(* Every handle has answered: any(results) for a write, read_resolve() for *)
(* a read.                                                                 *)
Complete_NeedsSuccess(o) ==
  /\ o # None /\ o.sent = {} /\ o.called = Len(o.order)
  /\ \E m \in DOMAIN o.res : o.res[m] # NoReply(o.kind)

Complete(o) == o # None /\ o.sent = {} /\ (o.called = Len(o.order) \/ Hit(o))

Results(o) == [i \in 1..o.called |-> o.res[o.order[i]]]

(* The version a read returns: that of the hit, or the newest it was told. *)
ReadVersion(o) ==
  IF Hit(o) THEN Results(o)[SelectInSeq(Results(o), IsHit)].ts
  ELSE Max2(0, Best(Results(o)).ts)

WriteOk(o) == \E m \in DOMAIN o.res : o.res[m] = TRUE

(* What later callers may count on once the call has returned: a write     *)
(* reported successful, and the version an LWW read compared.              *)
Raised(o) ==
  LET w == IF o.kind # "get" /\ WriteOk(o) THEN o.ts ELSE 0
      r == IF o.kind = "get" /\ ~FirstHitRead(o) THEN ReadVersion(o) ELSE 0
  IN  [written |-> Max2(floor.written, w), known |-> Max2(floor.known, Max2(w, r))]

Finish(c) ==
  /\ Complete(op[c])
  /\ floor' = Raised(op[c])
  /\ op' = [op EXCEPT ![c] = None]
  /\ UNCHANGED <<store, ring, late, clock, disturbed, acks>>

-----------------------------------------------------------------------------
(* Disturbances. *)
Disturb(kind) ==
  /\ kind \in Disturbances
  /\ disturbed < MaxDisturbed
  /\ disturbed' = disturbed + 1

(* The pool gives up on an unanswered request, which is lost or still      *)
(* reaches the replica later.                                              *)
TimeOut(c, m) ==
  LET o == op[c] IN
  /\ Disturb("timeout")
  /\ o # None /\ m \in o.sent
  /\ op' = Answer(c, m, NoReply(o.kind))
  /\ \/ late' = late
     \/ o.kind # "get" /\ late' = late \cup {Request(o, m)}
  /\ UNCHANGED <<store, ring, clock, acks, floor>>

(* The replica serves the request but its answer does not come in time. *)
LoseReply(c, m) ==
  LET o == op[c] IN
  /\ Disturb("reply")
  /\ o # None /\ m \in o.sent /\ ring[m] # {}
  /\ op' = Answer(c, m, NoReply(o.kind))
  /\ store' = [store EXCEPT ![m] = NewSlot(o.kind, @, o.value, o.ts)]
  /\ acks' = Ack(o, m)
  /\ UNCHANGED <<ring, late, clock, floor>>

(* A pooled connection breaks before the answer: the pool sends the        *)
(* request again on a fresh one, and the replica serves the first copy now *)
(* or later.                                                               *)
Retry(c, m) ==
  LET o == op[c] IN
  /\ Disturb("retry")
  /\ o # None /\ m \in o.sent
  /\ \/ /\ ring[m] # {}
        /\ store' = [store EXCEPT ![m] = NewSlot(o.kind, @, o.value, o.ts)]
        /\ acks' = Ack(o, m)
        /\ UNCHANGED late
     \/ /\ o.kind # "get"
        /\ late' = late \cup {Request(o, m)}
        /\ UNCHANGED <<store, acks>>
  /\ UNCHANGED <<op, ring, clock, floor>>

(* execute() raises before it sends: the mux pool cannot pickle the value, *)
(* or the plain pool loses its queue to a close_peer() (sync.py:51).  The  *)
(* write of a sync node ends with the exception, the replicas called so    *)
(* far having served it; a read takes an exception for None, as TimeOut.   *)
Raise(c) ==
  LET o == op[c] IN
  /\ Disturb("raise")
  /\ MayCall(o) /\ o.kind # "get" /\ o.at \notin Concurrent
  /\ o.order[o.called + 1] # o.at
  /\ op' = [op EXCEPT ![c] = None]
  /\ UNCHANGED <<store, ring, late, clock, acks, floor>>

(* A request nobody waits for any more is served all the same. *)
ServeLate(r) ==
  /\ r \in late
  /\ ring[r.dst] # {}
  /\ store' = [store EXCEPT ![r.dst] = NewSlot(r.kind, @, r.value, r.ts)]
  /\ acks' = acks \cup {Acked(r.dst, r.value, r.ts)}
  /\ late' = late \ {r}
  /\ UNCHANGED <<ring, op, clock, disturbed, floor>>

(* The process dies with its store and its calls; a new one is constructed. *)
Crash(n) ==
  /\ Disturb("crash")
  /\ store' = [store EXCEPT ![n] = None]
  /\ ring' = [ring EXCEPT ![n] = {}]
  /\ op' = [c \in Clients |-> IF op[c] # None /\ op[c].at = n THEN None ELSE op[c]]
  /\ late' = {r \in late : r.dst # n}
  /\ acks' = {a \in acks : a.node # n}
  /\ UNCHANGED <<clock, floor>>

(* start(): bootstrap the ring from discovery, add the node itself, listen. *)
Start(n) ==
  /\ ring[n] = {}
  /\ ring' = [ring EXCEPT ![n] = Peers \cup {n}]
  /\ UNCHANGED <<store, op, late, clock, disturbed, acks, floor>>

(* Membership learnt or dropped by gossip. *)
Join(n, p) ==
  /\ Disturb("join")
  /\ ring[n] # {} /\ p \notin ring[n]
  /\ ring' = [ring EXCEPT ![n] = @ \cup {p}]
  /\ UNCHANGED <<store, op, late, clock, acks, floor>>

Evict(n, p) ==
  /\ Disturb("evict")
  /\ p # n /\ p \in ring[n]
  /\ ring' = [ring EXCEPT ![n] = @ \ {p}]
  /\ UNCHANGED <<store, op, late, clock, acks, floor>>

(* What the thread or task of the call does by itself. *)
Coordinate(c) ==
  \/ \E n \in Nodes : CallLocal(c, n) \/ CallRemote(c, n)
  \/ Finish(c)

Step(c) == Coordinate(c) \/ \E n \in Nodes : Serve(c, n) \/ Refused(c, n)

Next ==
  \/ \E c \in Clients, n \in Nodes :
       \/ \E ts \in Stamp :
            \/ \E v \in Values : BeginWrite(c, n, "set", v, ts)
            \/ BeginWrite(c, n, "delete", TOMBSTONE, ts)
            \/ \E v \in Values : WriteBeforeStart(c, n, "set", v, ts)
            \/ WriteBeforeStart(c, n, "delete", TOMBSTONE, ts)
       \/ BeginGet(c, n)
       \/ TimeOut(c, n) \/ LoseReply(c, n) \/ Retry(c, n)
  \/ \E c \in Clients : Step(c) \/ Raise(c)
  \/ \E r \in late : ServeLate(r)
  \/ \E n \in Nodes : Crash(n) \/ Start(n)
  \/ \E n, p \in Nodes : Join(n, p) \/ Evict(n, p)

Spec == Init /\ [][Next]_vars

(* The coordinator runs on.  That a request is answered, refused or given  *)
(* up is not assumed: the send of the mux pool (mux.py:104) and that of    *)
(* the async pool (wire.py:24) wait without a timeout.                     *)
FairSpec == Spec /\ \A c \in Clients : WF_vars(Coordinate(c))

-----------------------------------------------------------------------------
Result(kind) == IF kind = "get" THEN VersionedValue \cup {None} ELSE BOOLEAN

TypeOK ==
  /\ store \in [Nodes -> Slot]
  /\ ring \in [Nodes -> SUBSET Nodes]
  /\ \A c \in Clients : op[c] # None =>
       /\ op[c].kind \in {"set", "delete", "get"}
       /\ op[c].at \in Nodes
       /\ op[c].order \in Seq(Nodes)
       /\ op[c].called \in 0..Len(op[c].order)
       /\ op[c].sent \subseteq Nodes
       /\ \A m \in DOMAIN op[c].res : m \in Nodes /\ op[c].res[m] \in Result(op[c].kind)
       /\ \A i \in 1..op[c].called :
            (op[c].order[i] \in op[c].sent) # (op[c].order[i] \in DOMAIN op[c].res)
  /\ \A r \in late : r.dst \in Nodes /\ r.kind \in {"set", "delete"}
  /\ clock \in 0..MaxTs
  /\ disturbed \in 0..MaxDisturbed
  /\ floor \in [written : 0..MaxTs, known : 0..MaxTs]

(* A replica that has answered a write keeps it until it crashes: whatever *)
(* is delivered afterwards, late, twice or out of order, the slot holds    *)
(* that write or a newer one.  Rests on set() and delete() comparing       *)
(* timestamps (lww.py:41, :93) and on the coordinator stamping a write     *)
(* once, before the fan-out (sync.py:240, :253).                           *)
AckedWriteHeld ==
  \A a \in acks : store[a.node] # None /\ store[a.node].ts >= a.ts

(* A read returns a version at least as new as every write that was        *)
(* reported successful before the read began and, under LWW, every version *)
(* an earlier LWW read returned: "the advantage of always returning the most   *)
(* up-to-date value, as long as the timestamps are properly synchronized   *)
(* across replicas" (consistency/lww.py:27).  An FHW read may go back in   *)
(* time while a write is in progress (fhw.py:21).                          *)
FreshRead ==
  \A c \in Clients :
    Complete(op[c]) /\ op[c].kind = "get" => ReadVersion(op[c]) >= op[c].floor

(* Once no call is in progress and no request is on the wire, the replicas *)
(* of the key are at the same version ("eventually consistent merge        *)
(* policies for conflict resolution", README.md:3), and hold the same      *)
(* entry unless two different writes were stamped alike: an equal          *)
(* timestamp overwrites (lww.py:41, :93), so each replica then keeps the   *)
(* one that reached it last, and no read ever repairs that.                *)
Quiet == late = {} /\ \A c \in Clients : op[c] = None

Tied(ts) == \E a, b \in acks : a.ts = ts /\ b.ts = ts /\ a.value # b.value

ReplicasConverge ==
  Quiet => \A n, m \in TopN(Nodes, Score, Replication) :
    \/ store[n] = store[m]
    \/ store[n] # None /\ store[m] # None /\ store[n].ts = store[m].ts /\ Tied(store[n].ts)

(* An API call returns, or it waits for ever for one replica that neither  *)
(* answers nor refuses and on which the pool never gives up: no handle     *)
(* that returned, with an answer, None or False, keeps any() or            *)
(* read_resolve() (sync.py:246-248, async_.py:241-245) from going on,      *)
(* whatever the timeouts, crashes, repeated requests and ring changes.     *)
CallsFinishUnlessStuck ==
  \A c \in Clients :
    \/ []<>(op[c] = None)
    \/ \E m \in Nodes : <>[](op[c] # None /\ m \in op[c].sent)
=============================================================================

-------------------------- MODULE ReplicationProofs -------------------------
(***************************************************************************)
(* Proofs about Replication, for every set of nodes, clients and values,   *)
(* every ring, both merge policies, both kinds of node and any number of   *)
(* lost, late or repeated requests, crashes and ring changes; the last     *)
(* two theorems name the disturbances they allow.                          *)
(***************************************************************************)
EXTENDS Replication, RoutingLemmas

-----------------------------------------------------------------------------
(* The arguments a replica is served with, by a call or by a late request. *)
Served(kind, v, ts) ==
  /\ kind \in {"set", "delete", "get"}
  /\ kind = "set" => v \in Values
  /\ kind = "delete" => v = TOMBSTONE
  /\ ts \in Nat

(* Serving a request leaves a slot that is not older, and a write leaves   *)
(* one at least as new as itself (dispatcher.py, lww.py:39-44, :90-95).    *)
LEMMA NewSlotNotOlder ==
  ASSUME NEW e \in Slot, NEW kind, NEW v, NEW ts, Served(kind, v, ts)
  PROVE  /\ NewSlot(kind, e, v, ts) \in Slot
         /\ e # None => NewSlot(kind, e, v, ts) # None /\ NewSlot(kind, e, v, ts).ts >= e.ts
         /\ kind # "get" => NewSlot(kind, e, v, ts) # None /\ NewSlot(kind, e, v, ts).ts >= ts
<1>0. ts \in Nat /\ (e # None => e \in Entry /\ e.ts \in Nat)
  BY DEF Served, Slot, Entry
<1>1. CASE kind = "set"
  <2>1. [value |-> v, exp |-> None, ts |-> ts] \in Entry
    BY <1>1 DEF Entry, Served
  <2>2. NewSlot(kind, e, v, ts) = SetEntry(e, v, None, ts)
    BY <1>1 DEF NewSlot
  <2> QED
    BY <1>0, <2>1, <2>2, Sentinels DEF SetEntry, SetAccepts, Slot
<1>2. CASE kind = "delete"
  <2>1. Buried(ts) \in Entry
    BY <1>0 DEF Entry, Buried
  <2>2. NewSlot(kind, e, v, ts) = DeleteEntry(e, ts)
    BY <1>2 DEF NewSlot
  <2> QED
    BY <1>0, <2>1, <2>2, Sentinels DEF DeleteEntry, Buried, Slot
<1>3. CASE kind = "get"
  BY <1>0, <1>3 DEF NewSlot
<1> QED
  BY <1>1, <1>2, <1>3 DEF Served

(* The slot stays, or holds the write. *)
Holding(v, ts) == [value |-> v, exp |-> None, ts |-> ts]

LEMMA NewSlotIs ==
  ASSUME NEW e \in Slot, NEW kind, NEW v, NEW ts, Served(kind, v, ts)
  PROVE  \/ NewSlot(kind, e, v, ts) = e
         \/ kind # "get" /\ NewSlot(kind, e, v, ts) = Holding(v, ts)
  BY DEF Served, NewSlot, SetEntry, DeleteEntry, Buried, Holding

-----------------------------------------------------------------------------
(* What the handles return is a reply of the kind of the call, and a read  *)
(* is told the version the store has.                                      *)
LEMMA ReplyTypes ==
  ASSUME NEW e \in Slot, NEW kind \in {"set", "delete", "get"}, NEW ts \in Nat
  PROVE  /\ NoReply(kind) \in Result(kind)
         /\ RemoteReply(kind, e) \in Result(kind)
         /\ LocalReply(kind, e, ts) \in Result(kind)
<1>1. Versioned(e, 0) \in VersionedValue \cup {None}
  <2>1. CASE e = None
    BY <2>1 DEF Versioned
  <2>2. CASE e # None
    <3>1. e \in Entry
      BY <2>2 DEF Slot
    <3>2. [value |-> IF e.value = TOMBSTONE THEN None ELSE e.value,
           ts |-> e.ts, tombstone |-> e.value = TOMBSTONE] \in VersionedValue
      BY <3>1 DEF Entry, VersionedValue
    <3> QED
      BY <3>2 DEF Versioned
  <2> QED
    BY <2>1, <2>2
<1>2. Lived(e) \in BOOLEAN /\ SetAccepts(e, ts) \in BOOLEAN
  BY DEF Lived, SetAccepts
<1> QED
  BY <1>1, <1>2 DEF NoReply, RemoteReply, LocalReply, Result

LEMMA ToldVersion ==
  ASSUME NEW e \in Slot
  PROVE  /\ e # None => Versioned(e, 0) # None /\ Versioned(e, 0).ts = e.ts /\ e.ts \in Nat
         /\ e = None => Versioned(e, 0) = None
<1>1. ASSUME e # None PROVE Versioned(e, 0) # None /\ Versioned(e, 0).ts = e.ts /\ e.ts \in Nat
  <2>1. e \in Entry
    BY <1>1 DEF Slot
  <2>2. e.exp # None => ~(0 > e.exp)
    BY <2>1 DEF Entry
  <2>3. ~PastDeadline(e, 0)
    BY <2>2 DEF PastDeadline
  <2> DEFINE v == [value |-> IF e.value = TOMBSTONE THEN None ELSE e.value,
                   ts |-> e.ts, tombstone |-> e.value = TOMBSTONE]
  <2>4. v \in VersionedValue /\ v.ts = e.ts
    BY <2>1 DEF Entry, VersionedValue
  <2>5. Versioned(e, 0) = v
    BY <1>1, <2>3 DEF Versioned
  <2> QED
    BY <2>1, <2>4, <2>5, Sentinels DEF Entry
<1> QED
  BY <1>1 DEF Versioned

(* The nodes a call asks: some nodes, each once; with every node in the    *)
(* ring, the replicas of the key.                                          *)
LEMMA OrderIs ==
  ASSUME NEW R \in SUBSET Nodes, NEW g, g = GetNodes(R, Score, Replication)
  PROVE  /\ Len(g) \in Nat /\ g \in Seq(Nodes)
         /\ \A i, j \in 1..Len(g) : g[i] = g[j] => i = j
         /\ \A x : x \in TopN(R, Score, Replication) <=> \E i \in 1..Len(g) : x = g[i]
<1>1. Ranked(R, Score) /\ Replication \in Nat
  BY ReplicationConstants, FS_Subset DEF Ranked
<1>2. /\ Len(g) \in Nat /\ g \in [1..Len(g) -> R] /\ g \in Seq(R)
      /\ \A i, j \in 1..Len(g) : i < j => Score[g[i]] > Score[g[j]]
      /\ \A x : x \in TopN(R, Score, Replication) <=> \E i \in 1..Len(g) : x = g[i]
  BY <1>1, GetNodesIs
<1>3. g \in Seq(Nodes)
  BY <1>2
<1>4. ASSUME NEW i \in 1..Len(g), NEW j \in 1..Len(g), g[i] = g[j] PROVE i = j
  <2>1. Score[g[i]] \in Nat /\ Score[g[j]] \in Nat
    BY <1>1, <1>2 DEF Ranked
  <2>2. ~(i < j) /\ ~(j < i)
    BY <1>2, <1>4, <2>1
  <2> QED
    BY <1>2, <2>2
<1> QED
  BY <1>2, <1>3, <1>4

-----------------------------------------------------------------------------
(* A call in progress: the nodes it has called are those that have         *)
(* answered and those whose answer it waits for, never both.               *)
CallOK(o) ==
  /\ o \in Call
  /\ Served(o.kind, o.value, o.ts)
  /\ o.called \in 0..Len(o.order)
  /\ \A i, j \in 1..Len(o.order) : o.order[i] = o.order[j] => i = j
  /\ \A m \in o.sent : m \notin DOMAIN o.res
  /\ \A m : m \in o.sent \/ m \in DOMAIN o.res <=> \E i \in 1..o.called : m = o.order[i]
  /\ \A m \in DOMAIN o.res : o.res[m] \in Result(o.kind)

CallsOK(f) ==
  /\ f \in [Clients -> Call \cup {None}]
  /\ \A c \in Clients : f[c] # None => CallOK(f[c])

RequestOK(r) == r.dst \in Nodes /\ r.kind # "get" /\ Served(r.kind, r.value, r.ts)

AcksOK(as) == \A a \in as : a.node \in Nodes /\ a.ts \in Nat

WellFormed ==
  /\ store \in [Nodes -> Slot]
  /\ ring \in [Nodes -> SUBSET Nodes]
  /\ CallsOK(op)
  /\ \A r \in late : RequestOK(r)
  /\ AcksOK(acks)
  /\ floor \in [written : Nat, known : Nat]

(* The reply of one more replica. *)
LEMMA WithIs ==
  ASSUME NEW o \in Call, NEW m \in Nodes, NEW r \in Reply, NEW w, w = With(o.res, m, r)
  PROVE  /\ w \in Replies
         /\ DOMAIN w = DOMAIN o.res \cup {m}
         /\ w[m] = r
         /\ \A x \in DOMAIN o.res : x # m => w[x] = o.res[x]
<1>1. PICK D \in SUBSET Nodes : o.res \in [D -> Reply]
  <2>1. o.res \in Replies
    BY DEF Call
  <2> QED
    BY <2>1 DEF Replies
<1>2. DOMAIN o.res = D
  BY <1>1
<1>3. w = [x \in D \cup {m} |-> IF x = m THEN r ELSE o.res[x]]
  BY <1>2 DEF With
<1>4. w \in [D \cup {m} -> Reply] /\ D \cup {m} \in SUBSET Nodes
  BY <1>1, <1>3
<1> QED
  BY <1>2, <1>3, <1>4 DEF Replies

(* The call o after the reply r of m, having called k more. *)
Updated(o, p, m, r, k) ==
  /\ p \in Call
  /\ p.kind = o.kind /\ p.at = o.at /\ p.value = o.value /\ p.ts = o.ts
  /\ p.order = o.order /\ p.floor = o.floor
  /\ p.called = o.called + k
  /\ p.sent = o.sent \ {m}
  /\ DOMAIN p.res = DOMAIN o.res \cup {m}
  /\ p.res[m] = r
  /\ \A x \in DOMAIN o.res : x # m => p.res[x] = o.res[x]

LEMMA AnswerIs ==
  ASSUME CallsOK(op), NEW c \in Clients, op[c] # None, NEW m \in Nodes, NEW r \in Reply,
         NEW q, q = Answer(c, m, r)
  PROVE  /\ q \in [Clients -> Call \cup {None}]
         /\ Updated(op[c], q[c], m, r, 0)
         /\ \A d \in Clients : d # c => q[d] = op[d]
<1>1. op[c] \in Call
  BY DEF CallsOK, CallOK
<1>2. PICK o \in Call : o = op[c]
  BY <1>1
<1>3. PICK w : w = With(o.res, m, r)
  OBVIOUS
<1>4. /\ w \in Replies
      /\ DOMAIN w = DOMAIN o.res \cup {m}
      /\ w[m] = r
      /\ \A x \in DOMAIN o.res : x # m => w[x] = o.res[x]
  BY <1>1, <1>2, <1>3, WithIs
<1>5. q = [op EXCEPT ![c].sent = o.sent \ {m}, ![c].res = w]
  BY <1>2, <1>3 DEF Answer
<1>6. q[c] = [o EXCEPT !.sent = o.sent \ {m}, !.res = w] /\ \A d \in Clients : d # c => q[d] = op[d]
  BY <1>2, <1>5 DEF CallsOK
<1>7. q[c] = [kind |-> o.kind, at |-> o.at, value |-> o.value, ts |-> o.ts, order |-> o.order,
              called |-> o.called, sent |-> o.sent \ {m}, res |-> w, floor |-> o.floor]
  BY <1>1, <1>2, <1>6 DEF Call
<1>8. o \in Call /\ o.called \in Nat
  BY <1>1, <1>2 DEF Call
<1>9. q[c] \in Call
  <2>1. /\ o.kind \in {"set", "delete", "get"} /\ o.at \in Nodes /\ o.value \in Values \cup {TOMBSTONE, None}
        /\ o.ts \in Nat /\ o.order \in Seq(Nodes) /\ o.called \in Nat /\ o.sent \ {m} \in SUBSET Nodes
        /\ o.floor \in Nat
    BY <1>8 DEF Call
  <2> QED
    BY <1>4, <1>7, <2>1 DEF Call
<1>10. Updated(o, q[c], m, r, 0)
  <2>1. /\ q[c].kind = o.kind /\ q[c].at = o.at /\ q[c].value = o.value /\ q[c].ts = o.ts
        /\ q[c].order = o.order /\ q[c].floor = o.floor /\ q[c].called = o.called
        /\ q[c].sent = o.sent \ {m} /\ q[c].res = w
    BY <1>7
  <2> QED
    BY <1>4, <1>8, <1>9, <2>1 DEF Updated
<1>11. q \in [Clients -> Call \cup {None}]
  <2>1. q = [d \in Clients |-> q[d]]
    BY <1>5 DEF CallsOK
  <2>2. \A d \in Clients : q[d] \in Call \cup {None}
    BY <1>6, <1>9 DEF CallsOK
  <2> QED
    BY <2>1, <2>2
<1> QED
  BY <1>2, <1>6, <1>10, <1>11

(* The call o with one more request on the wire, to m. *)
Asked(o, p, m) ==
  /\ p \in Call
  /\ p.kind = o.kind /\ p.at = o.at /\ p.value = o.value /\ p.ts = o.ts
  /\ p.order = o.order /\ p.floor = o.floor
  /\ p.called = o.called + 1
  /\ p.sent = o.sent \cup {m}
  /\ p.res = o.res

(* Only the call of c moves. *)
Moves(c, q) ==
  /\ q \in [Clients -> Call \cup {None}]
  /\ \A d \in Clients : d # c => q[d] = op[d]

LEMMA MovesKeeps ==
  ASSUME CallsOK(op), NEW c \in Clients, NEW q, Moves(c, q), q[c] # None => CallOK(q[c])
  PROVE  CallsOK(q)
  BY DEF CallsOK, Moves

(* The ways a call moves keep it well formed. *)
LEMMA AnsweredKeeps ==
  ASSUME NEW o, NEW p, CallOK(o), NEW m \in o.sent, NEW r \in Result(o.kind),
         Updated(o, p, m, r, 0)
  PROVE  CallOK(p)
<1>1. p.called = o.called /\ p.called \in 0..Len(p.order) /\ p.order = o.order
  BY DEF CallOK, Updated, Call
<1>2. \A x \in p.sent : x \notin DOMAIN p.res
  BY DEF CallOK, Updated
<1>3. \A x : x \in p.sent \/ x \in DOMAIN p.res <=> x \in o.sent \/ x \in DOMAIN o.res
  BY DEF Updated
<1>4. \A x : x \in p.sent \/ x \in DOMAIN p.res <=> \E i \in 1..p.called : x = p.order[i]
  BY <1>1, <1>3 DEF CallOK
<1>5. \A x \in DOMAIN p.res : p.res[x] \in Result(p.kind)
  BY DEF CallOK, Updated
<1> QED
  BY <1>1, <1>2, <1>4, <1>5 DEF CallOK, Updated

LEMMA CalledOneMore ==
  ASSUME NEW o, CallOK(o), o.called < Len(o.order), NEW m, m = o.order[o.called + 1]
  PROVE  /\ o.called \in Nat /\ Len(o.order) \in Nat /\ o.called + 1 \in 0..Len(o.order)
         /\ m \in Nodes /\ m \notin o.sent /\ m \notin DOMAIN o.res
         /\ \A x : (x = m \/ \E i \in 1..o.called : x = o.order[i])
                     <=> \E i \in 1..(o.called + 1) : x = o.order[i]
<1>1. o.order \in Seq(Nodes) /\ Len(o.order) \in Nat /\ o.called \in Nat
  BY DEF CallOK, Call
<1>2. o.called + 1 \in 1..Len(o.order) /\ o.called + 1 \in 0..Len(o.order)
  BY <1>1
<1>3. m \in Nodes
  BY <1>1, <1>2
<1>4. \A i \in 1..o.called : i \in 1..Len(o.order) /\ i # o.called + 1
  BY <1>1, <1>2
<1>5. \A i \in 1..o.called : m # o.order[i]
  BY <1>2, <1>4 DEF CallOK
<1>6. m \notin o.sent /\ m \notin DOMAIN o.res
  BY <1>5 DEF CallOK
<1>7. \A i \in 1..(o.called + 1) : i = o.called + 1 \/ i \in 1..o.called
  BY <1>1
<1>8. \A i \in 1..o.called : i \in 1..(o.called + 1)
  BY <1>1
<1>9. o.called + 1 \in 1..(o.called + 1)
  BY <1>1
<1> QED
  BY <1>1, <1>2, <1>3, <1>6, <1>7, <1>8, <1>9

LEMMA LocalKeeps ==
  ASSUME NEW o, NEW p, CallOK(o), o.called < Len(o.order), NEW m, m = o.order[o.called + 1],
         NEW r \in Result(o.kind), Updated(o, p, m, r, 1)
  PROVE  CallOK(p)
<1>1. /\ o.called + 1 \in 0..Len(o.order)
      /\ m \in Nodes /\ m \notin o.sent /\ m \notin DOMAIN o.res
      /\ \A x : (x = m \/ \E i \in 1..o.called : x = o.order[i])
                  <=> \E i \in 1..(o.called + 1) : x = o.order[i]
  BY CalledOneMore
<1>2. p.called = o.called + 1 /\ p.order = o.order /\ p.sent = o.sent
  BY <1>1 DEF Updated
<1>3. \A x \in p.sent : x \notin DOMAIN p.res
  BY <1>1, <1>2 DEF CallOK, Updated
<1>4. \A x : x \in p.sent \/ x \in DOMAIN p.res <=> x = m \/ x \in o.sent \/ x \in DOMAIN o.res
  BY <1>2 DEF Updated
<1>5. \A x : x \in o.sent \/ x \in DOMAIN o.res <=> \E i \in 1..o.called : x = o.order[i]
  BY DEF CallOK
<1>6. \A x : x \in p.sent \/ x \in DOMAIN p.res <=> \E i \in 1..p.called : x = p.order[i]
  <2> TAKE x
  <2>1. x \in p.sent \/ x \in DOMAIN p.res <=> x = m \/ \E i \in 1..o.called : x = o.order[i]
    BY <1>4, <1>5, Zenon
  <2>2. x \in p.sent \/ x \in DOMAIN p.res <=> \E i \in 1..(o.called + 1) : x = o.order[i]
    BY <1>1, <2>1, Zenon
  <2> QED
    BY <1>2, <2>2, Zenon
<1>7. \A x \in DOMAIN p.res : p.res[x] \in Result(p.kind)
  BY DEF CallOK, Updated
<1> QED
  BY <1>1, <1>2, <1>3, <1>6, <1>7 DEF CallOK, Updated

LEMMA AskedKeeps ==
  ASSUME NEW o, NEW p, CallOK(o), o.called < Len(o.order), NEW m, m = o.order[o.called + 1],
         Asked(o, p, m)
  PROVE  CallOK(p)
<1>1. /\ o.called + 1 \in 0..Len(o.order)
      /\ m \in Nodes /\ m \notin o.sent /\ m \notin DOMAIN o.res
      /\ \A x : (x = m \/ \E i \in 1..o.called : x = o.order[i])
                  <=> \E i \in 1..(o.called + 1) : x = o.order[i]
  BY CalledOneMore
<1>2. p.called = o.called + 1 /\ p.order = o.order /\ p.sent = o.sent \cup {m} /\ p.res = o.res
  BY DEF Asked
<1>3. \A x \in p.sent : x \notin DOMAIN p.res
  BY <1>1, <1>2 DEF CallOK
<1>4. \A x : x \in p.sent \/ x \in DOMAIN p.res <=> x = m \/ x \in o.sent \/ x \in DOMAIN o.res
  BY <1>2
<1>5. \A x : x \in o.sent \/ x \in DOMAIN o.res <=> \E i \in 1..o.called : x = o.order[i]
  BY DEF CallOK
<1>6. \A x : x \in p.sent \/ x \in DOMAIN p.res <=> \E i \in 1..p.called : x = p.order[i]
  <2> TAKE x
  <2>1. x \in p.sent \/ x \in DOMAIN p.res <=> x = m \/ \E i \in 1..o.called : x = o.order[i]
    BY <1>4, <1>5, Zenon
  <2>2. x \in p.sent \/ x \in DOMAIN p.res <=> \E i \in 1..(o.called + 1) : x = o.order[i]
    BY <1>1, <2>1, Zenon
  <2> QED
    BY <1>2, <2>2, Zenon
<1>7. \A x \in DOMAIN p.res : p.res[x] \in Result(p.kind)
  BY DEF CallOK, Asked
<1> QED
  BY <1>1, <1>2, <1>3, <1>6, <1>7 DEF CallOK, Asked

-----------------------------------------------------------------------------
(* What each kind of step does to the call of one client. *)
LEMMA ResultIsReply ==
  ASSUME NEW kind, NEW r \in Result(kind)
  PROVE  r \in Reply
  BY DEF Result, Reply

LEMMA NewOpIs ==
  ASSUME WellFormed, NEW n \in Nodes, NEW kind, NEW v, NEW ts, Served(kind, v, ts),
         v \in Values \cup {TOMBSTONE, None}, NEW o, o = NewOp(n, kind, v, ts)
  PROVE  /\ o \in Call /\ CallOK(o)
         /\ o.kind = kind /\ o.at = n /\ o.value = v /\ o.ts = ts
         /\ o.order = GetNodes(ring[n], Score, Replication)
         /\ o.called = 0 /\ o.sent = {} /\ DOMAIN o.res = {}
         /\ kind = "get" => o.floor = FloorAt(n)
         /\ kind # "get" => o.floor = 0
<1>1. PICK g : g = GetNodes(ring[n], Score, Replication)
  OBVIOUS
<1>2. ring[n] \in SUBSET Nodes
  BY DEF WellFormed
<1>3. /\ Len(g) \in Nat /\ g \in Seq(Nodes)
      /\ \A i, j \in 1..Len(g) : g[i] = g[j] => i = j
  BY <1>1, <1>2, OrderIs
<1>4. PICK fl \in Nat : fl = IF kind = "get" THEN FloorAt(n) ELSE 0
  BY DEF WellFormed, FloorAt
<1>5. o = [kind |-> kind, at |-> n, value |-> v, ts |-> ts, order |-> g,
           called |-> 0, sent |-> {}, res |-> <<>>, floor |-> fl]
  BY <1>1, <1>4 DEF NewOp
<1>7. <<>> \in Replies /\ DOMAIN <<>> = {}
  <2>1. <<>> \in [{} -> Reply]
    OBVIOUS
  <2> QED
    BY <2>1 DEF Replies
<1>8. o \in Call
  BY <1>3, <1>5, <1>7 DEF Call, Served
<1>9. /\ o.kind = kind /\ o.at = n /\ o.value = v /\ o.ts = ts /\ o.order = g
      /\ o.called = 0 /\ o.sent = {} /\ o.res = <<>> /\ o.floor = fl
  BY <1>5
<1>10. CallOK(o)
  BY <1>3, <1>7, <1>8, <1>9 DEF CallOK
<1> QED
  BY <1>1, <1>4, <1>7, <1>8, <1>9, <1>10

LEMMA CallLocalIs ==
  ASSUME WellFormed, NEW c \in Clients, NEW n \in Nodes, CallLocal(c, n)
  PROVE  /\ op[c] # None /\ CallOK(op[c]) /\ Moves(c, op') /\ CallOK(op'[c])
         /\ op[c].at = n /\ op[c].called < Len(op[c].order)
         /\ n = op[c].order[op[c].called + 1]
         /\ Updated(op[c], op'[c], n, LocalReply(op[c].kind, store[n], op[c].ts), 1)
<1>1. op[c] # None /\ op[c].at = n /\ op[c].called < Len(op[c].order) /\ n = op[c].order[op[c].called + 1]
  BY DEF CallLocal, MayCall
<1>2. CallOK(op[c]) /\ CallsOK(op)
  BY <1>1 DEF WellFormed, CallsOK
<1>3. PICK o : o = op[c]
  OBVIOUS
<1>4. PICK r : r = LocalReply(o.kind, store[n], o.ts)
  OBVIOUS
<1>5. o.kind \in {"set", "delete", "get"} /\ o.ts \in Nat /\ store[n] \in Slot
  BY <1>2, <1>3 DEF CallOK, Served, WellFormed
<1>6. r \in Result(o.kind) /\ r \in Reply
  BY <1>4, <1>5, ReplyTypes, ResultIsReply
<1>7. PICK q : q = Answer(c, n, r)
  OBVIOUS
<1>8. /\ q \in [Clients -> Call \cup {None}]
      /\ Updated(op[c], q[c], n, r, 0)
      /\ \A d \in Clients : d # c => q[d] = op[d]
  BY <1>1, <1>2, <1>6, <1>7, AnswerIs
<1>9. op' = [q EXCEPT ![c].called = @ + 1]
  BY <1>3, <1>4, <1>7 DEF CallLocal
<1>10. PICK p : p = q[c]
  OBVIOUS
<1>11. op'[c] = [p EXCEPT !.called = p.called + 1] /\ \A d \in Clients : d # c => op'[d] = q[d]
  BY <1>8, <1>9, <1>10
<1>12. p \in Call
  BY <1>8, <1>10 DEF Updated
<1>13. op'[c] = [kind |-> p.kind, at |-> p.at, value |-> p.value, ts |-> p.ts, order |-> p.order,
                 called |-> p.called + 1, sent |-> p.sent, res |-> p.res, floor |-> p.floor]
  BY <1>11, <1>12 DEF Call
<1>14. op'[c] \in Call
  BY <1>12, <1>13 DEF Call
<1>15. o.called \in Nat
  BY <1>2, <1>3 DEF CallOK, Call
<1>16. Updated(o, op'[c], n, r, 1)
  <2>1. /\ op'[c].kind = p.kind /\ op'[c].at = p.at /\ op'[c].value = p.value /\ op'[c].ts = p.ts
        /\ op'[c].order = p.order /\ op'[c].floor = p.floor /\ op'[c].called = p.called + 1
        /\ op'[c].sent = p.sent /\ op'[c].res = p.res
    BY <1>13
  <2> QED
    BY <1>3, <1>8, <1>10, <1>14, <1>15, <2>1 DEF Updated
<1>17. Moves(c, op')
  <2>1. op' = [d \in Clients |-> op'[d]]
    BY <1>8, <1>9
  <2>2. \A d \in Clients : op'[d] \in Call \cup {None}
    BY <1>8, <1>11, <1>14
  <2> QED
    BY <1>8, <1>11, <2>1, <2>2 DEF Moves
<1>18. CallOK(op'[c])
  BY <1>1, <1>2, <1>3, <1>6, <1>16, LocalKeeps
<1> QED
  BY <1>1, <1>2, <1>3, <1>4, <1>16, <1>17, <1>18

LEMMA CallRemoteIs ==
  ASSUME WellFormed, NEW c \in Clients, NEW m \in Nodes, CallRemote(c, m)
  PROVE  /\ op[c] # None /\ CallOK(op[c]) /\ Moves(c, op') /\ CallOK(op'[c])
         /\ op[c].called < Len(op[c].order)
         /\ m = op[c].order[op[c].called + 1]
         /\ Asked(op[c], op'[c], m)
<1>1. op[c] # None /\ op[c].called < Len(op[c].order) /\ m = op[c].order[op[c].called + 1]
  BY DEF CallRemote, MayCall
<1>2. CallOK(op[c]) /\ op[c] \in Call
  BY <1>1 DEF WellFormed, CallsOK, CallOK
<1>3. PICK o \in Call : o = op[c]
  BY <1>2
<1>4. op' = [op EXCEPT ![c].called = o.called + 1, ![c].sent = o.sent \cup {m}]
  BY <1>3 DEF CallRemote
<1>5. /\ op'[c] = [o EXCEPT !.called = o.called + 1, !.sent = o.sent \cup {m}]
      /\ \A d \in Clients : d # c => op'[d] = op[d]
  BY <1>3, <1>4 DEF WellFormed, CallsOK
<1>6. op'[c] = [kind |-> o.kind, at |-> o.at, value |-> o.value, ts |-> o.ts, order |-> o.order,
                called |-> o.called + 1, sent |-> o.sent \cup {m}, res |-> o.res, floor |-> o.floor]
  BY <1>5 DEF Call
<1>7. op'[c] \in Call
  BY <1>6 DEF Call
<1>8. Asked(o, op'[c], m)
  BY <1>6, <1>7 DEF Asked
<1>9. Moves(c, op')
  <2>1. op' = [d \in Clients |-> op'[d]]
    BY <1>4 DEF WellFormed, CallsOK
  <2>2. \A d \in Clients : op'[d] \in Call \cup {None}
    BY <1>5, <1>7 DEF WellFormed, CallsOK
  <2> QED
    BY <1>5, <2>1, <2>2 DEF Moves
<1>10. CallOK(op'[c])
  BY <1>1, <1>2, <1>3, <1>8, AskedKeeps
<1> QED
  BY <1>1, <1>2, <1>3, <1>8, <1>9, <1>10

(* An answer, a refusal, a timeout. *)
LEMMA AnsweredIs ==
  ASSUME WellFormed, NEW c \in Clients, NEW m, op[c] # None, m \in op[c].sent,
         NEW r \in Result(op[c].kind), op' = Answer(c, m, r)
  PROVE  /\ m \in Nodes /\ CallOK(op[c]) /\ Moves(c, op') /\ CallOK(op'[c])
         /\ Updated(op[c], op'[c], m, r, 0)
<1>1. CallsOK(op) /\ CallOK(op[c])
  BY DEF WellFormed, CallsOK
<1>2. m \in Nodes
  BY <1>1 DEF CallOK, Call
<1>3. r \in Reply
  BY ResultIsReply
<1>4. Moves(c, op') /\ Updated(op[c], op'[c], m, r, 0)
  BY <1>1, <1>2, <1>3, AnswerIs DEF Moves
<1>5. CallOK(op'[c])
  BY <1>1, <1>4, AnsweredKeeps
<1> QED
  BY <1>1, <1>2, <1>4, <1>5

-----------------------------------------------------------------------------
(* A replica serves a request, and its answer is on record. *)
Serves(n, kind, v, ts) ==
  /\ store' = [store EXCEPT ![n] = NewSlot(kind, @, v, ts)]
  /\ acks' = IF kind = "get" THEN acks ELSE acks \cup {Acked(n, v, ts)}

LEMMA ServesIs ==
  ASSUME WellFormed, NEW n \in Nodes, NEW kind, NEW v, NEW ts, Served(kind, v, ts),
         Serves(n, kind, v, ts)
  PROVE  /\ store' \in [Nodes -> Slot]
         /\ \A x \in Nodes : x # n => store'[x] = store[x]
         /\ store[n] \in Slot /\ store'[n] \in Slot
         /\ store'[n] = store[n] \/ (kind # "get" /\ store'[n] = Holding(v, ts))
         /\ store[n] # None => store'[n] # None /\ store'[n].ts >= store[n].ts
         /\ kind # "get" => store'[n] # None /\ store'[n].ts >= ts
         /\ kind = "get" => store' = store
         /\ AcksOK(acks')
<1>1. store[n] \in Slot /\ store \in [Nodes -> Slot]
  BY DEF WellFormed
<1>2. PICK f : f = NewSlot(kind, store[n], v, ts)
  OBVIOUS
<1>3. /\ f \in Slot
      /\ store[n] # None => f # None /\ f.ts >= store[n].ts
      /\ kind # "get" => f # None /\ f.ts >= ts
  BY <1>1, <1>2, NewSlotNotOlder
<1>4. store' = [store EXCEPT ![n] = f]
  BY <1>2 DEF Serves
<1>5. AcksOK(acks')
  BY DEF Serves, WellFormed, AcksOK, Acked, Served
<1>6. (kind = "get" => f = store[n]) /\ (f = store[n] \/ (kind # "get" /\ f = Holding(v, ts)))
  BY <1>1, <1>2, NewSlotIs
<1>7. kind = "get" => store' = store
  BY <1>1, <1>4, <1>6
<1> QED
  BY <1>1, <1>2, <1>3, <1>4, <1>5, <1>6, <1>7

(* The replies of the disturbed and undisturbed handles are results. *)
LEMMA ServedCall ==
  ASSUME WellFormed, NEW c \in Clients, op[c] # None
  PROVE  /\ CallOK(op[c])
         /\ Served(op[c].kind, op[c].value, op[c].ts)
         /\ op[c].sent \subseteq Nodes
         /\ NoReply(op[c].kind) \in Result(op[c].kind)
         /\ \A m \in Nodes : RemoteReply(op[c].kind, store[m]) \in Result(op[c].kind)
         /\ \A m \in Nodes : op[c].kind # "get" => RequestOK(Request(op[c], m))
<1>1. CallOK(op[c])
  BY DEF WellFormed, CallsOK
<1>2. PICK o : o = op[c]
  OBVIOUS
<1>3. Served(o.kind, o.value, o.ts) /\ o.sent \subseteq Nodes
  BY <1>1, <1>2 DEF CallOK, Call
<1>4. o.kind \in {"set", "delete", "get"} /\ o.ts \in Nat
  BY <1>3 DEF Served
<1>5. \A m \in Nodes : store[m] \in Slot
  BY DEF WellFormed
<1>6. NoReply(o.kind) \in Result(o.kind)
  BY <1>4 DEF NoReply, Result
<1>7. ASSUME NEW m \in Nodes PROVE RemoteReply(o.kind, store[m]) \in Result(o.kind)
  BY <1>4, <1>5, ReplyTypes
<1>8. ASSUME NEW m \in Nodes, o.kind # "get" PROVE RequestOK(Request(o, m))
  BY <1>3, <1>8 DEF RequestOK, Request
<1> QED
  BY <1>1, <1>2, <1>3, <1>6, <1>7, <1>8

(* Writes carry a stamp and a value. *)
LEMMA StampedWrite ==
  ASSUME NEW kind, NEW v, NEW ts \in Stamp,
         (kind = "set" /\ v \in Values) \/ (kind = "delete" /\ v = TOMBSTONE)
  PROVE  Served(kind, v, ts) /\ kind # "get" /\ v \in Values \cup {TOMBSTONE, None}
  BY DEF Served, Stamp

(* The steps, told apart by what they do to the calls, the stores, the     *)
(* answered writes, the late requests and the rings.                       *)
Begins(c, n, kind, v, ts) ==
  /\ op[c] = None /\ ring[n] # {}
  /\ \/ /\ ts \in Stamp /\ clock' = Max2(clock, ts)
        /\ (kind = "set" /\ v \in Values) \/ (kind = "delete" /\ v = TOMBSTONE)
     \/ kind = "get" /\ v = None /\ ts = 0 /\ clock' = clock
  /\ op' = [op EXCEPT ![c] = NewOp(n, kind, v, ts)]
  /\ UNCHANGED <<store, ring, late, disturbed, acks, floor>>

BeginStep == \E c \in Clients, n \in Nodes : \E kind, v, ts : Begins(c, n, kind, v, ts)

WriteAloneStep ==
  \E n \in Nodes : \E kind, v : \E ts \in Stamp :
    /\ ring[n] = {}
    /\ (kind = "set" /\ v \in Values) \/ (kind = "delete" /\ v = TOMBSTONE)
    /\ Serves(n, kind, v, ts)
    /\ clock' = Max2(clock, ts)
    /\ UNCHANGED <<ring, op, late, disturbed, floor>>

CallStep ==
  \E c \in Clients, n \in Nodes :
    \/ /\ CallLocal(c, n)
       /\ Serves(n, op[c].kind, op[c].value, op[c].ts)
       /\ UNCHANGED <<ring, late, clock, disturbed, floor>>
    \/ CallRemote(c, n)

(* A request on the wire meets its end: served or not, answered or not. *)
AnswerStep ==
  \E c \in Clients, m \in Nodes :
    /\ op[c] # None /\ m \in op[c].sent
    /\ UNCHANGED <<ring, clock, floor>>
    /\ \/ /\ ring[m] # {}
          /\ op' = Answer(c, m, RemoteReply(op[c].kind, store[m]))
          /\ Serves(m, op[c].kind, op[c].value, op[c].ts)
          /\ UNCHANGED <<late, disturbed>>
       \/ /\ ring[m] = {}
          /\ op' = Answer(c, m, NoReply(op[c].kind))
          /\ UNCHANGED <<store, acks, late, disturbed>>
       \/ /\ Disturb("timeout")
          /\ op' = Answer(c, m, NoReply(op[c].kind))
          /\ late' = late \/ (op[c].kind # "get" /\ late' = late \cup {Request(op[c], m)})
          /\ UNCHANGED <<store, acks>>
       \/ /\ Disturb("reply")
          /\ op' = Answer(c, m, NoReply(op[c].kind))
          /\ Serves(m, op[c].kind, op[c].value, op[c].ts)
          /\ UNCHANGED late

RetryStep ==
  \E c \in Clients, m \in Nodes :
    /\ Disturb("retry") /\ op[c] # None /\ m \in op[c].sent
    /\ \/ Serves(m, op[c].kind, op[c].value, op[c].ts) /\ UNCHANGED late
       \/ /\ op[c].kind # "get" /\ late' = late \cup {Request(op[c], m)}
          /\ UNCHANGED <<store, acks>>
    /\ UNCHANGED <<op, ring, clock, floor>>

LateStep ==
  \E r \in late :
    /\ Serves(r.dst, r.kind, r.value, r.ts)
    /\ late' = late \ {r}
    /\ UNCHANGED <<ring, op, clock, disturbed, floor>>

EndStep == \E c \in Clients : Finish(c) \/ Raise(c)

CrashStep == \E n \in Nodes : Crash(n)

RingStep ==
  /\ \/ /\ \E n \in Nodes : ring[n] = {} /\ ring' = [ring EXCEPT ![n] = Peers \cup {n}]
        /\ UNCHANGED disturbed
     \/ /\ Disturb("join")
        /\ \E n, p \in Nodes : ring' = [ring EXCEPT ![n] = @ \cup {p}]
     \/ /\ Disturb("evict")
        /\ \E n, p \in Nodes : ring' = [ring EXCEPT ![n] = @ \ {p}]
  /\ UNCHANGED <<store, op, late, clock, acks, floor>>

LEMMA StepsAre ==
  ASSUME WellFormed, [Next]_vars
  PROVE  \/ BeginStep \/ WriteAloneStep \/ CallStep \/ AnswerStep \/ RetryStep \/ LateStep
         \/ EndStep \/ CrashStep \/ RingStep
         \/ UNCHANGED vars
<1>1. ASSUME NEW c \in Clients, NEW n \in Nodes, NEW ts \in Stamp, NEW kind, NEW v,
             (kind = "set" /\ v \in Values) \/ (kind = "delete" /\ v = TOMBSTONE),
             BeginWrite(c, n, kind, v, ts)
      PROVE  BeginStep
  BY <1>1 DEF BeginWrite, BeginStep, Begins
<1>2. ASSUME NEW c \in Clients, NEW n \in Nodes, BeginGet(c, n) PROVE BeginStep
  <2> USE DEF BeginStep
  <2> WITNESS c \in Clients, n \in Nodes
  <2> WITNESS "get", None, 0
  <2> QED
    BY <1>2 DEF BeginGet, Begins
<1>3. ASSUME NEW c \in Clients, NEW n \in Nodes, NEW ts \in Stamp, NEW kind, NEW v,
             (kind = "set" /\ v \in Values) \/ (kind = "delete" /\ v = TOMBSTONE),
             WriteBeforeStart(c, n, kind, v, ts)
      PROVE  WriteAloneStep
  BY <1>3 DEF WriteBeforeStart, WriteAloneStep, Serves
<1>4. ASSUME NEW c \in Clients, NEW n \in Nodes, CallLocal(c, n) \/ CallRemote(c, n) PROVE CallStep
  BY <1>4 DEF CallLocal, CallStep, Serves, Ack
<1>5. ASSUME NEW c \in Clients, NEW n \in Nodes,
             Serve(c, n) \/ Refused(c, n) \/ TimeOut(c, n) \/ LoseReply(c, n)
      PROVE  AnswerStep
  <2> USE DEF AnswerStep
  <2> WITNESS c \in Clients, n \in Nodes
  <2>1. CASE Serve(c, n)
    BY <2>1 DEF Serve, Serves, Ack
  <2>2. CASE Refused(c, n)
    BY <2>2 DEF Refused
  <2>3. CASE TimeOut(c, n)
    BY <2>3 DEF TimeOut
  <2>4. CASE LoseReply(c, n)
    BY <2>4 DEF LoseReply, Serves, Ack
  <2> QED
    BY <1>5, <2>1, <2>2, <2>3, <2>4
<1>6. ASSUME NEW c \in Clients, NEW n \in Nodes, Retry(c, n) PROVE RetryStep
  BY <1>6 DEF Retry, RetryStep, Serves, Ack
<1>7. ASSUME NEW r \in late, ServeLate(r) PROVE LateStep
  <2>1. r.kind # "get"
    BY DEF WellFormed, RequestOK
  <2> QED
    BY <1>7, <2>1 DEF ServeLate, LateStep, Serves
<1>8. ASSUME NEW n \in Nodes, Start(n) PROVE RingStep
  BY <1>8 DEF Start, RingStep
<1>9. ASSUME NEW n \in Nodes, NEW p \in Nodes, Join(n, p) \/ Evict(n, p) PROVE RingStep
  BY <1>9 DEF Join, Evict, RingStep
<1> QED
  BY <1>1, <1>2, <1>3, <1>4, <1>5, <1>6, <1>7, <1>8, <1>9 DEF Next, Step, Coordinate, EndStep, CrashStep

-----------------------------------------------------------------------------
(* The version a read returns is one that a replica told it, or 0; under   *)
(* LWW it is the newest of them (consistency/lww.py:47-53).                *)
Told(o, m) == m \in DOMAIN o.res /\ o.res[m] # None

ResultsInOrder(o, rs) ==
  /\ Len(rs) = o.called /\ o.called \in Nat
  /\ \A i \in 1..o.called : o.order[i] \in DOMAIN o.res /\ rs[i] = o.res[o.order[i]]
  /\ \A i \in 1..o.called : rs[i] \in VersionedValue \cup {None}
  /\ \A i \in 1..o.called : rs[i] # None => rs[i].ts \in Nat
  /\ \A m \in DOMAIN o.res : \E i \in 1..o.called : m = o.order[i] /\ rs[i] = o.res[m]

LEMMA ResultsAre ==
  ASSUME NEW o, CallOK(o), o.kind = "get", o.sent = {}, NEW rs, rs = Results(o)
  PROVE  ResultsInOrder(o, rs)
<1>1. o.called \in Nat
  BY DEF CallOK, Call
<1>2. rs = [i \in 1..o.called |-> o.res[o.order[i]]]
  BY DEF Results
<1>3. Len(rs) = o.called
  BY <1>1, <1>2
<1>4. \A i \in 1..o.called : o.order[i] \in DOMAIN o.res
  BY DEF CallOK
<1>5. \A i \in 1..o.called : rs[i] = o.res[o.order[i]]
  BY <1>2
<1>6. \A m \in DOMAIN o.res : o.res[m] \in VersionedValue \cup {None}
  BY DEF CallOK, Result
<1>7. \A i \in 1..o.called : rs[i] \in VersionedValue \cup {None}
  BY <1>4, <1>5, <1>6
<1>8. \A i \in 1..o.called : rs[i] # None => rs[i].ts \in Nat
  BY <1>7 DEF VersionedValue
<1>9. \A m \in DOMAIN o.res : \E i \in 1..o.called : m = o.order[i]
  BY DEF CallOK
<1> QED
  BY <1>1, <1>3, <1>4, <1>5, <1>7, <1>8, <1>9 DEF ResultsInOrder

LEMMA NewestTold ==
  ASSUME NEW o, CallOK(o), o.kind = "get", o.sent = {}, ~Hit(o), NEW t, t = ReadVersion(o)
  PROVE  /\ t \in Nat
         /\ t = 0 \/ \E m : Told(o, m) /\ o.res[m].ts = t
         /\ \A m : Told(o, m) => o.res[m].ts \in Nat /\ o.res[m].ts <= t
<1>1. PICK rs : rs = Results(o)
  OBVIOUS
<1>2. /\ Len(rs) = o.called /\ o.called \in Nat
      /\ \A i \in 1..o.called : o.order[i] \in DOMAIN o.res /\ rs[i] = o.res[o.order[i]]
      /\ \A i \in 1..o.called : rs[i] # None => rs[i].ts \in Nat
      /\ \A m \in DOMAIN o.res : \E i \in 1..o.called : m = o.order[i] /\ rs[i] = o.res[m]
  <2>1. ResultsInOrder(o, rs)
    BY <1>1, ResultsAre
  <2> QED
    BY <2>1 DEF ResultsInOrder
<1>3. t = Max2(0, Best(rs).ts)
  BY <1>1 DEF ReadVersion
<1>4. CASE Best(rs) = Nothing /\ \A i \in 1..Len(rs) : rs[i] = None
  <2>1. t = 0
    BY <1>3, <1>4 DEF Nothing, Max2
  <2> QED
    BY <1>2, <1>4, <2>1 DEF Told
<1>5. ASSUME NEW k, FirstNewest(rs, Len(rs), k), Best(rs) = rs[k]
      PROVE  /\ t \in Nat
             /\ t = 0 \/ \E m : Told(o, m) /\ o.res[m].ts = t
             /\ \A m : Told(o, m) => o.res[m].ts \in Nat /\ o.res[m].ts <= t
  <2>1. k \in 1..o.called /\ rs[k] # None /\ rs[k].ts \in Nat
    BY <1>2, <1>5 DEF FirstNewest
  <2>2. t = rs[k].ts
    BY <1>3, <1>5, <2>1 DEF Max2
  <2>3. Told(o, o.order[k]) /\ o.res[o.order[k]].ts = t
    BY <1>2, <2>1, <2>2 DEF Told
  <2>4. ASSUME NEW m, Told(o, m) PROVE o.res[m].ts \in Nat /\ o.res[m].ts <= t
    <3>1. PICK i \in 1..o.called : m = o.order[i] /\ rs[i] = o.res[m]
      BY <1>2, <2>4 DEF Told
    <3>2. rs[i] # None
      BY <2>4, <3>1 DEF Told
    <3>3. rs[i].ts \in Nat
      BY <1>2, <3>1, <3>2
    <3>4. rs[i].ts <= rs[k].ts
      BY <1>2, <1>5, <3>1, <3>2 DEF FirstNewest
    <3> QED
      BY <2>2, <3>1, <3>3, <3>4
  <2> QED
    BY <2>1, <2>2, <2>3, <2>4
<1> QED
  BY <1>2, <1>4, <1>5, BestIs

LEMMA HitTold ==
  ASSUME NEW o, CallOK(o), o.kind = "get", o.sent = {}, Hit(o)
  PROVE  \E m : Told(o, m) /\ ReadVersion(o) = o.res[m].ts
<1>1. PICK rs : rs = Results(o)
  OBVIOUS
<1>2. /\ Len(rs) = o.called /\ o.called \in Nat
      /\ \A i \in 1..o.called : o.order[i] \in DOMAIN o.res /\ rs[i] = o.res[o.order[i]]
      /\ \A m \in DOMAIN o.res : \E i \in 1..o.called : m = o.order[i] /\ rs[i] = o.res[m]
  <2>1. ResultsInOrder(o, rs)
    BY <1>1, ResultsAre
  <2> QED
    BY <2>1 DEF ResultsInOrder
<1> DEFINE I == {i \in 1..Len(rs) : IsHit(rs[i])}
<1>3. SelectInSeq(rs, IsHit) = IF I # {} THEN Min(I) ELSE 0
  BY DEF SelectInSeq
<1>4. I # {} /\ I \in SUBSET Nat
  <2>1. PICK m \in DOMAIN o.res : IsHit(o.res[m])
    BY DEF Hit
  <2>2. PICK i \in 1..o.called : rs[i] = o.res[m]
    BY <1>2, <2>1
  <2>3. i \in I
    BY <1>2, <2>1, <2>2
  <2>4. \A x \in I : x \in Nat
    BY <1>2
  <2> HIDE DEF I
  <2> QED
    BY <2>3, <2>4
<1>5. \A i \in I : i \in 1..o.called /\ IsHit(rs[i])
  BY <1>2
<1> HIDE DEF I
<1>6. PICK k \in I : \A i \in I : k <= i
  BY <1>4, LeastNat
<1>7. Min(I) = k
  BY <1>4, <1>6, MinIs
<1>8. ReadVersion(o) = rs[k].ts
  BY <1>1, <1>3, <1>4, <1>7 DEF ReadVersion
<1>9. k \in 1..o.called /\ rs[k] # None
  BY <1>5, <1>6 DEF IsHit
<1>10. Told(o, o.order[k]) /\ ReadVersion(o) = o.res[o.order[k]].ts
  BY <1>2, <1>8, <1>9 DEF Told
<1> QED
  BY <1>10

LEMMA FloorNat ==
  ASSUME WellFormed, NEW o, CallOK(o), Complete(o)
  PROVE  Raised(o) \in [written : Nat, known : Nat]
<1>1. o.sent = {} /\ o.ts \in Nat
  BY DEF Complete, CallOK, Served
<1>2. o.kind = "get" /\ ~FirstHitRead(o) => ReadVersion(o) \in Nat
  BY <1>1, NewestTold DEF Hit
<1> QED
  BY <1>1, <1>2 DEF WellFormed, Raised, Max2

-----------------------------------------------------------------------------
(* Every step keeps the shape. *)
LEMMA WellFormedStep ==
  ASSUME WellFormed, [Next]_vars
  PROVE  WellFormed'
<1> USE DEF WellFormed
<1>1. CASE BeginStep
  <2>1. PICK c \in Clients, n \in Nodes : \E kind, v, ts : Begins(c, n, kind, v, ts)
    BY <1>1 DEF BeginStep
  <2>2. PICK kind, v, ts : Begins(c, n, kind, v, ts)
    BY <2>1
  <2>3. Served(kind, v, ts) /\ v \in Values \cup {TOMBSTONE, None}
    BY <2>2 DEF Begins, Served, Stamp
  <2>4. PICK o : o = NewOp(n, kind, v, ts)
    OBVIOUS
  <2>5. o \in Call /\ CallOK(o)
    BY <2>3, <2>4, NewOpIs
  <2>6. CallsOK(op')
    BY <2>2, <2>4, <2>5 DEF Begins, CallsOK
  <2> QED
    BY <2>2, <2>6 DEF Begins
<1>2. CASE WriteAloneStep
  <2>1. PICK n \in Nodes : \E kind, v : \E ts \in Stamp :
          /\ (kind = "set" /\ v \in Values) \/ (kind = "delete" /\ v = TOMBSTONE)
          /\ Serves(n, kind, v, ts)
          /\ UNCHANGED <<ring, op, late, disturbed, floor>>
    BY <1>2 DEF WriteAloneStep
  <2>2. store' \in [Nodes -> Slot] /\ AcksOK(acks')
    BY <2>1, StampedWrite, ServesIs
  <2> QED
    BY <2>1, <2>2
<1>3. ASSUME NEW c \in Clients, NEW m \in Nodes, op[c] # None,
             Serves(m, op[c].kind, op[c].value, op[c].ts)
      PROVE  store' \in [Nodes -> Slot] /\ AcksOK(acks')
  BY <1>3, ServedCall, ServesIs
<1>4. CASE CallStep
  <2>1. PICK c \in Clients, n \in Nodes :
          \/ /\ CallLocal(c, n)
             /\ Serves(n, op[c].kind, op[c].value, op[c].ts)
             /\ UNCHANGED <<ring, late, clock, disturbed, floor>>
          \/ CallRemote(c, n)
    BY <1>4 DEF CallStep
  <2>2. CASE CallLocal(c, n) /\ Serves(n, op[c].kind, op[c].value, op[c].ts)
             /\ UNCHANGED <<ring, late, clock, disturbed, floor>>
    BY <1>3, <2>2, CallLocalIs, MovesKeeps
  <2>3. CASE CallRemote(c, n)
    <3>1. CallsOK(op')
      BY <2>3, CallRemoteIs, MovesKeeps
    <3> QED
      BY <2>3, <3>1 DEF CallRemote
  <2> QED
    BY <2>1, <2>2, <2>3
<1>5. CASE AnswerStep
  <2>1. PICK c \in Clients, m \in Nodes :
          /\ op[c] # None /\ m \in op[c].sent
          /\ UNCHANGED <<ring, floor>>
          /\ \/ op' = Answer(c, m, RemoteReply(op[c].kind, store[m]))
             \/ op' = Answer(c, m, NoReply(op[c].kind))
          /\ \/ Serves(m, op[c].kind, op[c].value, op[c].ts)
             \/ UNCHANGED <<store, acks>>
          /\ late' = late \/ (op[c].kind # "get" /\ late' = late \cup {Request(op[c], m)})
    BY <1>5 DEF AnswerStep
  <2>2. CallsOK(op')
    BY <2>1, ServedCall, AnsweredIs, MovesKeeps
  <2>3. store' \in [Nodes -> Slot] /\ AcksOK(acks')
    BY <1>3, <2>1
  <2>4. \A r \in late' : RequestOK(r)
    BY <2>1, ServedCall
  <2> QED
    BY <2>1, <2>2, <2>3, <2>4
<1>6. CASE RetryStep
  <2>1. PICK c \in Clients, m \in Nodes :
          /\ op[c] # None /\ m \in op[c].sent
          /\ \/ Serves(m, op[c].kind, op[c].value, op[c].ts) /\ UNCHANGED late
             \/ /\ op[c].kind # "get" /\ late' = late \cup {Request(op[c], m)}
                /\ UNCHANGED <<store, acks>>
          /\ UNCHANGED <<op, ring, clock, floor>>
    BY <1>6 DEF RetryStep
  <2>2. store' \in [Nodes -> Slot] /\ AcksOK(acks')
    BY <1>3, <2>1
  <2>3. \A r \in late' : RequestOK(r)
    BY <2>1, ServedCall
  <2> QED
    BY <2>1, <2>2, <2>3
<1>7. CASE LateStep
  <2>1. PICK r \in late : /\ Serves(r.dst, r.kind, r.value, r.ts)
                          /\ late' = late \ {r}
                          /\ UNCHANGED <<ring, op, clock, disturbed, floor>>
    BY <1>7 DEF LateStep
  <2>2. r.dst \in Nodes /\ Served(r.kind, r.value, r.ts)
    BY DEF RequestOK
  <2>3. store' \in [Nodes -> Slot] /\ AcksOK(acks')
    BY <2>1, <2>2, ServesIs
  <2> QED
    BY <2>1, <2>3
<1>8. CASE EndStep
  <2>1. PICK c \in Clients : Finish(c) \/ Raise(c)
    BY <1>8 DEF EndStep
  <2>2. op' = [op EXCEPT ![c] = None] /\ UNCHANGED <<store, ring, late, acks>>
    BY <2>1 DEF Finish, Raise
  <2>3. CallsOK(op')
    BY <2>2 DEF CallsOK
  <2>4. floor' \in [written : Nat, known : Nat]
    <3>1. CASE Raise(c)
      BY <3>1 DEF Raise
    <3>2. CASE Finish(c)
      <4>1. Complete(op[c]) /\ op[c] # None /\ floor' = Raised(op[c])
        BY <3>2 DEF Finish, Complete
      <4> QED
        BY <4>1, ServedCall, FloorNat
    <3> QED
      BY <2>1, <3>1, <3>2
  <2> QED
    BY <2>2, <2>3, <2>4
<1>9. CASE CrashStep
  <2>1. PICK n \in Nodes : Crash(n)
    BY <1>9 DEF CrashStep
  <2>2. store' \in [Nodes -> Slot] /\ ring' \in [Nodes -> SUBSET Nodes]
    BY <2>1 DEF Crash, Slot
  <2>3. CallsOK(op')
    BY <2>1 DEF Crash, CallsOK
  <2> QED
    BY <2>1, <2>2, <2>3 DEF Crash, AcksOK
<1>10. CASE RingStep
  <2>1. ring' \in [Nodes -> SUBSET Nodes]
    BY <1>10, ReplicationConstants DEF RingStep
  <2> QED
    BY <1>10, <2>1 DEF RingStep
<1>11. CASE UNCHANGED vars
  BY <1>11 DEF vars
<1> QED
  BY <1>1, <1>2, <1>4, <1>5, <1>6, <1>7, <1>8, <1>9, <1>10, <1>11, StepsAre

LEMMA WellFormedAlways == Spec => []WellFormed
<1>1. Init => WellFormed
  BY ReplicationConstants DEF Init, WellFormed, CallsOK, AcksOK, Slot
<1>2. WellFormed /\ [Next]_vars => WellFormed'
  BY WellFormedStep
<1> QED
  BY <1>1, <1>2, PTL DEF Spec

-----------------------------------------------------------------------------
(* A replica that has answered a write holds it, or a newer one, until it  *)
(* crashes: no late, repeated or reordered request takes it away.          *)
THEOREM AckedWriteHeldAlways == Spec => []AckedWriteHeld
<1>1. Init => AckedWriteHeld
  BY DEF Init, AckedWriteHeld
<1>2. WellFormed /\ AckedWriteHeld /\ [Next]_vars => AckedWriteHeld'
  <2> SUFFICES ASSUME WellFormed, AckedWriteHeld, [Next]_vars PROVE AckedWriteHeld'
    OBVIOUS
  (* Serving any request at n, with its answer recorded if it is a write. *)
  <2>1. ASSUME NEW n \in Nodes, NEW kind, NEW v, NEW ts, Served(kind, v, ts),
               Serves(n, kind, v, ts)
        PROVE  AckedWriteHeld'
    <3> SUFFICES ASSUME NEW a \in acks'
                 PROVE  store'[a.node] # None /\ store'[a.node].ts >= a.ts
      BY DEF AckedWriteHeld
    <3>1. /\ \A x \in Nodes : x # n => store'[x] = store[x]
          /\ store'[n] \in Slot
          /\ store[n] # None => store'[n] # None /\ store'[n].ts >= store[n].ts
          /\ kind # "get" => store'[n] # None /\ store'[n].ts >= ts
      BY <2>1, ServesIs
    <3>2. CASE a \in acks
      <4>1. /\ a.node \in Nodes /\ a.ts \in Nat
            /\ store[a.node] # None /\ store[a.node].ts >= a.ts
            /\ store[a.node].ts \in Nat
        BY <3>2 DEF WellFormed, AcksOK, AckedWriteHeld, Slot, Entry
      <4>2. CASE a.node = n
        <5>1. store'[n] # None /\ store'[n].ts >= store[n].ts /\ store'[n].ts \in Nat
          BY <3>1, <4>1, <4>2 DEF Slot, Entry
        <5> QED
          BY <4>1, <4>2, <5>1
      <4>3. CASE a.node # n
        BY <3>1, <4>1, <4>3
      <4> QED
        BY <4>2, <4>3
    <3>3. CASE a \notin acks
      <4>1. kind # "get" /\ a.node = n /\ a.ts = ts
        BY <2>1, <3>3 DEF Serves, Acked
      <4> QED
        BY <3>1, <4>1
    <3> QED
      BY <3>2, <3>3
  <2>2. ASSUME NEW c \in Clients, NEW m \in Nodes, op[c] # None,
               Serves(m, op[c].kind, op[c].value, op[c].ts)
        PROVE  AckedWriteHeld'
    BY <2>1, <2>2, ServedCall
  <2>3. CASE UNCHANGED <<store, acks>>
    BY <2>3 DEF AckedWriteHeld
  <2>4. CASE WriteAloneStep
    BY <2>1, <2>4, StampedWrite DEF WriteAloneStep
  <2>5. CASE CallStep
    BY <2>2, <2>3, <2>5 DEF CallStep, CallLocal, MayCall, CallRemote
  <2>6. CASE AnswerStep
    BY <2>2, <2>3, <2>6 DEF AnswerStep
  <2>7. CASE RetryStep
    BY <2>2, <2>3, <2>7 DEF RetryStep
  <2>8. CASE LateStep
    BY <2>1, <2>8 DEF LateStep, WellFormed, RequestOK
  <2>9. CASE CrashStep
    <3>1. PICK n \in Nodes : Crash(n)
      BY <2>9 DEF CrashStep
    <3> QED
      BY <3>1 DEF Crash, AckedWriteHeld, WellFormed, AcksOK
  <2>10. CASE BeginStep \/ EndStep \/ RingStep \/ UNCHANGED vars
    BY <2>3, <2>10 DEF BeginStep, Begins, EndStep, Finish, Raise, RingStep, vars
  <2> QED
    BY <2>4, <2>5, <2>6, <2>7, <2>8, <2>9, <2>10, StepsAre
<1> QED
  BY <1>1, <1>2, WellFormedAlways, PTL DEF Spec

-----------------------------------------------------------------------------
(* No version anywhere is newer than the newest stamp handed out.          *)
CallBounded(o, t) ==
  /\ o.ts <= t
  /\ o.kind = "get" => \A m : Told(o, m) => o.res[m].ts <= t

Bounded ==
  /\ clock \in 0..MaxTs /\ disturbed \in 0..MaxDisturbed
  /\ \A n \in Nodes : store[n] # None => store[n].ts <= clock
  /\ \A c \in Clients : op[c] # None => CallBounded(op[c], clock)
  /\ \A r \in late : r.ts <= clock
  /\ floor.written <= clock /\ floor.known <= clock

LEMMA LaterClock ==
  ASSUME WellFormed, Bounded, NEW ts \in Stamp, NEW t, t = Max2(clock, ts)
  PROVE  /\ t \in 0..MaxTs /\ ts <= t
         /\ \A n \in Nodes : store[n] # None => store[n].ts <= t
         /\ \A c \in Clients : op[c] # None => CallBounded(op[c], t)
         /\ \A r \in late : r.ts <= t
         /\ floor.written <= t /\ floor.known <= t
<1>1. clock \in 0..MaxTs /\ ts \in 1..MaxTs /\ MaxTs \in Nat
  BY ReplicationConstants DEF Bounded, Stamp
<1>2. t \in 0..MaxTs /\ ts <= t /\ clock <= t
  BY <1>1 DEF Max2
<1>3. \A x \in Nat : x <= clock => x <= t
  BY <1>1, <1>2
<1>4. \A n \in Nodes : store[n] # None => store[n].ts <= t
  BY <1>3 DEF WellFormed, Slot, Entry, Bounded
<1>5. ASSUME NEW c \in Clients, op[c] # None PROVE CallBounded(op[c], t)
  <2>1. CallOK(op[c]) /\ CallBounded(op[c], clock)
    BY <1>5 DEF WellFormed, CallsOK, Bounded
  <2>2. op[c].ts \in Nat
    BY <2>1 DEF CallOK, Served
  <2>3. ASSUME NEW m, op[c].kind = "get", Told(op[c], m) PROVE op[c].res[m].ts \in Nat
    BY <2>1, <2>3 DEF CallOK, Told, Result, VersionedValue
  <2> QED
    BY <1>3, <2>1, <2>2, <2>3 DEF CallBounded
<1>6. \A r \in late : r.ts <= t
  BY <1>3 DEF WellFormed, RequestOK, Served, Bounded
<1>7. floor.written <= t /\ floor.known <= t
  BY <1>3 DEF WellFormed, Bounded
<1> QED
  BY <1>2, <1>4, <1>5, <1>6, <1>7

LEMMA BoundedStep ==
  ASSUME WellFormed, Bounded, [Next]_vars
  PROVE  Bounded'
<1> USE DEF Bounded
(* A request no newer than the clock is served. *)
<1>1. ASSUME NEW n \in Nodes, NEW kind, NEW v, NEW ts, Served(kind, v, ts), Serves(n, kind, v, ts),
             NEW t, ts <= t, \A x \in Nodes : store[x] # None => store[x].ts <= t
      PROVE  \A x \in Nodes : store'[x] # None => store'[x].ts <= t
  <2>1. /\ \A x \in Nodes : x # n => store'[x] = store[x]
        /\ store'[n] = store[n] \/ store'[n] = Holding(v, ts)
    BY <1>1, ServesIs
  <2> QED
    BY <1>1, <2>1 DEF Holding
<1>2. ASSUME NEW c \in Clients, NEW m \in Nodes, op[c] # None,
             Serves(m, op[c].kind, op[c].value, op[c].ts)
      PROVE  \A x \in Nodes : store'[x] # None => store'[x].ts <= clock
  <2>1. Served(op[c].kind, op[c].value, op[c].ts)
    BY <1>2, ServedCall
  <2>2. op[c].ts <= clock
    BY <1>2 DEF CallBounded
  <2> QED
    BY <1>1, <1>2, <2>1, <2>2
(* A call that learns r from m, which is no newer than the clock. *)
<1>3. ASSUME NEW o, NEW p, NEW m, NEW r, NEW k, CallBounded(o, clock), Updated(o, p, m, r, k),
             o.kind = "get" /\ r # None => r.ts <= clock
      PROVE  CallBounded(p, clock)
  BY <1>3 DEF Updated, CallBounded, Told
<1>4. ASSUME NEW c \in Clients, Moves(c, op'), op'[c] # None => CallBounded(op'[c], clock)
      PROVE  \A d \in Clients : op'[d] # None => CallBounded(op'[d], clock)
  BY <1>4 DEF Moves
<1>5. ASSUME NEW m \in Nodes, Versioned(store[m], 0) # None
      PROVE  Versioned(store[m], 0).ts <= clock
  BY <1>5, ToldVersion DEF WellFormed
<1>6. CASE BeginStep
  <2>1. PICK c \in Clients, n \in Nodes : \E kind, v, ts : Begins(c, n, kind, v, ts)
    BY <1>6 DEF BeginStep
  <2>2. PICK kind, v, ts : Begins(c, n, kind, v, ts)
    BY <2>1
  <2>3. Served(kind, v, ts) /\ v \in Values \cup {TOMBSTONE, None}
    BY <2>2 DEF Begins, Served, Stamp
  <2>4. PICK o : o = NewOp(n, kind, v, ts)
    OBVIOUS
  <2>5. o \in Call /\ o.ts = ts /\ DOMAIN o.res = {}
    BY <2>3, <2>4, NewOpIs
  <2>6. op' = [op EXCEPT ![c] = o] /\ UNCHANGED <<store, late, disturbed, floor>>
    BY <2>2, <2>4 DEF Begins
  <2>7. /\ clock' \in 0..MaxTs /\ ts <= clock'
        /\ \A x \in Nodes : store[x] # None => store[x].ts <= clock'
        /\ \A d \in Clients : op[d] # None => CallBounded(op[d], clock')
        /\ \A r \in late : r.ts <= clock'
        /\ floor.written <= clock' /\ floor.known <= clock'
    <3>1. CASE ts \in Stamp /\ clock' = Max2(clock, ts)
      BY <3>1, LaterClock
    <3>2. CASE ts = 0 /\ clock' = clock
      BY <3>2
    <3> QED
      BY <2>2, <3>1, <3>2 DEF Begins
  <2>8. CallBounded(o, clock')
    BY <2>5, <2>7 DEF CallBounded, Told
  <2>9. \A d \in Clients : op'[d] # None => CallBounded(op'[d], clock')
    BY <2>6, <2>7, <2>8 DEF WellFormed, CallsOK
  <2> QED
    BY <2>6, <2>7, <2>9
<1>7. CASE WriteAloneStep
  <2>1. PICK n \in Nodes : \E kind, v : \E ts \in Stamp :
          /\ (kind = "set" /\ v \in Values) \/ (kind = "delete" /\ v = TOMBSTONE)
          /\ Serves(n, kind, v, ts)
          /\ clock' = Max2(clock, ts)
          /\ UNCHANGED <<ring, op, late, disturbed, floor>>
    BY <1>7 DEF WriteAloneStep
  <2>2. PICK kind, v, ts :
          /\ ts \in Stamp /\ Served(kind, v, ts)
          /\ Serves(n, kind, v, ts)
          /\ clock' = Max2(clock, ts)
          /\ UNCHANGED <<ring, op, late, disturbed, floor>>
    BY <2>1, StampedWrite
  <2>3. PICK t : t = Max2(clock, ts)
    OBVIOUS
  <2>4. /\ t \in 0..MaxTs /\ ts <= t
        /\ \A x \in Nodes : store[x] # None => store[x].ts <= t
        /\ \A c \in Clients : op[c] # None => CallBounded(op[c], t)
        /\ \A r \in late : r.ts <= t
        /\ floor.written <= t /\ floor.known <= t
    BY <2>2, <2>3, LaterClock
  <2>5. \A x \in Nodes : store'[x] # None => store'[x].ts <= t
    BY <1>1, <2>2, <2>4
  <2> QED
    BY <2>2, <2>3, <2>4, <2>5
<1>8. CASE CallStep
  <2>1. PICK c \in Clients, n \in Nodes :
          \/ /\ CallLocal(c, n)
             /\ Serves(n, op[c].kind, op[c].value, op[c].ts)
             /\ UNCHANGED <<ring, late, clock, disturbed, floor>>
          \/ CallRemote(c, n)
    BY <1>8 DEF CallStep
  <2>2. CASE CallLocal(c, n) /\ Serves(n, op[c].kind, op[c].value, op[c].ts)
             /\ UNCHANGED <<ring, late, clock, disturbed, floor>>
    <3>1. /\ op[c] # None /\ Moves(c, op')
          /\ Updated(op[c], op'[c], n, LocalReply(op[c].kind, store[n], op[c].ts), 1)
      BY <2>2, CallLocalIs
    <3>2. op[c].kind = "get" => LocalReply(op[c].kind, store[n], op[c].ts) = Versioned(store[n], 0)
      BY DEF LocalReply, RemoteReply
    <3>3. CallBounded(op'[c], clock)
      BY <1>3, <1>5, <3>1, <3>2
    <3> QED
      BY <1>2, <1>4, <2>2, <3>1, <3>3
  <2>3. CASE CallRemote(c, n)
    <3>1. op[c] # None /\ Moves(c, op') /\ Asked(op[c], op'[c], n)
      BY <2>3, CallRemoteIs
    <3>2. CallBounded(op'[c], clock)
      BY <3>1 DEF Asked, CallBounded, Told
    <3> QED
      BY <1>4, <2>3, <3>1, <3>2 DEF CallRemote
  <2> QED
    BY <2>1, <2>2, <2>3
<1>9. CASE AnswerStep
  <2>1. PICK c \in Clients, m \in Nodes :
          /\ op[c] # None /\ m \in op[c].sent
          /\ UNCHANGED <<clock, floor>>
          /\ \/ op' = Answer(c, m, RemoteReply(op[c].kind, store[m]))
             \/ op' = Answer(c, m, NoReply(op[c].kind))
          /\ \/ Serves(m, op[c].kind, op[c].value, op[c].ts)
             \/ UNCHANGED <<store, acks>>
          /\ late' = late \/ late' = late \cup {Request(op[c], m)}
          /\ disturbed' = disturbed \/ (disturbed < MaxDisturbed /\ disturbed' = disturbed + 1)
    BY <1>9 DEF AnswerStep, Disturb
  <2>2. PICK r : /\ r \in Result(op[c].kind) /\ op' = Answer(c, m, r)
                 /\ op[c].kind = "get" => r = None \/ r = Versioned(store[m], 0)
    <3>1. NoReply(op[c].kind) \in Result(op[c].kind) /\ RemoteReply(op[c].kind, store[m]) \in Result(op[c].kind)
      BY <2>1, ServedCall
    <3>2. op[c].kind = "get" => NoReply(op[c].kind) = None /\ RemoteReply(op[c].kind, store[m]) = Versioned(store[m], 0)
      BY DEF NoReply, RemoteReply
    <3> QED
      BY <2>1, <3>1, <3>2
  <2>3. Moves(c, op') /\ Updated(op[c], op'[c], m, r, 0)
    BY <2>1, <2>2, AnsweredIs
  <2>4. CallBounded(op'[c], clock)
    BY <1>3, <1>5, <2>1, <2>2, <2>3
  <2>5. \A x \in Nodes : store'[x] # None => store'[x].ts <= clock
    BY <1>2, <2>1
  <2>6. \A q \in late' : q.ts <= clock
    BY <2>1 DEF Request, CallBounded
  <2>7. disturbed' \in 0..MaxDisturbed
    BY <2>1, ReplicationConstants
  <2> QED
    BY <1>4, <2>1, <2>3, <2>4, <2>5, <2>6, <2>7
<1>10. CASE RetryStep
  <2>1. PICK c \in Clients, m \in Nodes :
          /\ op[c] # None /\ disturbed < MaxDisturbed /\ disturbed' = disturbed + 1
          /\ \/ Serves(m, op[c].kind, op[c].value, op[c].ts) /\ UNCHANGED late
             \/ late' = late \cup {Request(op[c], m)} /\ UNCHANGED <<store, acks>>
          /\ UNCHANGED <<op, ring, clock, floor>>
    BY <1>10 DEF RetryStep, Disturb
  <2>2. \A x \in Nodes : store'[x] # None => store'[x].ts <= clock
    BY <1>2, <2>1
  <2>3. \A q \in late' : q.ts <= clock
    BY <2>1 DEF Request, CallBounded
  <2>4. disturbed' \in 0..MaxDisturbed
    BY <2>1, ReplicationConstants
  <2> QED
    BY <2>1, <2>2, <2>3, <2>4
<1>11. CASE LateStep
  <2>1. PICK r \in late : /\ Serves(r.dst, r.kind, r.value, r.ts)
                          /\ late' = late \ {r}
                          /\ UNCHANGED <<ring, op, clock, disturbed, floor>>
    BY <1>11 DEF LateStep
  <2>2. r.dst \in Nodes /\ Served(r.kind, r.value, r.ts)
    BY DEF WellFormed, RequestOK
  <2>3. \A x \in Nodes : store'[x] # None => store'[x].ts <= clock
    BY <1>1, <2>1, <2>2
  <2> QED
    BY <2>1, <2>3
<1>12. CASE EndStep
  <2>1. PICK c \in Clients : Finish(c) \/ Raise(c)
    BY <1>12 DEF EndStep
  <2>2. op' = [op EXCEPT ![c] = None] /\ UNCHANGED <<store, ring, late, clock>>
    BY <2>1 DEF Finish, Raise
  <2>3. disturbed' \in 0..MaxDisturbed
    BY <2>1, ReplicationConstants DEF Finish, Raise, Disturb
  <2>4. floor'.written <= clock /\ floor'.known <= clock
    <3>1. CASE Raise(c)
      BY <3>1 DEF Raise
    <3>2. CASE Finish(c)
      <4>1. Complete(op[c]) /\ op[c] # None /\ floor' = Raised(op[c])
        BY <3>2 DEF Finish, Complete
      <4>2. PICK o : o = op[c]
        OBVIOUS
      <4>3. CallOK(o) /\ CallBounded(o, clock) /\ o.sent = {} /\ o.ts \in Nat /\ o.ts <= clock
        BY <4>1, <4>2, ServedCall DEF Complete, CallBounded, Served
      <4>4. ASSUME o.kind = "get", ~FirstHitRead(o)
            PROVE  ReadVersion(o) \in Nat /\ ReadVersion(o) <= clock
        <5>1. PICK t : t = ReadVersion(o)
          OBVIOUS
        <5>2. ~Hit(o)
          BY <4>4 DEF Hit
        <5>3. t \in Nat /\ (t = 0 \/ \E m : Told(o, m) /\ o.res[m].ts = t)
          BY <4>3, <4>4, <5>1, <5>2, NewestTold
        <5>4. t <= clock
          BY <4>3, <4>4, <5>3 DEF CallBounded
        <5> QED
          BY <5>1, <5>3, <5>4
      <4>5. floor.written \in Nat /\ floor.known \in Nat
        BY DEF WellFormed
      <4>6. Raised(o).written <= clock /\ Raised(o).known <= clock
        BY <4>3, <4>4, <4>5 DEF Raised, Max2
      <4> QED
        BY <4>1, <4>2, <4>6
    <3> QED
      BY <2>1, <3>1, <3>2
  <2>5. \A d \in Clients : op'[d] # None => CallBounded(op'[d], clock)
    BY <2>2 DEF WellFormed, CallsOK
  <2> QED
    BY <2>2, <2>3, <2>4, <2>5
<1>13. CASE CrashStep
  <2>1. PICK n \in Nodes : Crash(n)
    BY <1>13 DEF CrashStep
  <2>2. /\ store' = [store EXCEPT ![n] = None]
        /\ op' = [c \in Clients |-> IF op[c] # None /\ op[c].at = n THEN None ELSE op[c]]
        /\ late' = {r \in late : r.dst # n}
        /\ UNCHANGED <<clock, floor>>
        /\ disturbed < MaxDisturbed /\ disturbed' = disturbed + 1
    BY <2>1 DEF Crash, Disturb
  <2>3. disturbed' \in 0..MaxDisturbed
    BY <2>2, ReplicationConstants
  <2>4. \A x \in Nodes : store'[x] # None => store'[x].ts <= clock
    BY <2>2 DEF WellFormed
  <2>5. \A c \in Clients : op'[c] = None \/ op'[c] = op[c]
    BY <2>2
  <2> QED
    BY <2>2, <2>3, <2>4, <2>5
<1>14. CASE RingStep
  BY <1>14, ReplicationConstants DEF RingStep, Disturb
<1>15. CASE UNCHANGED vars
  BY <1>15 DEF vars
<1> QED
  BY <1>6, <1>7, <1>8, <1>9, <1>10, <1>11, <1>12, <1>13, <1>14, <1>15, StepsAre

(* The fields of the state have their types, a call has either an answer   *)
(* or an open request at each node it has called, and no stamp or version  *)
(* passes the bound on the clock.                                          *)
THEOREM TypeCorrect == Spec => []TypeOK
<1>1. Init => Bounded
  BY ReplicationConstants DEF Init, Bounded
<1>2. WellFormed /\ Bounded /\ [Next]_vars => Bounded'
  BY BoundedStep
<1>3. WellFormed /\ Bounded => TypeOK
  <2> SUFFICES ASSUME WellFormed, Bounded PROVE TypeOK
    OBVIOUS
  <2>1. ASSUME NEW c \in Clients, op[c] # None
        PROVE  /\ op[c].kind \in {"set", "delete", "get"}
               /\ op[c].at \in Nodes
               /\ op[c].order \in Seq(Nodes)
               /\ op[c].called \in 0..Len(op[c].order)
               /\ op[c].sent \subseteq Nodes
               /\ \A m \in DOMAIN op[c].res : m \in Nodes /\ op[c].res[m] \in Result(op[c].kind)
               /\ \A i \in 1..op[c].called :
                    (op[c].order[i] \in op[c].sent) # (op[c].order[i] \in DOMAIN op[c].res)
    <3>1. PICK o : o = op[c]
      OBVIOUS
    <3>2. CallOK(o)
      BY <2>1, <3>1 DEF WellFormed, CallsOK
    <3>3. /\ o.kind \in {"set", "delete", "get"} /\ o.at \in Nodes /\ o.order \in Seq(Nodes)
          /\ o.called \in 0..Len(o.order) /\ o.sent \subseteq Nodes /\ o.res \in Replies
      BY <3>2 DEF CallOK, Call
    <3>4. DOMAIN o.res \subseteq Nodes
      BY <3>3 DEF Replies
    <3>5. \A m \in DOMAIN o.res : o.res[m] \in Result(o.kind)
      BY <3>2 DEF CallOK
    <3>6. ASSUME NEW i \in 1..o.called
          PROVE  (o.order[i] \in o.sent) # (o.order[i] \in DOMAIN o.res)
      <4>1. o.order[i] \in o.sent \/ o.order[i] \in DOMAIN o.res
        BY <3>2 DEF CallOK
      <4>2. ~(o.order[i] \in o.sent /\ o.order[i] \in DOMAIN o.res)
        BY <3>2 DEF CallOK
      <4> QED
        BY <4>1, <4>2, Zenon
    <3> QED
      BY <3>1, <3>3, <3>4, <3>5, <3>6
  <2>2. \A r \in late : r.dst \in Nodes /\ r.kind \in {"set", "delete"}
    BY DEF WellFormed, RequestOK, Served
  <2>3. floor \in [written : 0..MaxTs, known : 0..MaxTs]
    BY ReplicationConstants DEF WellFormed, Bounded
  <2> QED
    BY <2>1, <2>2, <2>3 DEF WellFormed, Bounded, TypeOK
<1> QED
  BY <1>1, <1>2, <1>3, WellFormedAlways, PTL DEF Spec

-----------------------------------------------------------------------------
(* Fresh reads.  The rings agree and stay, every request is answered by    *)
(* the replica it was sent to, once or twice, and a write may be cut short *)
(* by an exception: what "properly synchronized" takes (lww.py:27).        *)
Steady ==
  /\ InitRing = [n \in Nodes |-> Nodes]
  /\ Disturbances \subseteq {"retry", "raise"}

Replicas == TopN(Nodes, Score, Replication)

VersionOf(e) == IF e = None THEN 0 ELSE e.ts

(* The version a read has of m, or would be told. *)
Seen(o, s, m) == IF m \in DOMAIN o.res THEN VersionOf(o.res[m]) ELSE VersionOf(s[m])

(* A read can still return a version as new as its floor, and an FHW read  *)
(* nothing older; a write is held where it was answered.                   *)
CallFresh(o, s) ==
  /\ \A x : x \in Replicas <=> \E i \in 1..Len(o.order) : x = o.order[i]
  /\ o.kind # "get" => \A m \in DOMAIN o.res : VersionOf(s[m]) >= o.ts
  /\ o.kind = "get" =>
       /\ \A m \in DOMAIN o.res : VersionOf(s[m]) >= VersionOf(o.res[m])
       /\ o.floor = 0 \/ \E m \in Replicas : Seen(o, s, m) >= o.floor
       /\ o.at \in FirstHit => \A m \in Replicas : Seen(o, s, m) >= o.floor

(* Every replica has what was written, one of them what is known. *)
Fresh ==
  /\ \A n \in Nodes : ring[n] = Nodes
  /\ \A m \in Replicas : VersionOf(store[m]) >= floor.written
  /\ floor.known = 0 \/ \E m \in Replicas : VersionOf(store[m]) >= floor.known
  /\ floor.written <= floor.known
  /\ \A c \in Clients : op[c] # None => CallFresh(op[c], store)

LEMMA ReplicasAreNodes == Replicas \subseteq Nodes
  BY DEF Replicas, TopN

LEMMA StoreVersion ==
  ASSUME NEW e \in Slot
  PROVE  VersionOf(e) \in Nat /\ VersionOf(Versioned(e, 0)) = VersionOf(e)
  BY ToldVersion DEF VersionOf

LEMMA CallVersions ==
  ASSUME NEW o, CallOK(o)
  PROVE  /\ o.ts \in Nat /\ o.floor \in Nat /\ DOMAIN o.res \subseteq Nodes
         /\ o.kind = "get" => \A m \in DOMAIN o.res : VersionOf(o.res[m]) \in Nat
<1>1. o.ts \in Nat /\ o.floor \in Nat /\ o.res \in Replies
  BY DEF CallOK, Call
<1>2. DOMAIN o.res \subseteq Nodes
  BY <1>1 DEF Replies
<1>3. ASSUME NEW m \in DOMAIN o.res, o.kind = "get" PROVE VersionOf(o.res[m]) \in Nat
  BY <1>3 DEF CallOK, Result, VersionedValue, VersionOf
<1> QED
  BY <1>1, <1>2, <1>3

(* Newer stores keep a call fresh, *)
LEMMA FreshGrows ==
  ASSUME NEW o, CallOK(o), NEW s \in [Nodes -> Slot], NEW s2 \in [Nodes -> Slot], CallFresh(o, s),
         \A m \in Nodes : VersionOf(s2[m]) >= VersionOf(s[m])
  PROVE  CallFresh(o, s2)
<1>1. /\ o.ts \in Nat /\ o.floor \in Nat /\ DOMAIN o.res \subseteq Nodes
      /\ o.kind = "get" => \A m \in DOMAIN o.res : VersionOf(o.res[m]) \in Nat
  BY CallVersions
<1>2. \A m \in Nodes : VersionOf(s[m]) \in Nat /\ VersionOf(s2[m]) \in Nat
  BY StoreVersion
<1>3. o.kind # "get" => \A m \in DOMAIN o.res : VersionOf(s2[m]) >= o.ts
  BY <1>1, <1>2 DEF CallFresh
<1>4. ASSUME o.kind = "get"
      PROVE  /\ \A m \in DOMAIN o.res : VersionOf(s2[m]) >= VersionOf(o.res[m])
             /\ o.floor = 0 \/ \E m \in Replicas : Seen(o, s2, m) >= o.floor
             /\ o.at \in FirstHit => \A m \in Replicas : Seen(o, s2, m) >= o.floor
  <2>1. \A m \in DOMAIN o.res : VersionOf(s2[m]) >= VersionOf(o.res[m])
    BY <1>1, <1>2, <1>4 DEF CallFresh
  <2>2. ASSUME NEW m \in Replicas, Seen(o, s, m) >= o.floor PROVE Seen(o, s2, m) >= o.floor
    BY <1>1, <1>2, <2>2, ReplicasAreNodes DEF Seen
  <2> QED
    BY <1>4, <2>1, <2>2 DEF CallFresh
<1> QED
  BY <1>3, <1>4 DEF CallFresh

(* and so does an answer with what the replica holds. *)
LEMMA FreshAnswer ==
  ASSUME NEW o, NEW p, CallOK(o), NEW s \in [Nodes -> Slot], CallFresh(o, s),
         NEW m \in Nodes, NEW r, NEW k, Updated(o, p, m, r, k),
         o.kind = "get" => VersionOf(r) = VersionOf(s[m]),
         o.kind # "get" => VersionOf(s[m]) >= o.ts
  PROVE  CallFresh(p, s)
<1>1. /\ o.ts \in Nat /\ o.floor \in Nat /\ DOMAIN o.res \subseteq Nodes
      /\ o.kind = "get" => \A x \in DOMAIN o.res : VersionOf(o.res[x]) \in Nat
  BY CallVersions
<1>2. \A x \in Nodes : VersionOf(s[x]) \in Nat
  BY StoreVersion
<1>3. /\ p.kind = o.kind /\ p.at = o.at /\ p.ts = o.ts /\ p.order = o.order /\ p.floor = o.floor
      /\ DOMAIN p.res = DOMAIN o.res \cup {m} /\ p.res[m] = r
      /\ \A x \in DOMAIN o.res : x # m => p.res[x] = o.res[x]
  BY DEF Updated
<1>4. p.kind # "get" => \A x \in DOMAIN p.res : VersionOf(s[x]) >= p.ts
  BY <1>3 DEF CallFresh
<1>5. ASSUME o.kind = "get"
      PROVE  /\ \A x \in DOMAIN p.res : VersionOf(s[x]) >= VersionOf(p.res[x])
             /\ o.floor = 0 \/ \E x \in Replicas : Seen(p, s, x) >= o.floor
             /\ o.at \in FirstHit => \A x \in Replicas : Seen(p, s, x) >= o.floor
  <2>1. \A x \in DOMAIN p.res : VersionOf(s[x]) >= VersionOf(p.res[x])
    BY <1>2, <1>3, <1>5 DEF CallFresh
  <2>2. ASSUME NEW x \in Replicas, Seen(o, s, x) >= o.floor PROVE Seen(p, s, x) >= o.floor
    <3>1. x \in Nodes
      BY ReplicasAreNodes
    <3>2. CASE x = m /\ m \in DOMAIN o.res
      <4>1. Seen(p, s, x) = VersionOf(s[m]) /\ Seen(o, s, x) = VersionOf(o.res[m])
        BY <1>3, <1>5, <3>2 DEF Seen
      <4>2. VersionOf(s[m]) >= VersionOf(o.res[m])
        BY <1>5, <3>2 DEF CallFresh
      <4> QED
        BY <1>1, <1>2, <1>5, <2>2, <3>2, <4>1, <4>2
    <3>3. CASE x = m /\ m \notin DOMAIN o.res
      BY <1>3, <1>5, <2>2, <3>3 DEF Seen
    <3>4. CASE x # m
      BY <1>3, <2>2, <3>4 DEF Seen
    <3> QED
      BY <3>2, <3>3, <3>4
  <2> QED
    BY <1>5, <2>1, <2>2 DEF CallFresh
<1> QED
  BY <1>3, <1>4, <1>5 DEF CallFresh

(* A finished call has heard of every replica, unless FHW stopped at a hit. *)
LEMMA HeardAll ==
  ASSUME NEW o, NEW s, CallOK(o), CallFresh(o, s), Complete(o)
  PROVE  /\ o.sent = {} /\ DOMAIN o.res \subseteq Replicas
         /\ ~Hit(o) => DOMAIN o.res = Replicas
<1>1. o.sent = {} /\ (o.called = Len(o.order) \/ Hit(o))
  BY DEF Complete
<1>2. o.called \in Nat /\ Len(o.order) \in Nat /\ o.called <= Len(o.order)
  BY DEF CallOK, Call
<1>3. \A x : x \in DOMAIN o.res <=> \E i \in 1..o.called : x = o.order[i]
  BY <1>1 DEF CallOK
<1>4. \A x : x \in Replicas <=> \E i \in 1..Len(o.order) : x = o.order[i]
  BY DEF CallFresh
<1>5. \A i \in 1..o.called : i \in 1..Len(o.order)
  BY <1>2
<1>6. DOMAIN o.res \subseteq Replicas
  BY <1>3, <1>4, <1>5
<1>7. ASSUME ~Hit(o) PROVE DOMAIN o.res = Replicas
  <2>1. o.called = Len(o.order)
    BY <1>1, <1>7
  <2>2. \A x : x \in DOMAIN o.res <=> x \in Replicas
    BY <1>3, <1>4, <2>1
  <2> QED
    BY <2>2
<1> QED
  BY <1>1, <1>6, <1>7

LEMMA FreshIsRead ==
  ASSUME NEW o, NEW s, CallOK(o), CallFresh(o, s), Complete(o), o.kind = "get"
  PROVE  ReadVersion(o) >= o.floor
<1>1. o.sent = {} /\ DOMAIN o.res \subseteq Replicas /\ (~Hit(o) => DOMAIN o.res = Replicas)
  BY HeardAll
<1>2. o.floor \in Nat
  BY CallVersions
<1>3. CASE Hit(o)
  <2>1. PICK m : Told(o, m) /\ ReadVersion(o) = o.res[m].ts
    BY <1>1, <1>3, HitTold
  <2>2. m \in Replicas /\ Seen(o, s, m) = o.res[m].ts
    BY <1>1, <2>1 DEF Told, Seen, VersionOf
  <2>3. o.at \in FirstHit
    BY <1>3 DEF Hit, FirstHitRead
  <2> QED
    BY <2>1, <2>2, <2>3 DEF CallFresh
<1>4. CASE ~Hit(o)
  <2>1. PICK t : t = ReadVersion(o)
    OBVIOUS
  <2>2. /\ t \in Nat
        /\ \A m : Told(o, m) => o.res[m].ts \in Nat /\ o.res[m].ts <= t
    BY <1>1, <1>4, <2>1, NewestTold
  <2>3. ASSUME NEW m \in Replicas, Seen(o, s, m) >= o.floor PROVE t >= o.floor
    <3>1. m \in DOMAIN o.res /\ VersionOf(o.res[m]) >= o.floor
      BY <1>1, <1>4, <2>3 DEF Seen
    <3>2. CASE o.res[m] = None
      BY <1>2, <2>2, <3>1, <3>2 DEF VersionOf
    <3>3. CASE o.res[m] # None
      BY <1>2, <2>2, <3>1, <3>3 DEF VersionOf, Told
    <3> QED
      BY <3>2, <3>3
  <2> QED
    BY <1>2, <2>1, <2>2, <2>3 DEF CallFresh
<1> QED
  BY <1>3, <1>4

(* What a served request does to the versions. *)
LEMMA VersionsGrow ==
  ASSUME WellFormed, NEW n \in Nodes, NEW kind, NEW v, NEW ts, Served(kind, v, ts),
         Serves(n, kind, v, ts)
  PROVE  /\ store \in [Nodes -> Slot] /\ store' \in [Nodes -> Slot]
         /\ \A m \in Nodes : VersionOf(store'[m]) >= VersionOf(store[m])
         /\ kind # "get" => VersionOf(store'[n]) >= ts
         /\ kind = "get" => store' = store
<1>1. /\ store' \in [Nodes -> Slot]
      /\ \A x \in Nodes : x # n => store'[x] = store[x]
      /\ store[n] # None => store'[n] # None /\ store'[n].ts >= store[n].ts
      /\ kind # "get" => store'[n] # None /\ store'[n].ts >= ts
      /\ kind = "get" => store' = store
  BY ServesIs
<1>2. store \in [Nodes -> Slot]
  BY DEF WellFormed
<1>3. \A m \in Nodes : VersionOf(store[m]) \in Nat /\ VersionOf(store'[m]) \in Nat
  BY <1>1, <1>2, StoreVersion
<1>4. ASSUME NEW m \in Nodes PROVE VersionOf(store'[m]) >= VersionOf(store[m])
  <2>1. CASE m # n
    BY <1>1, <1>3, <2>1
  <2>2. CASE m = n /\ store[n] = None
    <3>1. VersionOf(store[m]) = 0 /\ VersionOf(store'[m]) \in Nat
      BY <1>3, <2>2 DEF VersionOf
    <3> QED
      BY <3>1
  <2>3. CASE m = n /\ store[n] # None
    BY <1>1, <2>3 DEF VersionOf
  <2> QED
    BY <2>1, <2>2, <2>3
<1>5. kind # "get" => VersionOf(store'[n]) >= ts
  BY <1>1 DEF VersionOf
<1> QED
  BY <1>1, <1>2, <1>4, <1>5

(* The stores grow and the floors stay: only the call of c needs a look. *)
LEMMA FreshIfGrown ==
  ASSUME WellFormed, Fresh, store \in [Nodes -> Slot], store' \in [Nodes -> Slot],
         \A m \in Nodes : VersionOf(store'[m]) >= VersionOf(store[m]),
         UNCHANGED <<ring, floor>>,
         \A c \in Clients : op'[c] # None => op'[c] = op[c] \/ CallFresh(op'[c], store')
  PROVE  Fresh'
<1>1. \A m \in Nodes : VersionOf(store[m]) \in Nat /\ VersionOf(store'[m]) \in Nat
  BY StoreVersion
<1>2. floor.written \in Nat /\ floor.known \in Nat
  BY DEF WellFormed
<1>3. \A m \in Replicas : VersionOf(store'[m]) >= floor.written
  BY <1>1, <1>2, ReplicasAreNodes DEF Fresh
<1>4. floor.known = 0 \/ \E m \in Replicas : VersionOf(store'[m]) >= floor.known
  BY <1>1, <1>2, ReplicasAreNodes DEF Fresh
<1>5. ASSUME NEW c \in Clients, op'[c] # None PROVE CallFresh(op'[c], store')
  <2>1. CASE op'[c] = op[c]
    <3>1. op[c] # None /\ CallOK(op[c]) /\ CallFresh(op[c], store)
      BY <1>5, <2>1 DEF WellFormed, CallsOK, Fresh
    <3>2. CallFresh(op[c], store')
      BY <3>1, FreshGrows
    <3> QED
      BY <2>1, <3>2
  <2> QED
    BY <1>5, <2>1
<1> QED
  BY <1>3, <1>4, <1>5 DEF Fresh

LEMMA FreshBegin ==
  ASSUME WellFormed, Fresh, BeginStep
  PROVE  Fresh'
<1>1. PICK c \in Clients, n \in Nodes : \E kind, v, ts : Begins(c, n, kind, v, ts)
  BY DEF BeginStep
<1>2. PICK kind, v, ts : Begins(c, n, kind, v, ts)
  BY <1>1
<1>3. Served(kind, v, ts) /\ v \in Values \cup {TOMBSTONE, None}
  BY <1>2 DEF Begins, Served, Stamp
<1>4. PICK o : o = NewOp(n, kind, v, ts)
  OBVIOUS
<1>5. /\ o \in Call /\ CallOK(o) /\ o.kind = kind /\ o.at = n /\ DOMAIN o.res = {}
      /\ o.order = GetNodes(ring[n], Score, Replication)
      /\ kind = "get" => o.floor = FloorAt(n)
  BY <1>3, <1>4, NewOpIs
<1>6. op' = [op EXCEPT ![c] = o] /\ UNCHANGED <<store, ring, floor>>
  BY <1>2, <1>4 DEF Begins
<1>7. o.order = GetNodes(Nodes, Score, Replication)
  BY <1>5 DEF Fresh
<1>8. \A x : x \in Replicas <=> \E i \in 1..Len(o.order) : x = o.order[i]
  BY <1>7, OrderIs DEF Replicas
<1>9. \A m \in Nodes : VersionOf(store[m]) \in Nat
  BY StoreVersion DEF WellFormed
<1>10. floor.written \in Nat /\ floor.known \in Nat
  BY DEF WellFormed
<1>11. ASSUME kind = "get"
       PROVE  /\ o.floor = 0 \/ \E m \in Replicas : Seen(o, store, m) >= o.floor
              /\ o.at \in FirstHit => \A m \in Replicas : Seen(o, store, m) >= o.floor
  <2>1. \A m \in Replicas : m \in Nodes /\ Seen(o, store, m) = VersionOf(store[m])
    BY <1>5, ReplicasAreNodes DEF Seen
  <2>2. CASE n \in FirstHit
    <3>1. o.floor = floor.written
      BY <1>5, <1>11, <2>2 DEF FloorAt
    <3>2. \A m \in Replicas : Seen(o, store, m) >= o.floor
      BY <2>1, <3>1 DEF Fresh
    <3>3. CASE floor.known = 0
      BY <1>10, <3>1, <3>2, <3>3 DEF Fresh
    <3>4. CASE floor.known # 0
      BY <3>2, <3>4 DEF Fresh
    <3> QED
      BY <3>2, <3>3, <3>4
  <2>3. CASE n \notin FirstHit
    <3>1. o.floor = floor.known
      BY <1>5, <1>11, <2>3 DEF FloorAt
    <3> QED
      BY <1>5, <2>1, <2>3, <3>1 DEF Fresh
  <2> QED
    BY <2>2, <2>3
<1>12. CallFresh(o, store)
  BY <1>5, <1>8, <1>11 DEF CallFresh
<1>13. \A d \in Clients : op'[d] # None => CallFresh(op'[d], store)
  BY <1>6, <1>12 DEF Fresh, WellFormed, CallsOK
<1> QED
  BY <1>6, <1>13 DEF Fresh

LEMMA FreshFinish ==
  ASSUME WellFormed, Fresh, NEW c \in Clients, Finish(c)
  PROVE  Fresh'
<1>1. PICK o : o = op[c]
  OBVIOUS
<1>2. /\ Complete(o) /\ o # None /\ CallOK(o) /\ CallFresh(o, store) /\ floor' = Raised(o)
      /\ op' = [op EXCEPT ![c] = None] /\ UNCHANGED <<store, ring>>
  BY <1>1 DEF Finish, Complete, WellFormed, CallsOK, Fresh
<1>3. o.sent = {} /\ DOMAIN o.res \subseteq Replicas /\ (~Hit(o) => DOMAIN o.res = Replicas)
  BY <1>2, HeardAll
<1>4. floor.written \in Nat /\ floor.known \in Nat /\ o.ts \in Nat
  BY <1>2 DEF WellFormed, CallOK, Served
<1>5. \A m \in Replicas : VersionOf(store[m]) \in Nat
  BY StoreVersion, ReplicasAreNodes DEF WellFormed
<1> DEFINE w == IF o.kind # "get" /\ WriteOk(o) THEN o.ts ELSE 0
           t == IF o.kind = "get" /\ ~FirstHitRead(o) THEN ReadVersion(o) ELSE 0
<1>6. floor' = [written |-> Max2(floor.written, w), known |-> Max2(floor.known, Max2(w, t))]
  BY <1>2 DEF Raised
(* A write reported successful is at every replica. *)
<1>7. w \in Nat /\ (\A m \in Replicas : VersionOf(store[m]) >= w) /\ (w = 0 \/ Replicas # {})
  <2>1. CASE o.kind # "get" /\ WriteOk(o)
    <3>1. ~Hit(o)
      BY <2>1 DEF Hit, FirstHitRead
    <3> QED
      BY <1>2, <1>3, <1>4, <2>1, <3>1 DEF CallFresh, WriteOk
  <2>2. CASE ~(o.kind # "get" /\ WriteOk(o))
    BY <1>5, <2>2
  <2> QED
    BY <2>1, <2>2
(* The version a read returns is at the replica that told it. *)
<1>8. t \in Nat /\ (t = 0 \/ \E m \in Replicas : VersionOf(store[m]) >= t)
  <2>1. CASE o.kind = "get" /\ ~FirstHitRead(o)
    <3>1. ~Hit(o)
      BY <2>1 DEF Hit
    <3>2. PICK u : u = ReadVersion(o)
      OBVIOUS
    <3>3. u \in Nat /\ (u = 0 \/ \E m : Told(o, m) /\ o.res[m].ts = u)
      BY <1>2, <1>3, <2>1, <3>1, <3>2, NewestTold
    <3>4. ASSUME NEW m, Told(o, m), o.res[m].ts = u PROVE m \in Replicas /\ VersionOf(store[m]) >= u
      <4>1. m \in DOMAIN o.res /\ VersionOf(o.res[m]) = u
        BY <3>4 DEF Told, VersionOf
      <4> QED
        BY <1>2, <1>3, <2>1, <4>1 DEF CallFresh
    <3> QED
      BY <2>1, <3>2, <3>3, <3>4
  <2>2. CASE ~(o.kind = "get" /\ ~FirstHitRead(o))
    BY <2>2
  <2> QED
    BY <2>1, <2>2
<1> HIDE DEF w, t
<1>9. floor'.written = Max2(floor.written, w) /\ floor'.known = Max2(floor.known, Max2(w, t))
  BY <1>6
<1>10. \A m \in Replicas : VersionOf(store[m]) >= floor'.written
  BY <1>4, <1>5, <1>7, <1>9 DEF Fresh, Max2
<1>11. floor'.known = 0 \/ \E m \in Replicas : VersionOf(store[m]) >= floor'.known
  <2>1. floor'.known = floor.known \/ floor'.known = w \/ floor'.known = t
    BY <1>9 DEF Max2
  <2> QED
    BY <1>7, <1>8, <2>1 DEF Fresh
<1>12. floor'.written <= floor'.known
  BY <1>4, <1>7, <1>8, <1>9 DEF Fresh, Max2
<1>13. \A d \in Clients : op'[d] # None => CallFresh(op'[d], store)
  BY <1>2 DEF Fresh, WellFormed, CallsOK
<1> QED
  BY <1>2, <1>10, <1>11, <1>12, <1>13 DEF Fresh

(* A replica serves the request of c and its answer is in. *)
LEMMA FreshServed ==
  ASSUME WellFormed, Fresh, NEW c \in Clients, NEW m \in Nodes, op[c] # None,
         Serves(m, op[c].kind, op[c].value, op[c].ts), Moves(c, op'),
         NEW r, NEW k, Updated(op[c], op'[c], m, r, k),
         op[c].kind = "get" => r = Versioned(store[m], 0),
         UNCHANGED <<ring, floor>>
  PROVE  Fresh'
<1>1. PICK o : o = op[c]
  OBVIOUS
<1>2. CallOK(o) /\ Served(o.kind, o.value, o.ts) /\ CallFresh(o, store)
  BY <1>1, ServedCall DEF Fresh
<1>3. /\ store \in [Nodes -> Slot] /\ store' \in [Nodes -> Slot]
      /\ \A x \in Nodes : VersionOf(store'[x]) >= VersionOf(store[x])
      /\ o.kind # "get" => VersionOf(store'[m]) >= o.ts
      /\ o.kind = "get" => store' = store
  BY <1>1, <1>2, VersionsGrow
<1>4. CallFresh(o, store')
  BY <1>2, <1>3, FreshGrows
<1>5. o.kind = "get" => VersionOf(r) = VersionOf(store'[m])
  BY <1>1, <1>3, StoreVersion
<1>6. CallFresh(op'[c], store')
  BY <1>1, <1>2, <1>3, <1>4, <1>5, FreshAnswer
<1>7. \A d \in Clients : op'[d] # None => op'[d] = op[d] \/ CallFresh(op'[d], store')
  BY <1>6 DEF Moves
<1> QED
  BY <1>3, <1>7, FreshIfGrown

LEMMA FreshStep ==
  ASSUME Steady, WellFormed, Fresh, [Next]_vars
  PROVE  Fresh'
<1>1. ASSUME UNCHANGED <<store, ring, floor>>,
             \A c \in Clients : op'[c] # None => op'[c] = op[c] \/ CallFresh(op'[c], store)
      PROVE  Fresh'
  BY <1>1 DEF Fresh
<1>2. ASSUME NEW n \in Nodes, NEW kind, NEW v, NEW ts, Served(kind, v, ts), Serves(n, kind, v, ts),
             UNCHANGED <<ring, op, floor>>
      PROVE  Fresh'
  <2>1. /\ store \in [Nodes -> Slot] /\ store' \in [Nodes -> Slot]
        /\ \A x \in Nodes : VersionOf(store'[x]) >= VersionOf(store[x])
    BY <1>2, VersionsGrow
  <2> QED
    BY <1>2, <2>1, FreshIfGrown
<1>3. ~WriteAloneStep
  BY DEF WriteAloneStep, Fresh
<1>4. CASE CallStep
  <2>1. PICK c \in Clients, n \in Nodes :
          \/ /\ CallLocal(c, n)
             /\ Serves(n, op[c].kind, op[c].value, op[c].ts)
             /\ UNCHANGED <<ring, late, clock, disturbed, floor>>
          \/ CallRemote(c, n)
    BY <1>4 DEF CallStep
  <2>2. CASE CallLocal(c, n) /\ Serves(n, op[c].kind, op[c].value, op[c].ts)
             /\ UNCHANGED <<ring, late, clock, disturbed, floor>>
    <3>1. PICK r : r = LocalReply(op[c].kind, store[n], op[c].ts)
      OBVIOUS
    <3>2. op[c] # None /\ Moves(c, op') /\ Updated(op[c], op'[c], n, r, 1)
      BY <2>2, <3>1, CallLocalIs
    <3>3. op[c].kind = "get" => r = Versioned(store[n], 0)
      BY <3>1 DEF LocalReply, RemoteReply
    <3> QED
      BY <2>2, <3>2, <3>3, FreshServed
  <2>3. CASE CallRemote(c, n)
    <3>1. op[c] # None /\ Moves(c, op') /\ Asked(op[c], op'[c], n)
      BY <2>3, CallRemoteIs
    <3>2. CallFresh(op[c], store)
      BY <3>1 DEF Fresh
    <3>3. CallFresh(op'[c], store)
      BY <3>1, <3>2 DEF Asked, CallFresh, Seen
    <3> QED
      BY <1>1, <2>3, <3>1, <3>3 DEF CallRemote, Moves
  <2> QED
    BY <2>1, <2>2, <2>3
<1>5. CASE AnswerStep
  <2>1. ~Disturb("timeout") /\ ~Disturb("reply")
    BY DEF Steady, Disturb
  <2>2. PICK c \in Clients, m \in Nodes :
          /\ op[c] # None /\ m \in op[c].sent
          /\ op' = Answer(c, m, RemoteReply(op[c].kind, store[m]))
          /\ Serves(m, op[c].kind, op[c].value, op[c].ts)
          /\ UNCHANGED <<ring, floor>>
    BY <1>5, <2>1 DEF AnswerStep, Fresh
  <2>3. PICK r : r = RemoteReply(op[c].kind, store[m])
    OBVIOUS
  <2>4. r \in Result(op[c].kind)
    BY <2>2, <2>3, ServedCall
  <2>5. Moves(c, op') /\ Updated(op[c], op'[c], m, r, 0)
    BY <2>2, <2>3, <2>4, AnsweredIs
  <2>6. op[c].kind = "get" => r = Versioned(store[m], 0)
    BY <2>3 DEF RemoteReply
  <2> QED
    BY <2>2, <2>5, <2>6, FreshServed
<1>6. CASE RetryStep
  <2>1. PICK c \in Clients, m \in Nodes :
          /\ op[c] # None
          /\ Serves(m, op[c].kind, op[c].value, op[c].ts) \/ UNCHANGED store
          /\ UNCHANGED <<op, ring, floor>>
    BY <1>6 DEF RetryStep
  <2>2. Served(op[c].kind, op[c].value, op[c].ts)
    BY <2>1, ServedCall
  <2> QED
    BY <1>1, <1>2, <2>1, <2>2
<1>7. CASE LateStep
  BY <1>2, <1>7 DEF LateStep, WellFormed, RequestOK
<1>8. CASE EndStep
  <2>1. PICK c \in Clients : Finish(c) \/ Raise(c)
    BY <1>8 DEF EndStep
  <2>2. CASE Finish(c)
    BY <2>2, FreshFinish
  <2>3. CASE Raise(c)
    BY <1>1, <2>3 DEF Raise, WellFormed, CallsOK
  <2> QED
    BY <2>1, <2>2, <2>3
<1>9. ~CrashStep
  BY DEF Steady, CrashStep, Crash, Disturb
<1>10. ~RingStep
  <2>1. ~Disturb("join") /\ ~Disturb("evict")
    BY DEF Steady, Disturb
  <2>2. \A n \in Nodes : ring[n] # {}
    BY DEF Fresh
  <2> QED
    BY <2>1, <2>2 DEF RingStep
<1>11. CASE UNCHANGED vars
  BY <1>1, <1>11 DEF vars
<1> QED
  BY <1>3, <1>4, <1>5, <1>6, <1>7, <1>8, <1>9, <1>10, <1>11, FreshBegin, StepsAre

(* With rings that agree, replicas that answer, requests that may be sent  *)
(* twice and writes that may be cut short, a read returns a version at     *)
(* least as new as every write reported successful before it began and,    *)
(* under LWW, every version an earlier LWW read returned; for any number   *)
(* of nodes, clients and replicas, sync and async nodes and both policies  *)
(* mixed, and any skew between the clocks.                                 *)
THEOREM ReadsAreFresh == ASSUME Steady PROVE Spec => []FreshRead
<1>1. Init => Fresh
  <2> SUFFICES ASSUME Init PROVE Fresh
    OBVIOUS
  <2>1. floor.written = 0 /\ floor.known = 0
    BY DEF Init
  <2>2. \A m \in Nodes : VersionOf(store[m]) = 0
    BY DEF Init, VersionOf
  <2>3. \A n \in Nodes : ring[n] = Nodes
    BY DEF Init, Steady
  <2>4. \A c \in Clients : op[c] = None
    BY DEF Init
  <2> QED
    BY <2>1, <2>2, <2>3, <2>4, ReplicasAreNodes DEF Fresh
<1>2. WellFormed /\ Fresh /\ [Next]_vars => Fresh'
  BY FreshStep
<1>3. WellFormed /\ Fresh => FreshRead
  <2> SUFFICES ASSUME WellFormed, Fresh, NEW c \in Clients, Complete(op[c]), op[c].kind = "get"
               PROVE  ReadVersion(op[c]) >= op[c].floor
    BY DEF FreshRead
  <2>1. op[c] # None
    BY DEF Complete
  <2>2. CallOK(op[c]) /\ CallFresh(op[c], store)
    BY <2>1, ServedCall DEF Fresh
  <2> QED
    BY <2>2, FreshIsRead
<1> QED
  BY <1>1, <1>2, <1>3, WellFormedAlways, PTL DEF Spec

-----------------------------------------------------------------------------
(* Convergence.  The rings agree and stay, and every request reaches its   *)
(* replica, though it may be sent twice and its answer may be lost.        *)
Settled ==
  /\ InitRing = [n \in Nodes |-> Nodes]
  /\ Disturbances \subseteq {"retry", "reply"}

(* The call has a write at least as new as t on its way to m. *)
Pending(o, m, t) == o # None /\ o.kind # "get" /\ o.ts >= t /\ m \notin DOMAIN o.res

(* Version t is, or will be, at or below the version of every replica. *)
Safe(t, s, q) ==
  \A m \in Replicas : VersionOf(s[m]) >= t \/ \E c \in Clients : Pending(q[c], m, t)

CallSettling(o, s) ==
  /\ \A x : x \in Replicas <=> \E i \in 1..Len(o.order) : x = o.order[i]
  /\ o.kind # "get" => o.ts > 0 /\ \A m \in DOMAIN o.res : VersionOf(s[m]) >= o.ts

SlotSettling(e, s, q, as) ==
  /\ e.exp = None /\ e.ts > 0 /\ Safe(e.ts, s, q)
  /\ \E a \in as : a.ts = e.ts /\ a.value = e.value

RequestSettling(r, s, q) == r.ts > 0 /\ Safe(r.ts, s, q)

(* Whatever version a replica or a late request has, every replica has it  *)
(* or is about to be sent a write that is as new.                          *)
Settling ==
  /\ \A n \in Nodes : ring[n] = Nodes
  /\ \A c \in Clients : op[c] # None => CallSettling(op[c], store)
  /\ \A n \in Nodes : store[n] # None => SlotSettling(store[n], store, op, acks)
  /\ \A r \in late : RequestSettling(r, store, op)

(* A step drops no pending write before it has arrived. *)
PendingKept ==
  \A c \in Clients, m \in Replicas, t \in Nat :
    Pending(op[c], m, t) => Pending(op'[c], m, t) \/ VersionOf(store'[m]) >= t

LEMMA SafeKept ==
  ASSUME PendingKept, store \in [Nodes -> Slot], store' \in [Nodes -> Slot],
         \A m \in Nodes : VersionOf(store'[m]) >= VersionOf(store[m]),
         NEW t \in Nat, Safe(t, store, op)
  PROVE  Safe(t, store', op')
<1> SUFFICES ASSUME NEW m \in Replicas
             PROVE  VersionOf(store'[m]) >= t \/ \E c \in Clients : Pending(op'[c], m, t)
  BY DEF Safe
<1>1. m \in Nodes
  BY ReplicasAreNodes
<1>2. VersionOf(store[m]) \in Nat /\ VersionOf(store'[m]) \in Nat
  BY <1>1, StoreVersion
<1>3. VersionOf(store'[m]) >= VersionOf(store[m])
  BY <1>1
<1>4. CASE VersionOf(store[m]) >= t
  BY <1>2, <1>3, <1>4
<1>5. ASSUME NEW c \in Clients, Pending(op[c], m, t)
      PROVE  VersionOf(store'[m]) >= t \/ Pending(op'[c], m, t)
  BY <1>5 DEF PendingKept
<1> QED
  BY <1>4, <1>5 DEF Safe

(* A write in progress is safe by itself. *)
LEMMA SafeOwn ==
  ASSUME NEW s, NEW q, NEW c \in Clients, q[c] # None, q[c].kind # "get", q[c].ts \in Nat,
         CallSettling(q[c], s)
  PROVE  Safe(q[c].ts, s, q)
  BY DEF Safe, Pending, CallSettling

LEMMA SettlingKept ==
  ASSUME WellFormed, Settling, PendingKept, store' \in [Nodes -> Slot], acks \subseteq acks',
         \A m \in Nodes : VersionOf(store'[m]) >= VersionOf(store[m]),
         UNCHANGED ring,
         \A c \in Clients : op'[c] # None => CallSettling(op'[c], store'),
         \A n \in Nodes : store'[n] = store[n] \/ SlotSettling(store'[n], store', op', acks'),
         \A r \in late' : r \in late \/ RequestSettling(r, store', op')
  PROVE  Settling'
<1>1. store \in [Nodes -> Slot]
  BY DEF WellFormed
<1>2. ASSUME NEW n \in Nodes, store'[n] # None PROVE SlotSettling(store'[n], store', op', acks')
  <2>1. CASE store'[n] = store[n]
    <3>1. PICK e : e = store[n]
      OBVIOUS
    <3>2. SlotSettling(e, store, op, acks) /\ e.ts \in Nat
      BY <1>1, <1>2, <2>1, <3>1 DEF Settling, Slot, Entry
    <3>3. Safe(e.ts, store', op')
      BY <1>1, <3>2, SafeKept DEF SlotSettling
    <3>4. SlotSettling(e, store', op', acks')
      BY <3>2, <3>3 DEF SlotSettling
    <3> QED
      BY <2>1, <3>1, <3>4
  <2> QED
    BY <2>1
<1>3. ASSUME NEW r \in late' PROVE RequestSettling(r, store', op')
  <2>1. CASE r \in late
    <3>1. r.ts \in Nat /\ r.ts > 0 /\ Safe(r.ts, store, op)
      BY <2>1 DEF WellFormed, RequestOK, Served, Settling, RequestSettling
    <3>2. Safe(r.ts, store', op')
      BY <1>1, <3>1, SafeKept
    <3> QED
      BY <3>1, <3>2 DEF RequestSettling
  <2> QED
    BY <2>1
<1> QED
  BY <1>2, <1>3 DEF Settling

(* Newer stores keep a call settling, and so does the answer of a replica  *)
(* that has served it.                                                     *)
LEMMA SettlingGrows ==
  ASSUME NEW o, CallOK(o), NEW s \in [Nodes -> Slot], NEW s2 \in [Nodes -> Slot], CallSettling(o, s),
         \A m \in Nodes : VersionOf(s2[m]) >= VersionOf(s[m])
  PROVE  CallSettling(o, s2)
<1>1. o.ts \in Nat /\ DOMAIN o.res \subseteq Nodes
  BY CallVersions
<1>2. \A m \in Nodes : VersionOf(s[m]) \in Nat /\ VersionOf(s2[m]) \in Nat
  BY StoreVersion
<1>3. o.kind # "get" => \A m \in DOMAIN o.res : VersionOf(s2[m]) >= o.ts
  BY <1>1, <1>2 DEF CallSettling
<1> QED
  BY <1>3 DEF CallSettling

LEMMA SettlingAnswer ==
  ASSUME NEW o, NEW p, NEW s, CallSettling(o, s), NEW m, NEW r, NEW k, Updated(o, p, m, r, k),
         o.kind # "get" => VersionOf(s[m]) >= o.ts
  PROVE  CallSettling(p, s)
  BY DEF CallSettling, Updated

(* A replica serves a write; its version is safe. *)
LEMMA SettlingServes ==
  ASSUME WellFormed, Settling, PendingKept,
         NEW n \in Nodes, NEW kind, NEW v, NEW ts, Served(kind, v, ts), Serves(n, kind, v, ts),
         kind # "get" => ts > 0 /\ Safe(ts, store', op'),
         UNCHANGED ring,
         \A c \in Clients : op'[c] # None => CallSettling(op'[c], store'),
         late' \subseteq late
  PROVE  Settling'
<1>1. /\ store' \in [Nodes -> Slot]
      /\ \A m \in Nodes : VersionOf(store'[m]) >= VersionOf(store[m])
  BY VersionsGrow
<1>2. /\ \A x \in Nodes : x # n => store'[x] = store[x]
      /\ store'[n] = store[n] \/ (kind # "get" /\ store'[n] = Holding(v, ts))
  BY ServesIs
<1>3. acks \subseteq acks' /\ (kind # "get" => Acked(n, v, ts) \in acks')
  BY DEF Serves
<1>4. ASSUME kind # "get" PROVE SlotSettling(Holding(v, ts), store', op', acks')
  <2>1. Acked(n, v, ts).ts = ts /\ Acked(n, v, ts).value = v
    BY DEF Acked
  <2>2. PICK e : e = Holding(v, ts)
    OBVIOUS
  <2>3. e.exp = None /\ e.ts = ts /\ e.value = v
    BY <2>2 DEF Holding
  <2>4. \E a \in acks' : a.ts = e.ts /\ a.value = e.value
    BY <1>3, <1>4, <2>1, <2>3
  <2>5. SlotSettling(e, store', op', acks')
    BY <1>4, <2>3, <2>4 DEF SlotSettling
  <2> QED
    BY <2>2, <2>5
<1>5. \A x \in Nodes : store'[x] = store[x] \/ SlotSettling(store'[x], store', op', acks')
  BY <1>2, <1>4
<1> QED
  BY <1>1, <1>3, <1>5, SettlingKept

LEMMA SettlingServed ==
  ASSUME WellFormed, Settling, NEW c \in Clients, NEW m \in Nodes, op[c] # None,
         Serves(m, op[c].kind, op[c].value, op[c].ts), Moves(c, op'),
         NEW r, NEW k, Updated(op[c], op'[c], m, r, k), op'[c] # None,
         UNCHANGED <<ring, late>>
  PROVE  Settling'
<1>1. PICK o : o = op[c]
  OBVIOUS
<1>2. PICK p : p = op'[c]
  OBVIOUS
<1>3. CallOK(o) /\ Served(o.kind, o.value, o.ts) /\ CallSettling(o, store) /\ o.ts \in Nat
  BY <1>1, ServedCall DEF Settling, Served
<1>4. /\ store \in [Nodes -> Slot] /\ store' \in [Nodes -> Slot]
      /\ \A x \in Nodes : VersionOf(store'[x]) >= VersionOf(store[x])
      /\ o.kind # "get" => VersionOf(store'[m]) >= o.ts
  BY <1>1, <1>3, VersionsGrow
<1>5. \A x \in Nodes : VersionOf(store'[x]) \in Nat
  BY <1>4, StoreVersion
<1>6. /\ p.kind = o.kind /\ p.ts = o.ts /\ DOMAIN p.res = DOMAIN o.res \cup {m}
  BY <1>1, <1>2 DEF Updated
<1>7. CallSettling(p, store')
  BY <1>1, <1>2, <1>3, <1>4, SettlingGrows, SettlingAnswer
<1>8. PendingKept
  <2> SUFFICES ASSUME NEW d \in Clients, NEW x \in Replicas, NEW t \in Nat, Pending(op[d], x, t)
               PROVE  Pending(op'[d], x, t) \/ VersionOf(store'[x]) >= t
    BY DEF PendingKept
  <2>1. CASE d # c
    BY <2>1 DEF Moves
  <2>2. CASE d = c /\ x # m
    BY <1>1, <1>2, <1>6, <2>2 DEF Pending
  <2>3. CASE d = c /\ x = m
    <3>1. o.kind # "get" /\ o.ts >= t
      BY <1>1, <2>3 DEF Pending
    <3> QED
      BY <1>3, <1>4, <1>5, <2>3, <3>1
  <2> QED
    BY <2>1, <2>2, <2>3
<1>9. o.kind # "get" => o.ts > 0 /\ Safe(o.ts, store', op')
  <2> SUFFICES ASSUME o.kind # "get" PROVE o.ts > 0 /\ Safe(o.ts, store', op')
    OBVIOUS
  <2>1. Safe(p.ts, store', op')
    BY <1>2, <1>3, <1>6, <1>7, SafeOwn
  <2> QED
    BY <1>3, <1>6, <2>1 DEF CallSettling
<1>10. ASSUME NEW d \in Clients, op'[d] # None PROVE CallSettling(op'[d], store')
  <2>1. CASE d = c
    BY <1>2, <1>7, <2>1
  <2>2. CASE d # c
    <3>1. op[d] # None /\ op'[d] = op[d]
      BY <1>10, <2>2 DEF Moves
    <3>2. CallOK(op[d]) /\ CallSettling(op[d], store)
      BY <3>1, ServedCall DEF Settling
    <3> QED
      BY <1>4, <3>1, <3>2, SettlingGrows
  <2> QED
    BY <2>1, <2>2
<1>11. Serves(m, o.kind, o.value, o.ts)
  BY <1>1
<1> QED
  BY <1>3, <1>8, <1>9, <1>10, <1>11, SettlingServes

(* The calls stay while a copy of a request is served. *)
LEMMA SettlingCopy ==
  ASSUME WellFormed, Settling, NEW n \in Nodes, NEW kind, NEW v, NEW ts, Served(kind, v, ts),
         Serves(n, kind, v, ts), kind # "get" => ts > 0 /\ Safe(ts, store, op),
         UNCHANGED <<ring, op>>, late' \subseteq late
  PROVE  Settling'
<1>1. /\ store \in [Nodes -> Slot] /\ store' \in [Nodes -> Slot]
      /\ \A x \in Nodes : VersionOf(store'[x]) >= VersionOf(store[x])
  BY VersionsGrow
<1>2. PendingKept
  BY DEF PendingKept
<1>3. kind # "get" => ts > 0 /\ Safe(ts, store', op')
  BY <1>1, <1>2, SafeKept DEF Served
<1>4. ASSUME NEW c \in Clients, op'[c] # None PROVE CallSettling(op'[c], store')
  <2>1. CallOK(op[c]) /\ CallSettling(op[c], store)
    BY <1>4, ServedCall DEF Settling
  <2> QED
    BY <1>1, <2>1, SettlingGrows
<1> QED
  BY <1>2, <1>3, <1>4, SettlingServes

(* Nothing is stored. *)
LEMMA SettlingStill ==
  ASSUME WellFormed, Settling, PendingKept, UNCHANGED <<store, ring, acks>>,
         \A c \in Clients : op'[c] # None => op'[c] = op[c] \/ CallSettling(op'[c], store),
         \A r \in late' : r \in late \/ RequestSettling(r, store', op')
  PROVE  Settling'
<1>1. store \in [Nodes -> Slot]
  BY DEF WellFormed
<1>2. \A m \in Nodes : VersionOf(store[m]) \in Nat
  BY <1>1, StoreVersion
<1>3. \A c \in Clients : op'[c] # None => CallSettling(op'[c], store')
  BY DEF Settling
<1>4. \A m \in Nodes : VersionOf(store'[m]) >= VersionOf(store[m])
  BY <1>2
<1> QED
  BY <1>1, <1>3, <1>4, SettlingKept

LEMMA SettlingBegin ==
  ASSUME WellFormed, Settling, BeginStep
  PROVE  Settling'
<1>1. PICK c \in Clients, n \in Nodes : \E kind, v, ts : Begins(c, n, kind, v, ts)
  BY DEF BeginStep
<1>2. PICK kind, v, ts : Begins(c, n, kind, v, ts)
  BY <1>1
<1>3. Served(kind, v, ts) /\ v \in Values \cup {TOMBSTONE, None} /\ (kind # "get" => ts > 0)
  BY <1>2 DEF Begins, Served, Stamp
<1>4. PICK o : o = NewOp(n, kind, v, ts)
  OBVIOUS
<1>5. /\ o \in Call /\ o.kind = kind /\ o.ts = ts /\ DOMAIN o.res = {}
      /\ o.order = GetNodes(ring[n], Score, Replication)
  BY <1>3, <1>4, NewOpIs
<1>6. op[c] = None /\ op' = [op EXCEPT ![c] = o] /\ UNCHANGED <<store, ring, late, acks>>
  BY <1>2, <1>4 DEF Begins
<1>7. o.order = GetNodes(Nodes, Score, Replication)
  BY <1>5 DEF Settling
<1>8. \A x : x \in Replicas <=> \E i \in 1..Len(o.order) : x = o.order[i]
  BY <1>7, OrderIs DEF Replicas
<1>9. CallSettling(o, store)
  BY <1>3, <1>5, <1>8 DEF CallSettling
<1>10. \A d \in Clients : d # c => op'[d] = op[d]
  BY <1>6 DEF WellFormed, CallsOK
<1>11. op'[c] = o
  BY <1>6 DEF WellFormed, CallsOK
<1>12. PendingKept
  BY <1>6, <1>10 DEF PendingKept, Pending
<1> QED
  BY <1>6, <1>9, <1>10, <1>11, <1>12, SettlingStill

LEMMA SettlingFinish ==
  ASSUME WellFormed, Settling, NEW c \in Clients, Finish(c)
  PROVE  Settling'
<1>1. PICK o : o = op[c]
  OBVIOUS
<1>2. /\ Complete(o) /\ o # None /\ CallOK(o) /\ CallSettling(o, store)
      /\ op' = [op EXCEPT ![c] = None] /\ UNCHANGED <<store, ring, late, acks>>
  BY <1>1 DEF Finish, Complete, WellFormed, CallsOK, Settling
<1>3. \A d \in Clients : (d # c => op'[d] = op[d]) /\ (d = c => op'[d] = None)
  BY <1>2 DEF WellFormed, CallsOK
(* A write that is complete has heard of every replica. *)
<1>4. ASSUME o.kind # "get", NEW x \in Replicas PROVE x \in DOMAIN o.res
  <2>1. o.sent = {} /\ o.called = Len(o.order)
    BY <1>2, <1>4 DEF Complete, Hit, FirstHitRead
  <2>2. PICK i \in 1..o.called : x = o.order[i]
    BY <1>2, <2>1 DEF CallSettling
  <2> QED
    BY <1>2, <2>1, <2>2 DEF CallOK
<1>5. PendingKept
  BY <1>1, <1>3, <1>4 DEF PendingKept, Pending
<1> QED
  BY <1>2, <1>3, <1>5, SettlingStill

LEMMA SettlingStep ==
  ASSUME Settled, WellFormed, Settling, [Next]_vars
  PROVE  Settling'
<1>1. ~WriteAloneStep
  BY DEF WriteAloneStep, Settling
<1>2. CASE CallStep
  <2>1. PICK c \in Clients, n \in Nodes :
          \/ /\ CallLocal(c, n)
             /\ Serves(n, op[c].kind, op[c].value, op[c].ts)
             /\ UNCHANGED <<ring, late, clock, disturbed, floor>>
          \/ CallRemote(c, n)
    BY <1>2 DEF CallStep
  <2>2. CASE CallLocal(c, n) /\ Serves(n, op[c].kind, op[c].value, op[c].ts)
             /\ UNCHANGED <<ring, late, clock, disturbed, floor>>
    <3>1. PICK r : r = LocalReply(op[c].kind, store[n], op[c].ts)
      OBVIOUS
    <3>2. op[c] # None /\ Moves(c, op') /\ CallOK(op'[c]) /\ Updated(op[c], op'[c], n, r, 1)
      BY <2>2, <3>1, CallLocalIs
    <3>3. op'[c] # None
      BY <3>2, NoCall DEF CallOK
    <3> QED
      BY <2>2, <3>2, <3>3, SettlingServed
  <2>3. CASE CallRemote(c, n)
    <3>1. op[c] # None /\ Moves(c, op') /\ CallOK(op'[c]) /\ Asked(op[c], op'[c], n)
      BY <2>3, CallRemoteIs
    <3>2. CallSettling(op[c], store)
      BY <3>1 DEF Settling
    <3>3. CallSettling(op'[c], store)
      BY <3>1, <3>2 DEF Asked, CallSettling
    <3>4. op'[c] # None
      BY <3>1, NoCall DEF CallOK
    <3>5. PendingKept
      BY <3>1, <3>4 DEF PendingKept, Pending, Moves, Asked
    <3> QED
      BY <2>3, <3>1, <3>3, <3>5, SettlingStill DEF CallRemote, Moves
  <2> QED
    BY <2>1, <2>2, <2>3
<1>3. CASE AnswerStep
  <2>1. ~Disturb("timeout")
    BY DEF Settled, Disturb
  <2>2. PICK c \in Clients, m \in Nodes :
          /\ op[c] # None /\ m \in op[c].sent
          /\ \/ op' = Answer(c, m, RemoteReply(op[c].kind, store[m]))
             \/ op' = Answer(c, m, NoReply(op[c].kind))
          /\ Serves(m, op[c].kind, op[c].value, op[c].ts)
          /\ UNCHANGED <<ring, late>>
    BY <1>3, <2>1 DEF AnswerStep, Settling
  <2>3. PICK r : r \in Result(op[c].kind) /\ op' = Answer(c, m, r)
    BY <2>2, ServedCall
  <2>4. Moves(c, op') /\ CallOK(op'[c]) /\ Updated(op[c], op'[c], m, r, 0)
    BY <2>2, <2>3, AnsweredIs
  <2>5. op'[c] # None
    BY <2>4, NoCall DEF CallOK
  <2> QED
    BY <2>2, <2>4, <2>5, SettlingServed
<1>4. CASE RetryStep
  <2>1. PICK c \in Clients, m \in Nodes :
          /\ op[c] # None
          /\ \/ Serves(m, op[c].kind, op[c].value, op[c].ts) /\ UNCHANGED late
             \/ /\ op[c].kind # "get" /\ late' = late \cup {Request(op[c], m)}
                /\ UNCHANGED <<store, acks>>
          /\ UNCHANGED <<op, ring, clock, floor>>
    BY <1>4 DEF RetryStep
  <2>2. PICK o : o = op[c]
    OBVIOUS
  <2>3. Served(o.kind, o.value, o.ts) /\ CallSettling(o, store) /\ o.ts \in Nat
    BY <2>1, <2>2, ServedCall DEF Settling, Served
  <2>4. ASSUME o.kind # "get" PROVE o.ts > 0 /\ Safe(o.ts, store, op)
    <3>1. o.ts > 0
      BY <2>3, <2>4 DEF CallSettling
    <3>2. Safe(op[c].ts, store, op)
      BY <2>1, <2>2, <2>3, <2>4, SafeOwn
    <3> QED
      BY <2>2, <3>1, <3>2
  <2>5. CASE Serves(m, o.kind, o.value, o.ts) /\ UNCHANGED late
    BY <2>1, <2>3, <2>4, <2>5, SettlingCopy
  <2>6. CASE o.kind # "get" /\ late' = late \cup {Request(o, m)} /\ UNCHANGED <<store, acks>>
    <3>1. Request(o, m).ts = o.ts
      BY DEF Request
    <3>2. RequestSettling(Request(o, m), store', op')
      BY <2>1, <2>4, <2>6, <3>1 DEF RequestSettling
    <3>3. PendingKept
      BY <2>1 DEF PendingKept
    <3> QED
      BY <2>1, <2>6, <3>2, <3>3, SettlingStill
  <2> QED
    BY <2>1, <2>2, <2>5, <2>6
<1>5. CASE LateStep
  <2>1. PICK r \in late : /\ Serves(r.dst, r.kind, r.value, r.ts)
                          /\ late' = late \ {r}
                          /\ UNCHANGED <<ring, op, clock, disturbed, floor>>
    BY <1>5 DEF LateStep
  <2>2. r.dst \in Nodes /\ Served(r.kind, r.value, r.ts) /\ r.ts > 0 /\ Safe(r.ts, store, op)
    BY DEF WellFormed, RequestOK, Settling, RequestSettling
  <2> QED
    BY <2>1, <2>2, SettlingCopy
<1>6. CASE EndStep
  <2>1. PICK c \in Clients : Finish(c) \/ Raise(c)
    BY <1>6 DEF EndStep
  <2>2. ~Raise(c)
    BY DEF Settled, Raise, Disturb
  <2> QED
    BY <2>1, <2>2, SettlingFinish
<1>7. ~CrashStep
  BY DEF Settled, CrashStep, Crash, Disturb
<1>8. ~RingStep
  <2>1. ~Disturb("join") /\ ~Disturb("evict")
    BY DEF Settled, Disturb
  <2>2. \A n \in Nodes : ring[n] # {}
    BY DEF Settling
  <2> QED
    BY <2>1, <2>2 DEF RingStep
<1>9. CASE UNCHANGED vars
  <2>1. PendingKept
    BY <1>9 DEF PendingKept, vars
  <2> QED
    BY <1>9, <2>1, SettlingStill DEF vars
<1> QED
  BY <1>1, <1>2, <1>3, <1>4, <1>5, <1>6, <1>7, <1>8, <1>9, SettlingBegin, StepsAre

(* With rings that agree and no request lost, whatever is sent twice,      *)
(* arrives late or stays unanswered: once no call is in progress and no    *)
(* request is on the wire, all replicas of the key are at the same         *)
(* version, and hold the same entry unless two different writes were       *)
(* stamped alike.                                                          *)
THEOREM ReplicasDoConverge == ASSUME Settled PROVE Spec => []ReplicasConverge
<1>1. Init => Settling
  BY ReplicationConstants DEF Init, Settling, Settled
<1>2. WellFormed /\ Settling /\ [Next]_vars => Settling'
  BY SettlingStep
<1>3. WellFormed /\ Settling => ReplicasConverge
  <2> SUFFICES ASSUME WellFormed, Settling, Quiet, NEW n \in Replicas, NEW m \in Replicas
               PROVE  \/ store[n] = store[m]
                      \/ /\ store[n] # None /\ store[m] # None /\ store[n].ts = store[m].ts
                         /\ Tied(store[n].ts)
    BY DEF ReplicasConverge, Replicas
  <2>1. n \in Nodes /\ m \in Nodes
    BY ReplicasAreNodes
  <2>2. ASSUME NEW x \in Replicas, NEW y \in Replicas, store[x] # None
        PROVE  VersionOf(store[y]) >= store[x].ts
    <3>1. Safe(store[x].ts, store, op)
      BY <2>2, ReplicasAreNodes DEF Settling, SlotSettling
    <3> QED
      BY <3>1 DEF Safe, Pending, Quiet
  <2>3. ASSUME NEW x \in Nodes, store[x] # None
        PROVE  /\ store[x] \in Entry /\ store[x].ts \in Nat /\ store[x].ts > 0 /\ store[x].exp = None
               /\ \E a \in acks : a.ts = store[x].ts /\ a.value = store[x].value
    BY <2>3 DEF WellFormed, Slot, Entry, Settling, SlotSettling
  <2>4. CASE store[n] = None /\ store[m] = None
    BY <2>4
  <2>5. CASE store[n] = None /\ store[m] # None
    BY <2>1, <2>2, <2>3, <2>5 DEF VersionOf
  <2>6. CASE store[n] # None /\ store[m] = None
    BY <2>1, <2>2, <2>3, <2>6 DEF VersionOf
  <2>7. CASE store[n] # None /\ store[m] # None
    <3>1. /\ store[n] \in Entry /\ store[n].ts \in Nat /\ store[n].exp = None
          /\ store[m] \in Entry /\ store[m].ts \in Nat /\ store[m].exp = None
      BY <2>1, <2>3, <2>7
    <3>2. store[n].ts = store[m].ts
      BY <2>2, <2>7, <3>1 DEF VersionOf
    <3>3. CASE store[n].value = store[m].value
      BY <3>1, <3>2, <3>3 DEF Entry
    <3>4. CASE store[n].value # store[m].value
      <4>1. PICK a \in acks : a.ts = store[n].ts /\ a.value = store[n].value
        BY <2>1, <2>3, <2>7
      <4>2. PICK b \in acks : b.ts = store[m].ts /\ b.value = store[m].value
        BY <2>1, <2>3, <2>7
      <4>3. Tied(store[n].ts)
        BY <3>2, <3>4, <4>1, <4>2 DEF Tied
      <4> QED
        BY <2>7, <3>2, <4>3
    <3> QED
      BY <3>3, <3>4
  <2> QED
    BY <2>4, <2>5, <2>6, <2>7
<1> QED
  BY <1>1, <1>2, <1>3, WellFormedAlways, PTL DEF Spec
=============================================================================

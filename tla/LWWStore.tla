------------------------------ MODULE LWWStore ------------------------------
(***************************************************************************)
(* LocalLWWStore (dlstorage/store/lww.py): one node's in-memory store,     *)
(* shared by the node's API callers, its connection handlers and its purge *)
(* loop.  A write is two steps, because set() and delete() read the clocks *)
(* before they take the lock: other writers run in between.  Timestamps    *)
(* are chosen freely: they come from another node's wall clock (the ts     *)
(* argument) or from time.time_ns(), which may be stepped either way.      *)
(* Deadlines come from this node's monotonic clock.                        *)
(***************************************************************************)
EXTENDS LWWEntry, FiniteSets

CONSTANTS
  Keys,
  Threads,
  Stamps,      \* bound: the wall-clock timestamps a write may carry
  TTLs,        \* the ttl arguments tried, None for no expiry
  Patterns,    \* what flush_keys may match: each pattern is a set of keys
  MaxTime      \* bound on the monotonic clock

ASSUME StoreConstants ==
  /\ Stamps \subseteq Nat \ {0}
  /\ TTLs \subseteq Nat \cup {None}
  /\ Patterns \subseteq SUBSET Keys
  /\ MaxTime \in Nat

VARIABLES
  data,        \* _data: what is stored for each key
  mono,        \* time.monotonic()
  call,        \* per thread, the stamped set or delete waiting for the lock
  presented,   \* history: the writes committed on each key since its slot was last empty
  buriedAt     \* history: the newest tombstone stored for each key since the node started

vars == <<data, mono, call, presented, buriedAt>>

Call ==
  [op : {"set"}, key : Keys, value : Values, exp : Nat \cup {None}, ts : Stamps]
    \cup [op : {"delete"}, key : Keys, value : {TOMBSTONE}, exp : {None}, ts : Stamps]

Write == [value : Values \cup {TOMBSTONE}, ts : Nat]

TypeOK ==
  /\ data \in [Keys -> Slot]
  /\ mono \in 0..MaxTime
  /\ call \in [Threads -> Call \cup {None}]
  /\ presented \in [Keys -> SUBSET Write]
  /\ buriedAt \in [Keys -> Nat]

Init ==
  /\ data = [k \in Keys |-> None]
  /\ mono = 0
  /\ call = [t \in Threads |-> None]
  /\ presented = [k \in Keys |-> {}]
  /\ buriedAt = [k \in Keys |-> 0]

-----------------------------------------------------------------------------
(* set(), before the lock: pick the timestamp, turn the ttl into a deadline. *)
Deadline(ttl) == IF ttl = None THEN None ELSE mono + ttl

StampSet(t, k, v, ttl, ts) ==
  /\ call[t] = None
  /\ call' = [call EXCEPT ![t] = [op |-> "set", key |-> k, value |-> v,
                                  exp |-> Deadline(ttl), ts |-> ts]]
  /\ UNCHANGED <<data, mono, presented, buriedAt>>

(* delete(), before the lock. *)
StampDelete(t, k, ts) ==
  /\ call[t] = None
  /\ call' = [call EXCEPT ![t] = [op |-> "delete", key |-> k, value |-> TOMBSTONE,
                                  exp |-> None, ts |-> ts]]
  /\ UNCHANGED <<data, mono, presented, buriedAt>>

Present(k, v, ts) ==
  presented' = [presented EXCEPT ![k] = @ \cup {[value |-> v, ts |-> ts]}]

(* set(), under the lock. *)
CommitSet(t) ==
  /\ call[t] # None
  /\ call[t].op = "set"
  /\ LET c == call[t] IN
       /\ data' = [data EXCEPT ![c.key] = SetEntry(@, c.value, c.exp, c.ts)]
       /\ Present(c.key, c.value, c.ts)
  /\ call' = [call EXCEPT ![t] = None]
  /\ UNCHANGED <<mono, buriedAt>>

(* delete(), under the lock. *)
CommitDelete(t) ==
  /\ call[t] # None
  /\ call[t].op = "delete"
  /\ LET c == call[t] IN
       /\ data' = [data EXCEPT ![c.key] = DeleteEntry(@, c.ts)]
       /\ Present(c.key, TOMBSTONE, c.ts)
       /\ buriedAt' = [buriedAt EXCEPT ![c.key] =
            IF data'[c.key] = Buried(c.ts) /\ c.ts > @ THEN c.ts ELSE @]
  /\ call' = [call EXCEPT ![t] = None]
  /\ UNCHANGED mono

(* The slots a step leaves empty lose their history with their entry. *)
Forget == presented' = [k \in Keys |-> IF data'[k] = None THEN {} ELSE presented[k]]

(* get(), exists() and get_versioned(): a read drops an entry past its deadline. *)
GetVersioned(k) ==
  /\ data' = [data EXCEPT ![k] = AfterGet(@, mono)]
  /\ Forget
  /\ UNCHANGED <<mono, call, buriedAt>>

(* purge_expired(), run by the node's _purge_loop. *)
PurgeExpired ==
  /\ data' = [k \in Keys |-> AfterPurge(data[k], mono)]
  /\ Forget
  /\ UNCHANGED <<mono, call, buriedAt>>

(* flush_keys(): every matching entry goes, tombstones included. *)
FlushKeys(P) ==
  /\ data' = [k \in Keys |-> IF k \in P THEN None ELSE data[k]]
  /\ Forget
  /\ UNCHANGED <<mono, call, buriedAt>>

(* flush_all() and clear() *)
FlushAll ==
  /\ data' = [k \in Keys |-> None]
  /\ Forget
  /\ UNCHANGED <<mono, call, buriedAt>>

(* Time passes. *)
Tick ==
  /\ mono < MaxTime
  /\ mono' = mono + 1
  /\ UNCHANGED <<data, call, presented, buriedAt>>

Next ==
  \/ \E t \in Threads, k \in Keys, v \in Values, ttl \in TTLs, ts \in Stamps :
       StampSet(t, k, v, ttl, ts)
  \/ \E t \in Threads, k \in Keys, ts \in Stamps : StampDelete(t, k, ts)
  \/ \E t \in Threads : CommitSet(t) \/ CommitDelete(t)
  \/ \E k \in Keys : GetVersioned(k)
  \/ \E P \in Patterns : FlushKeys(P)
  \/ FlushAll
  \/ PurgeExpired
  \/ Tick

Spec == Init /\ [][Next]_vars

-----------------------------------------------------------------------------
(* Last write wins, whatever the order of arrival.  The slot of a key is   *)
(* one of the writes committed on it since the slot was last empty, and    *)
(* none of those carries a newer timestamp; the slot is empty only if      *)
(* there was none.  set() and delete() at lww.py:41 and lww.py:93 compare  *)
(* timestamps that were read before the lock, in any order.                *)
NewestWins ==
  \A k \in Keys :
    IF data[k] = None THEN presented[k] = {}
    ELSE /\ [value |-> data[k].value, ts |-> data[k].ts] \in presented[k]
         /\ \A w \in presented[k] : w.ts <= data[k].ts

(* delete() "stores a tombstone so older writes cannot resurrect the key", *)
(* and tombstones "persist until the node restarts" (lww.py:81-84): a live *)
(* entry is never older than a tombstone the store has stored for the key. *)
(* The code breaks this in two ways: flush_all() and flush_keys() drop     *)
(* tombstones (lww.py:132, :139), and a newer set with a ttl replaces the  *)
(* tombstone and then leaves the slot empty (lww.py:73-74, :155-156).      *)
NoResurrection ==
  \A k \in Keys : Lived(data[k]) => data[k].ts >= buriedAt[k]

(* Three comparisons decide that a key has expired (lww.py:73, :106, :153) *)
(* and they differ at the deadline; they are ordered so that readers are   *)
(* not misled: a key that keys() or scan() lists can be read and is not    *)
(* purged, and one that get() reports expired is neither listed nor kept   *)
(* by the next purge.                                                      *)
ExpiryOrdered ==
  \A k \in Keys :
    /\ Listed(data[k], mono) => Got(data[k], mono) # None /\ ~Purgeable(data[k], mono)
    /\ Lived(data[k]) /\ Got(data[k], mono) = None =>
         ~Listed(data[k], mono) /\ AfterPurge(data[k], mono) = None

(* Within one generation of a slot time runs forward: a step that leaves   *)
(* an entry in a slot never leaves one with an older timestamp.  Reads and *)
(* purges empty the slot of a live entry past its deadline and no other;   *)
(* in particular they never take a tombstone, whatever its age             *)
(* (lww.py:69-74, :150-156).  Only flushes do, and what that does to the   *)
(* promise of delete() is what NoResurrection is about.                    *)
FlushStep == FlushAll \/ \E P \in Patterns : FlushKeys(P)

ExpiryStep == PurgeExpired \/ \E k \in Keys : GetVersioned(k)

VersionsOnlyAdvance ==
  [][\A k \in Keys :
       data[k] # None =>
         \/ data'[k] # None /\ data'[k].ts >= data[k].ts
         \/ data'[k] = None /\ Lived(data[k]) /\ data[k].exp # None /\ data[k].exp <= mono
         \/ data'[k] = None /\ FlushStep /\ ~ExpiryStep]_vars
=============================================================================

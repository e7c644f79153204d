------------------------------ MODULE StorePair -----------------------------
(***************************************************************************)
(* LocalLWWStore next to LocalStore, the two implementations of the Store  *)
(* interface (dlstorage/store/interface.py): every call LWWStore makes is  *)
(* made on a LocalStore too, in the order of the lock.  The comparison     *)
(* ends for a key when the LWW store refuses a write, which LocalStore     *)
(* never does, and begins again when the key is flushed.                   *)
(***************************************************************************)
EXTENDS LWWStore

(* (value, expires_at), what LocalStore has for a key *)
PlainEntries == [value : Values, exp : Nat \cup {None}]

ASSUME PlainSentinel == None \notin PlainEntries

VARIABLES
  plain,      \* LocalStore._data
  refused     \* history: the keys on which a write was refused since their last flush

pairVars == <<data, mono, call, presented, buriedAt, plain, refused>>

Plain == INSTANCE PlainEntry WITH Absent <- None

PairInit ==
  /\ Init
  /\ plain = [k \in Keys |-> None]
  /\ refused = {}

(* A commit of the call of thread t: e is what LocalStore has afterwards. *)
Fresh(t) == data[call[t].key] = None \/ data[call[t].key].ts <= call[t].ts

Commit(t, e) ==
  LET k == call[t].key IN
  /\ refused' = IF Fresh(t) THEN refused ELSE refused \cup {k}
  /\ plain' = [plain EXCEPT ![k] = IF k \in refused' THEN None ELSE e]

PairSet(t) ==
  CommitSet(t) /\ Commit(t, Plain!PlainSet(call[t].value, call[t].exp))

PairDelete(t) ==
  CommitDelete(t) /\ Commit(t, Plain!PlainDelete(plain[call[t].key]))

PairGet(k) ==
  /\ GetVersioned(k)
  /\ plain' = [plain EXCEPT ![k] = Plain!PlainAfterGet(@, mono)]
  /\ UNCHANGED refused

PairPurge ==
  /\ PurgeExpired
  /\ plain' = [k \in Keys |-> Plain!PlainAfterPurge(plain[k], mono)]
  /\ UNCHANGED refused

PairFlushKeys(P) ==
  /\ FlushKeys(P)
  /\ plain' = [k \in Keys |-> IF k \in P THEN None ELSE plain[k]]
  /\ refused' = refused \ P

PairFlushAll ==
  /\ FlushAll
  /\ plain' = [k \in Keys |-> None]
  /\ refused' = {}

PairNext ==
  \/ /\ \/ \E t \in Threads, k \in Keys, v \in Values, ttl \in TTLs, ts \in Stamps :
             StampSet(t, k, v, ttl, ts)
        \/ \E t \in Threads, k \in Keys, ts \in Stamps : StampDelete(t, k, ts)
        \/ Tick
     /\ UNCHANGED <<plain, refused>>
  \/ \E t \in Threads : PairSet(t) \/ PairDelete(t)
  \/ \E k \in Keys : PairGet(k)
  \/ \E P \in Patterns : PairFlushKeys(P)
  \/ PairFlushAll
  \/ PairPurge

PairSpec == PairInit /\ [][PairNext]_pairVars

-----------------------------------------------------------------------------
(* The live entry of a slot without its timestamp. *)
View(e) == IF Lived(e) THEN [value |-> e.value, exp |-> e.exp] ELSE None

(* As long as no write has been refused, LocalLWWStore is LocalStore: the  *)
(* same live entries with the same deadlines, so that get(), exists(),     *)
(* keys(), scan() and the result of delete() are the same, through every   *)
(* mix of deletes, expiry, purges and flushes.  The two files decide       *)
(* expiry in three places each (basic.py:36, :52, :98, lww.py:73, :106,    *)
(* :153), and the LWW store has tombstones where the other has nothing.    *)
SameAsPlain ==
  \A k \in Keys \ refused :
    /\ plain[k] = View(data[k])
    /\ Plain!PlainGot(plain[k], mono) = Got(data[k], mono)
    /\ Plain!PlainListed(plain[k], mono) <=> Listed(data[k], mono)
    /\ Plain!PlainDeleted(plain[k]) <=> Lived(data[k])
=============================================================================

---------------------------- MODULE StoreProofs -----------------------------
(***************************************************************************)
(* Proofs about LWWStore and StorePair, for every set of keys, threads,    *)
(* values, timestamps, ttls and flush patterns.  The second half shows     *)
(* that LocalLWWStore behaves as LocalStore until it refuses a write.      *)
(***************************************************************************)
EXTENDS StorePair, TLAPS

-----------------------------------------------------------------------------
(* What one method makes of one slot is a slot again. *)

(* set() stores an entry or leaves the slot alone (lww.py:39-44). *)
LEMMA SetEntryType ==
  ASSUME NEW e \in Slot, NEW v \in Values, NEW exp \in Nat \cup {None}, NEW ts \in Nat
  PROVE  SetEntry(e, v, exp, ts) \in Slot
  BY DEF SetEntry, Slot, Entry

(* delete() stores a tombstone or leaves the slot alone (lww.py:90-95). *)
LEMMA DeleteEntryType ==
  ASSUME NEW e \in Slot, NEW ts \in Nat
  PROVE  DeleteEntry(e, ts) \in Slot
  BY DEF DeleteEntry, Buried, Slot, Entry

(* Reading and purging empty a slot or leave it alone (lww.py:64-75, :149-157). *)
LEMMA ExpiryType ==
  ASSUME NEW e \in Slot, NEW now
  PROVE  /\ AfterGet(e, now) \in {e, None} /\ AfterGet(e, now) \in Slot
         /\ AfterPurge(e, now) \in {e, None} /\ AfterPurge(e, now) \in Slot
  BY DEF AfterGet, AfterPurge, Slot

-----------------------------------------------------------------------------
(* The state of the store keeps its type through every method. *)
THEOREM TypeCorrect == Spec => []TypeOK
<1>1. Init => TypeOK
  BY StoreConstants DEF Init, TypeOK, Slot
<1>2. TypeOK /\ [Next]_vars => TypeOK'
  <2> SUFFICES ASSUME TypeOK, [Next]_vars PROVE TypeOK'
    OBVIOUS
  <2> USE DEF TypeOK
  <2>1. ASSUME NEW t \in Threads, NEW k \in Keys, NEW v \in Values, NEW ttl \in TTLs,
               NEW ts \in Stamps, StampSet(t, k, v, ttl, ts)
        PROVE  TypeOK'
    <3>1. Deadline(ttl) \in Nat \cup {None}
      BY StoreConstants DEF Deadline
    <3>2. [op |-> "set", key |-> k, value |-> v, exp |-> Deadline(ttl), ts |-> ts] \in Call
      BY <3>1 DEF Call
    <3> QED
      BY <2>1, <3>2 DEF StampSet
  <2>2. ASSUME NEW t \in Threads, NEW k \in Keys, NEW ts \in Stamps, StampDelete(t, k, ts)
        PROVE  TypeOK'
    <3>1. [op |-> "delete", key |-> k, value |-> TOMBSTONE, exp |-> None, ts |-> ts] \in Call
      BY DEF Call
    <3> QED
      BY <2>2, <3>1 DEF StampDelete
  <2>3. ASSUME NEW t \in Threads, CommitSet(t) PROVE TypeOK'
    <3> DEFINE c == call[t]
    <3>1. /\ c.key \in Keys /\ c.value \in Values
          /\ c.exp \in Nat \cup {None} /\ c.ts \in Nat
      BY <2>3, StoreConstants DEF CommitSet, Call
    <3>2. SetEntry(data[c.key], c.value, c.exp, c.ts) \in Slot
      BY <3>1, SetEntryType
    <3>3. [value |-> c.value, ts |-> c.ts] \in Write
      BY <3>1 DEF Write
    <3> QED
      BY <2>3, <3>1, <3>2, <3>3 DEF CommitSet, Present
  <2>4. ASSUME NEW t \in Threads, CommitDelete(t) PROVE TypeOK'
    <3> DEFINE c == call[t]
    <3>1. c.key \in Keys /\ c.ts \in Nat
      BY <2>4, StoreConstants DEF CommitDelete, Call
    <3>2. DeleteEntry(data[c.key], c.ts) \in Slot
      BY <3>1, DeleteEntryType
    <3>3. [value |-> TOMBSTONE, ts |-> c.ts] \in Write
      BY <3>1 DEF Write
    <3> QED
      BY <2>4, <3>1, <3>2, <3>3 DEF CommitDelete, Present
  <2>5. ASSUME NEW k \in Keys, GetVersioned(k) PROVE TypeOK'
    BY <2>5, ExpiryType DEF GetVersioned, Forget
  <2>6. ASSUME NEW P \in Patterns, FlushKeys(P) PROVE TypeOK'
    BY <2>6 DEF FlushKeys, Forget, Slot
  <2>7. CASE FlushAll
    BY <2>7 DEF FlushAll, Forget, Slot
  <2>8. CASE PurgeExpired
    BY <2>8, ExpiryType DEF PurgeExpired, Forget
  <2>9. CASE Tick
    BY <2>9, StoreConstants DEF Tick
  <2>10. CASE UNCHANGED vars
    BY <2>10 DEF vars
  <2> QED
    BY <2>1, <2>2, <2>3, <2>4, <2>5, <2>6, <2>7, <2>8, <2>9, <2>10 DEF Next
<1> QED
  BY <1>1, <1>2, PTL DEF Spec

-----------------------------------------------------------------------------
(* The two clauses of NewestWins for one slot: e is the newest of the      *)
(* writes ws, or there are none.                                           *)
NewestOf(e, ws) ==
  IF e = None THEN ws = {}
  ELSE /\ [value |-> e.value, ts |-> e.ts] \in ws
       /\ \A w \in ws : w.ts <= e.ts

(* set() keeps the slot the newest of the writes presented, whatever the   *)
(* order of their timestamps (lww.py:39-44).                               *)
LEMMA SetKeepsNewest ==
  ASSUME NEW e \in Slot, NEW ws \in SUBSET Write, NewestOf(e, ws),
         NEW v \in Values, NEW exp \in Nat \cup {None}, NEW ts \in Nat
  PROVE  NewestOf(SetEntry(e, v, exp, ts), ws \cup {[value |-> v, ts |-> ts]})
<1> DEFINE n == [value |-> v, exp |-> exp, ts |-> ts]
           w0 == [value |-> v, ts |-> ts]
<1>1. n # None
  <2>1. n \in Entry
    BY DEF Entry
  <2> QED
    BY <2>1, Sentinels
<1>2. CASE SetAccepts(e, ts)
  <2>1. SetEntry(e, v, exp, ts) = n
    BY <1>2 DEF SetEntry
  <2>2. \A w \in ws : w.ts <= ts
    <3>1. CASE e = None
      BY <3>1 DEF NewestOf
    <3>2. CASE e # None
      BY <3>2, <1>2 DEF NewestOf, SetAccepts, Slot, Entry, Write
    <3> QED
      BY <3>1, <3>2
  <2> QED
    BY <2>1, <2>2, <1>1 DEF NewestOf
<1>3. CASE ~SetAccepts(e, ts)
  <2>1. SetEntry(e, v, exp, ts) = e /\ e # None /\ ts <= e.ts
    BY <1>3 DEF SetEntry, SetAccepts, Slot, Entry
  <2> QED
    BY <2>1 DEF NewestOf
<1> QED
  BY <1>2, <1>3

(* delete() does so too, with a tombstone (lww.py:90-95). *)
LEMMA DeleteKeepsNewest ==
  ASSUME NEW e \in Slot, NEW ws \in SUBSET Write, NewestOf(e, ws), NEW ts \in Nat
  PROVE  NewestOf(DeleteEntry(e, ts), ws \cup {[value |-> TOMBSTONE, ts |-> ts]})
<1>1. Buried(ts) # None
  <2>1. Buried(ts) \in Entry
    BY DEF Buried, Entry
  <2> QED
    BY <2>1, Sentinels
<1>2. CASE e = None \/ e.ts <= ts
  <2>1. DeleteEntry(e, ts) = Buried(ts)
    BY <1>2 DEF DeleteEntry
  <2>2. \A w \in ws : w.ts <= ts
    <3>1. CASE e = None
      BY <3>1 DEF NewestOf
    <3>2. CASE e # None
      BY <3>2, <1>2 DEF NewestOf, Slot, Entry, Write
    <3> QED
      BY <3>1, <3>2
  <2> QED
    BY <2>1, <2>2, <1>1 DEF NewestOf, Buried
<1>3. CASE ~(e = None \/ e.ts <= ts)
  <2>1. DeleteEntry(e, ts) = e /\ e # None /\ ts <= e.ts
    BY <1>3 DEF DeleteEntry, Slot, Entry
  <2> QED
    BY <2>1 DEF NewestOf
<1> QED
  BY <1>2, <1>3

(* Last write wins for every order of arrival: the slot of a key is the    *)
(* newest of the writes committed on it since it was last empty.           *)
THEOREM NewestWinsAlways == Spec => []NewestWins
<1> DEFINE NW == \A k \in Keys : NewestOf(data[k], presented[k])
<1>0. NW <=> NewestWins
  BY DEF NewestWins, NewestOf
<1>1. Init => NW
  BY DEF Init, NewestOf
<1>2. TypeOK /\ NW /\ [Next]_vars => NW'
  <2> SUFFICES ASSUME TypeOK, NW, [Next]_vars, NEW k \in Keys
               PROVE  NewestOf(data'[k], presented'[k])
    OBVIOUS
  <2>0. data[k] \in Slot /\ presented[k] \in SUBSET Write /\ NewestOf(data[k], presented[k])
    BY DEF TypeOK
  <2>1. ASSUME NEW t \in Threads, CommitSet(t) PROVE NewestOf(data'[k], presented'[k])
    <3> DEFINE c == call[t]
    <3>1. c.value \in Values /\ c.exp \in Nat \cup {None} /\ c.ts \in Nat
      BY <2>1, StoreConstants DEF CommitSet, Call, TypeOK
    <3>2. CASE k = c.key
      <4>1. /\ data'[k] = SetEntry(data[k], c.value, c.exp, c.ts)
            /\ presented'[k] = presented[k] \cup {[value |-> c.value, ts |-> c.ts]}
        BY <2>1, <3>2 DEF CommitSet, Present, TypeOK
      <4> HIDE DEF c
      <4>2. NewestOf(SetEntry(data[k], c.value, c.exp, c.ts),
                     presented[k] \cup {[value |-> c.value, ts |-> c.ts]})
        BY <3>1, <2>0, SetKeepsNewest
      <4> QED
        BY <4>1, <4>2
    <3>3. CASE k # c.key
      BY <2>1, <3>3, <2>0 DEF CommitSet, Present, TypeOK
    <3> QED
      BY <3>2, <3>3
  <2>2. ASSUME NEW t \in Threads, CommitDelete(t) PROVE NewestOf(data'[k], presented'[k])
    <3> DEFINE c == call[t]
    <3>1. c.ts \in Nat
      BY <2>2, StoreConstants DEF CommitDelete, Call, TypeOK
    <3>2. CASE k = c.key
      <4>1. /\ data'[k] = DeleteEntry(data[k], c.ts)
            /\ presented'[k] = presented[k] \cup {[value |-> TOMBSTONE, ts |-> c.ts]}
        BY <2>2, <3>2 DEF CommitDelete, Present, TypeOK
      <4> QED
        BY <4>1, <3>1, <2>0, DeleteKeepsNewest
    <3>3. CASE k # c.key
      BY <2>2, <3>3, <2>0 DEF CommitDelete, Present, TypeOK
    <3> QED
      BY <3>2, <3>3
  <2>3. ASSUME Forget, data'[k] \in {data[k], None} PROVE NewestOf(data'[k], presented'[k])
    BY <2>3, <2>0 DEF Forget, NewestOf
  <2>4. ASSUME NEW j \in Keys, GetVersioned(j) PROVE NewestOf(data'[k], presented'[k])
    BY <2>4, <2>3, <2>0, ExpiryType DEF GetVersioned, TypeOK
  <2>5. ASSUME NEW P \in Patterns, FlushKeys(P) PROVE NewestOf(data'[k], presented'[k])
    BY <2>5, <2>3 DEF FlushKeys
  <2>6. CASE FlushAll
    BY <2>6, <2>3 DEF FlushAll
  <2>7. CASE PurgeExpired
    BY <2>7, <2>3, <2>0, ExpiryType DEF PurgeExpired
  <2>8. CASE UNCHANGED <<data, presented>>
    BY <2>8, <2>0
  <2> QED
    BY <2>1, <2>2, <2>4, <2>5, <2>6, <2>7, <2>8
       DEF Next, StampSet, StampDelete, Tick, vars
<1> QED
  BY <1>0, <1>1, <1>2, TypeCorrect, PTL DEF Spec

-----------------------------------------------------------------------------
(* No step takes a key back in time: an entry is replaced by one that is   *)
(* not older, or goes by expiry or a flush; reads and purges take no       *)
(* tombstone (lww.py:69-74, :150-156).                                     *)
THEOREM VersionsAdvance == Spec => VersionsOnlyAdvance
<1> DEFINE Forward(k) ==
      data[k] # None =>
         \/ data'[k] # None /\ data'[k].ts >= data[k].ts
         \/ data'[k] = None /\ Lived(data[k]) /\ data[k].exp # None /\ data[k].exp <= mono
         \/ data'[k] = None /\ FlushStep /\ ~ExpiryStep
<1>1. TypeOK /\ TypeOK' /\ [Next]_vars => [\A k \in Keys : Forward(k)]_vars
  <2> SUFFICES ASSUME TypeOK, TypeOK', [Next]_vars, NEW k \in Keys, data[k] # None
               PROVE  Forward(k)
    BY Zenon
  <2>0. data[k] \in Entry /\ data[k].ts \in Nat /\ (data[k].exp # None => data[k].exp \in Nat)
    BY DEF TypeOK, Slot, Entry
  <2>1. ASSUME NEW t \in Threads, CommitSet(t) PROVE Forward(k)
    <3> DEFINE c == call[t]
    <3>1. c.value \in Values /\ c.exp \in Nat \cup {None} /\ c.ts \in Nat
      BY <2>1, StoreConstants DEF CommitSet, Call, TypeOK
    <3>2. data'[k] = data[k] \/ (data'[k] = SetEntry(data[k], c.value, c.exp, c.ts))
      BY <2>1 DEF CommitSet, TypeOK
    <3>3. [value |-> c.value, exp |-> c.exp, ts |-> c.ts] \in Entry
      BY <3>1 DEF Entry
    <3> QED
      BY <3>1, <3>2, <3>3, <2>0, Sentinels DEF SetEntry, SetAccepts
  <2>2. ASSUME NEW t \in Threads, CommitDelete(t) PROVE Forward(k)
    <3> DEFINE c == call[t]
    <3>1. c.ts \in Nat
      BY <2>2, StoreConstants DEF CommitDelete, Call, TypeOK
    <3>2. data'[k] = data[k] \/ (data'[k] = DeleteEntry(data[k], c.ts))
      BY <2>2 DEF CommitDelete, TypeOK
    <3>3. Buried(c.ts) \in Entry
      BY <3>1 DEF Entry, Buried
    <3> QED
      BY <3>1, <3>2, <3>3, <2>0, Sentinels DEF DeleteEntry, Buried
  <2>3. ASSUME NEW j \in Keys, GetVersioned(j) PROVE Forward(k)
    BY <2>3, <2>0 DEF GetVersioned, AfterGet, PastDeadline, TypeOK
  <2>4. CASE PurgeExpired
    BY <2>4, <2>0 DEF PurgeExpired, AfterPurge, Purgeable
  <2>5. CASE ExpiryStep
    BY <2>3, <2>4, <2>5 DEF ExpiryStep
  <2>6. CASE FlushStep
    <3>1. data'[k] = None \/ data'[k] = data[k]
      BY <2>6 DEF FlushStep, FlushAll, FlushKeys
    <3> QED
      BY <2>0, <2>5, <2>6, <3>1
  <2>7. CASE UNCHANGED data
    BY <2>7, <2>0
  <2> QED
    BY <2>1, <2>2, <2>3, <2>4, <2>6, <2>7
       DEF Next, StampSet, StampDelete, Tick, FlushStep, vars
<1> QED
  BY <1>1, TypeCorrect, PTL DEF Spec, VersionsOnlyAdvance

-----------------------------------------------------------------------------
(* The expiry tests of get_versioned(), scan() and purge_expired()         *)
(* (lww.py:73, :106, :153) are ordered: nothing a reader is shown is gone  *)
(* by the next purge, and nothing reported expired is shown again.         *)
THEOREM ExpiryOrderedAlways == Spec => []ExpiryOrdered
<1>1. TypeOK => ExpiryOrdered
  <2> SUFFICES ASSUME TypeOK, NEW k \in Keys
               PROVE  /\ Listed(data[k], mono) =>
                            Got(data[k], mono) # None /\ ~Purgeable(data[k], mono)
                      /\ Lived(data[k]) /\ Got(data[k], mono) = None =>
                            ~Listed(data[k], mono) /\ AfterPurge(data[k], mono) = None
    BY DEF ExpiryOrdered
  <2> DEFINE e == data[k]
  <2>1. e = None \/ (e \in Entry /\ e.exp \in Nat \cup {None} /\ e.value \in Values \cup {TOMBSTONE})
    BY DEF TypeOK, Slot, Entry
  <2>2. mono \in Nat
    BY StoreConstants DEF TypeOK
  <2>3. ASSUME Lived(e) PROVE Got(e, mono) = None <=> PastDeadline(e, mono)
    <3>1. e # None /\ e.value # TOMBSTONE /\ e.value # None
      BY <2>1, <2>3, Sentinels DEF Lived
    <3>2. CASE PastDeadline(e, mono)
      BY <3>2 DEF Got, Versioned
    <3>3. CASE ~PastDeadline(e, mono)
      <4>1. Versioned(e, mono) = [value |-> e.value, ts |-> e.ts, tombstone |-> FALSE]
        BY <3>1, <3>3 DEF Versioned
      <4>2. e.value \in Values /\ e.ts \in Nat
        BY <2>1, <3>1 DEF Entry
      <4>3. [value |-> e.value, ts |-> e.ts, tombstone |-> FALSE] \in VersionedValue
        BY <4>2 DEF VersionedValue
      <4>4. Versioned(e, mono) # None
        BY <4>1, <4>3, Sentinels
      <4> QED
        BY <3>1, <3>3, <4>1, <4>4 DEF Got
    <3> QED
      BY <3>2, <3>3
  <2> QED
    BY <2>1, <2>2, <2>3 DEF Listed, Purgeable, AfterPurge, PastDeadline, Lived
<1> QED
  BY <1>1, TypeCorrect, PTL

-----------------------------------------------------------------------------
(* An accepted set() leaves what LocalStore.set() leaves (basic.py:20-27). *)
LEMMA SetView ==
  ASSUME NEW e \in Slot, NEW v \in Values, NEW exp \in Nat \cup {None}, NEW ts \in Nat,
         SetAccepts(e, ts)
  PROVE  View(SetEntry(e, v, exp, ts)) = Plain!PlainSet(v, exp)
<1> DEFINE n == [value |-> v, exp |-> exp, ts |-> ts]
<1>1. SetEntry(e, v, exp, ts) = n
  BY DEF SetEntry
<1>2. n \in Entry /\ n.value = v /\ n.exp = exp
  BY DEF Entry
<1>3. n # None /\ n.value # TOMBSTONE
  BY <1>2, Sentinels
<1> HIDE DEF n
<1> QED
  BY <1>1, <1>2, <1>3 DEF View, Lived, Plain!PlainSet

(* An accepted delete() leaves nothing to see (basic.py:41-44). *)
LEMMA DeleteView ==
  ASSUME NEW e \in Slot, NEW ts \in Nat, e = None \/ e.ts <= ts
  PROVE  View(DeleteEntry(e, ts)) = None
<1>1. DeleteEntry(e, ts) = Buried(ts) /\ Buried(ts).value = TOMBSTONE
  BY DEF DeleteEntry, Buried
<1> QED
  BY <1>1 DEF View, Lived

(* Reads and purges drop the same entries of both stores at the same time  *)
(* (basic.py:29-39, :91-102), and both give the same answers.              *)
LEMMA ExpiryView ==
  ASSUME NEW e \in Slot, NEW now \in Nat
  PROVE  /\ View(AfterGet(e, now)) = Plain!PlainAfterGet(View(e), now)
         /\ View(AfterPurge(e, now)) = Plain!PlainAfterPurge(View(e), now)
         /\ Plain!PlainGot(View(e), now) = Got(e, now)
         /\ Plain!PlainListed(View(e), now) <=> Listed(e, now)
         /\ Plain!PlainDeleted(View(e)) <=> Lived(e)
<1> USE DEF Plain!PlainAfterGet, Plain!PlainAfterPurge, Plain!PlainGot, Plain!PlainListed,
            Plain!PlainDeleted, Plain!PlainPast, AfterGet, AfterPurge, Listed, PastDeadline,
            Purgeable
<1>1. CASE ~Lived(e)
  <2>1. View(e) = None
    BY <1>1 DEF View
  <2>2. Got(e, now) = None
    <3>1. CASE e = None
      BY <3>1 DEF Got, Versioned
    <3>2. CASE e # None
      <4> DEFINE r == [value |-> None, ts |-> e.ts, tombstone |-> TRUE]
      <4>1. e.value = TOMBSTONE
        BY <1>1, <3>2 DEF Lived
      <4>2. Versioned(e, now) = r
        BY <1>1, <3>2, <4>1 DEF Versioned
      <4>3. r.value = None
        OBVIOUS
      <4> HIDE DEF r
      <4> QED
        BY <4>2, <4>3 DEF Got
    <3> QED
      BY <3>1, <3>2
  <2>3. View(None) = None
    BY DEF View, Lived
  <2> QED
    BY <1>1, <2>1, <2>2, <2>3
<1>2. CASE Lived(e)
  <2> DEFINE p == [value |-> e.value, exp |-> e.exp]
  <2>1. View(e) = p
    BY <1>2 DEF View
  <2>2. e \in Entry /\ e.value \in Values /\ e.value # TOMBSTONE /\ e # None
    BY <1>2 DEF Lived, Slot, Entry
  <2>3. p \in PlainEntries /\ p.value = e.value /\ p.exp = e.exp
    BY <2>2 DEF Entry, PlainEntries
  <2>4. p # None
    BY <2>3, PlainSentinel
  <2> HIDE DEF p
  <2>5. View(None) = None
    BY DEF View, Lived
  <2>6. Got(e, now) = IF PastDeadline(e, now) THEN None ELSE e.value
    <3> DEFINE r == [value |-> e.value, ts |-> e.ts, tombstone |-> FALSE]
    <3>1. r \in VersionedValue /\ r.value = e.value
      BY <2>2 DEF VersionedValue, Entry
    <3>2. r # None
      BY <3>1, Sentinels
    <3>3. Versioned(e, now) = IF PastDeadline(e, now) THEN None ELSE r
      BY <2>2 DEF Versioned
    <3> HIDE DEF r
    <3> QED
      BY <3>1, <3>2, <3>3 DEF Got
  <2> QED
    BY <1>2, <2>1, <2>2, <2>3, <2>4, <2>5, <2>6
<1> QED
  BY <1>1, <1>2

-----------------------------------------------------------------------------
(* The pair moves as LWWStore does: everything proved of LWWStore holds of *)
(* it.                                                                     *)
LEMMA PairStep == ASSUME [PairNext]_pairVars PROVE [Next]_vars
<1>1. CASE UNCHANGED pairVars
  BY <1>1 DEF pairVars, vars
<1>2. CASE PairNext
  BY <1>2 DEF PairNext, Next, PairSet, PairDelete, PairGet, PairPurge, PairFlushKeys, PairFlushAll
<1> QED
  BY <1>1, <1>2

THEOREM PairImplementsStore == PairSpec => Spec
<1>1. PairInit => Init
  BY DEF PairInit
<1>2. [PairNext]_pairVars => [Next]_vars
  BY PairStep
<1> QED
  BY <1>1, <1>2, PTL DEF PairSpec, Spec

(* The first conjunct of SameAsPlain carries the induction: while a key    *)
(* has seen no refusal LocalStore holds exactly its live entry.            *)
SameEntry ==
  /\ plain \in [Keys -> PlainEntries \cup {None}]
  /\ \A k \in Keys \ refused : plain[k] = View(data[k])

LEMMA SameEntryInit == PairInit => SameEntry
  BY DEF PairInit, Init, SameEntry, View, Lived

LEMMA ViewType ==
  ASSUME NEW e \in Slot
  PROVE  View(e) \in PlainEntries \cup {None}
  BY DEF View, Lived, Slot, Entry, PlainEntries

(* One commit on one key, of a set or of a delete. *)
LEMMA CommitSame ==
  ASSUME TypeOK, TypeOK', SameEntry, NEW t \in Threads, NEW e \in PlainEntries \cup {None},
         call[t] # None, Commit(t, e),
         \A k \in Keys \ {call[t].key} : data'[k] = data[k],
         Fresh(t) => View(data'[call[t].key]) = e
  PROVE  SameEntry'
<1> DEFINE k == call[t].key
<1>1. k \in Keys
  BY DEF TypeOK, Call
<1>2. \A j \in Keys \ {k} : plain'[j] = plain[j] /\ (j \in refused' => j \in refused)
                           /\ (j \in refused => j \in refused')
  BY <1>1 DEF Commit, SameEntry
<1>3. plain' \in [Keys -> PlainEntries \cup {None}]
  BY <1>1 DEF Commit, SameEntry
<1>4. k \notin refused' => Fresh(t) /\ plain'[k] = e
  BY <1>1 DEF Commit, SameEntry
<1>5. ASSUME NEW j \in Keys \ refused' PROVE plain'[j] = View(data'[j])
  <2>1. CASE j = k
    BY <2>1, <1>4
  <2>2. CASE j # k
    BY <2>2, <1>2 DEF SameEntry
  <2> QED
    BY <2>1, <2>2
<1> QED
  BY <1>3, <1>5 DEF SameEntry

LEMMA SameEntryStep ==
  ASSUME TypeOK, TypeOK', SameEntry, [PairNext]_pairVars
  PROVE  SameEntry'
<1>0. data \in [Keys -> Slot] /\ data' \in [Keys -> Slot] /\ mono \in Nat
  BY DEF TypeOK
<1>1. CASE UNCHANGED <<data, plain, refused>>
  BY <1>1 DEF SameEntry
<1>2. ASSUME NEW t \in Threads, PairSet(t) PROVE SameEntry'
  <2> DEFINE c == call[t]
  <2>1. /\ c # None /\ c.key \in Keys /\ c.value \in Values
        /\ c.exp \in Nat \cup {None} /\ c.ts \in Nat
    BY <1>2, StoreConstants DEF PairSet, CommitSet, TypeOK, Call
  <2>2. data' = [data EXCEPT ![c.key] = SetEntry(@, c.value, c.exp, c.ts)]
    BY <1>2 DEF PairSet, CommitSet
  <2>3. Plain!PlainSet(c.value, c.exp) \in PlainEntries \cup {None}
    BY <2>1 DEF Plain!PlainSet, PlainEntries
  <2>4. Fresh(t) => View(data'[c.key]) = Plain!PlainSet(c.value, c.exp)
    BY <1>0, <2>1, <2>2, SetView DEF Fresh, SetAccepts
  <2>5. \A k \in Keys \ {c.key} : data'[k] = data[k]
    BY <1>0, <2>2
  <2>6. Commit(t, Plain!PlainSet(c.value, c.exp))
    BY <1>2 DEF PairSet
  <2> QED
    BY <2>1, <2>3, <2>4, <2>5, <2>6, CommitSame
<1>3. ASSUME NEW t \in Threads, PairDelete(t) PROVE SameEntry'
  <2> DEFINE c == call[t]
  <2>1. c # None /\ c.key \in Keys /\ c.ts \in Nat
    BY <1>3, StoreConstants DEF PairDelete, CommitDelete, TypeOK, Call
  <2>2. data' = [data EXCEPT ![c.key] = DeleteEntry(@, c.ts)]
    BY <1>3 DEF PairDelete, CommitDelete
  <2>3. Fresh(t) => View(data'[c.key]) = None
    BY <1>0, <2>1, <2>2, DeleteView DEF Fresh
  <2>4. \A k \in Keys \ {c.key} : data'[k] = data[k]
    BY <1>0, <2>2
  <2>5. Commit(t, None)
    BY <1>3 DEF PairDelete, Plain!PlainDelete
  <2> QED
    BY <2>1, <2>3, <2>4, <2>5, CommitSame
<1>4. ASSUME NEW k \in Keys, PairGet(k) PROVE SameEntry'
  <2>1. data'[k] = AfterGet(data[k], mono) /\ plain'[k] = Plain!PlainAfterGet(plain[k], mono)
    BY <1>0, <1>4 DEF PairGet, GetVersioned, SameEntry
  <2>2. plain'[k] \in PlainEntries \cup {None}
    BY <2>1 DEF Plain!PlainAfterGet, SameEntry
  <2>3. k \notin refused => plain'[k] = View(data'[k])
    BY <1>0, <2>1, ExpiryView DEF SameEntry
  <2> QED
    BY <1>0, <1>4, <2>2, <2>3 DEF PairGet, GetVersioned, SameEntry
<1>5. CASE PairPurge
  <2>1. ASSUME NEW k \in Keys
        PROVE  /\ data'[k] = AfterPurge(data[k], mono)
               /\ plain'[k] = Plain!PlainAfterPurge(plain[k], mono)
               /\ plain'[k] \in PlainEntries \cup {None}
    BY <1>5 DEF PairPurge, PurgeExpired, SameEntry, Plain!PlainAfterPurge
  <2>2. ASSUME NEW k \in Keys \ refused PROVE plain'[k] = View(data'[k])
    BY <1>0, <2>1, ExpiryView DEF SameEntry
  <2> QED
    BY <1>5, <2>1, <2>2 DEF PairPurge, SameEntry
<1>6. ASSUME NEW P \in Patterns, PairFlushKeys(P) PROVE SameEntry'
  BY <1>6 DEF PairFlushKeys, FlushKeys, SameEntry, View, Lived
<1>7. CASE PairFlushAll
  BY <1>7 DEF PairFlushAll, FlushAll, SameEntry, View, Lived
<1>8. CASE PairNext
  BY <1>8, <1>1, <1>2, <1>3, <1>4, <1>5, <1>6, <1>7 DEF PairNext, StampSet, StampDelete, Tick
<1> QED
  BY <1>1, <1>8 DEF pairVars

(* Until a write is refused on a key, nobody can tell the LWW store from   *)
(* LocalStore by what get(), exists(), keys(), scan() and delete() return. *)
THEOREM SameAsPlainAlways == PairSpec => []SameAsPlain
<1>1. PairSpec => []TypeOK
  BY PairImplementsStore, TypeCorrect, PTL
<1>2. TypeOK /\ TypeOK' /\ SameEntry /\ [PairNext]_pairVars => SameEntry'
  BY SameEntryStep
<1>3. TypeOK /\ SameEntry => SameAsPlain
  <2> SUFFICES ASSUME TypeOK, SameEntry, NEW k \in Keys \ refused
               PROVE  /\ plain[k] = View(data[k])
                      /\ Plain!PlainGot(plain[k], mono) = Got(data[k], mono)
                      /\ Plain!PlainListed(plain[k], mono) <=> Listed(data[k], mono)
                      /\ Plain!PlainDeleted(plain[k]) <=> Lived(data[k])
    BY DEF SameAsPlain
  <2>1. plain[k] = View(data[k]) /\ data[k] \in Slot /\ mono \in Nat
    BY DEF SameEntry, TypeOK
  <2> QED
    BY <2>1, ExpiryView
<1> QED
  BY <1>1, <1>2, <1>3, SameEntryInit, PTL DEF PairSpec
=============================================================================

------------------------------ MODULE LWWEntry ------------------------------
(***************************************************************************)
(* One slot of LocalLWWStore._data (dlstorage/store/lww.py): what the      *)
(* store holds for one key, and what each method does to it.  Every method *)
(* body runs under the store's lock, so it is a function of the slot, the  *)
(* arguments and the clock.                                                *)
(***************************************************************************)
EXTENDS Integers

CONSTANTS
  Values,      \* the values users store
  TOMBSTONE,   \* the sentinel _TOMBSTONE
  None         \* Python's None: no entry, no expiry, nothing read

(* key -> (value_or_TOMBSTONE, expires_at, ts_ns) *)
Entry == [value : Values \cup {TOMBSTONE}, exp : Nat \cup {None}, ts : Nat]

Slot == Entry \cup {None}

(* what get_versioned() returns of an entry: (value, ts_ns, is_tombstone) *)
VersionedValue == [value : Values \cup {None}, ts : Nat, tombstone : BOOLEAN]

ASSUME Sentinels ==
  /\ TOMBSTONE \notin Values
  /\ None \notin Values \cup {TOMBSTONE}
  /\ None \notin Nat
  /\ None \notin Entry \cup VersionedValue

-----------------------------------------------------------------------------
(* set(): a write is discarded when the stored timestamp is newer.         *)
(* SetAccepts is the Boolean the method returns.                           *)
SetAccepts_Always(e, ts) == TRUE

SetAccepts(e, ts) == e = None \/ e.ts <= ts

SetEntry(e, v, exp, ts) ==
  IF SetAccepts(e, ts) THEN [value |-> v, exp |-> exp, ts |-> ts] ELSE e

(* delete(): stores a tombstone unless the entry is newer; returns whether *)
(* a live entry was there, stored tombstone or not.                        *)
Lived(e) == e # None /\ e.value # TOMBSTONE

Buried_NoSentinel(ts) == [value |-> None, exp |-> None, ts |-> ts]

Buried(ts) == [value |-> TOMBSTONE, exp |-> None, ts |-> ts]

DeleteEntry_Blind(e, ts) == Buried(ts)

DeleteEntry(e, ts) == IF e = None \/ e.ts <= ts THEN Buried(ts) ELSE e

-----------------------------------------------------------------------------
(* get_versioned(): an entry strictly past its deadline is dropped and     *)
(* reported absent; a tombstone is reported, never dropped.                *)
PastDeadline(e, now) == Lived(e) /\ e.exp # None /\ now > e.exp

AfterGet(e, now) == IF PastDeadline(e, now) THEN None ELSE e

Versioned(e, now) ==
  IF e = None \/ PastDeadline(e, now) THEN None
  ELSE [value |-> IF e.value = TOMBSTONE THEN None ELSE e.value,
        ts |-> e.ts, tombstone |-> e.value = TOMBSTONE]

(* get() and exists() *)
Got(e, now) ==
  LET r == Versioned(e, now) IN IF r = None THEN None ELSE r.value

(* keys(), scan() and scan_keys() list a key strictly before its deadline. *)
Listed_AtDeadline(e, now) == Lived(e) /\ (e.exp = None \/ e.exp >= now)

Listed(e, now) == Lived(e) /\ (e.exp = None \/ e.exp > now)

(* purge_expired() removes an entry at or past its deadline.               *)
Purgeable_Tombstones(e, now) ==
  e # None /\ (e.value = TOMBSTONE \/ (e.exp # None /\ e.exp <= now))

Purgeable(e, now) == Lived(e) /\ e.exp # None /\ e.exp <= now

AfterPurge(e, now) == IF Purgeable(e, now) THEN None ELSE e
=============================================================================

----------------------------- MODULE PlainEntry -----------------------------
(***************************************************************************)
(* One slot of LocalStore._data (dlstorage/store/basic.py), the store      *)
(* without timestamps: what each method makes of it and returns.           *)
(***************************************************************************)
EXTENDS Integers

CONSTANT Absent   \* no entry, no expiry

(* key -> (value, expires_at) *)
PlainSet(v, exp) == [value |-> v, exp |-> exp]

(* delete(): pop() the entry, expired or not. *)
PlainDelete(e) == Absent
PlainDeleted(e) == e # Absent

(* get() and exists(): an entry strictly past its deadline is dropped. *)
PlainPast(e, now) == e # Absent /\ e.exp # Absent /\ now > e.exp

PlainAfterGet(e, now) == IF PlainPast(e, now) THEN Absent ELSE e

PlainGot(e, now) == IF e = Absent \/ PlainPast(e, now) THEN Absent ELSE e.value

(* keys(), scan() and scan_keys() *)
PlainListed(e, now) == e # Absent /\ (e.exp = Absent \/ e.exp > now)

(* purge_expired() *)
PlainAfterPurge_Strict(e, now) ==
  IF e # Absent /\ e.exp # Absent /\ e.exp < now THEN Absent ELSE e

PlainAfterPurge(e, now) ==
  IF e # Absent /\ e.exp # Absent /\ e.exp <= now THEN Absent ELSE e
=============================================================================

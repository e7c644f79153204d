---------------------------- MODULE MergeResolver ---------------------------
(***************************************************************************)
(* The read policies of dlstorage/consistency: LWW and FHW, synchronous    *)
(* and asynchronous.  A result is a versioned value of LWWEntry, or None   *)
(* for an absent key, an unreachable replica or a raised exception; the    *)
(* results come in ring-preference order.                                  *)
(***************************************************************************)
EXTENDS LWWEntry, Sequences, SequencesExt

(* LWW.read_resolve: scan the results for a strictly newer timestamp. *)
Nothing == [value |-> None, ts |-> -1, tombstone |-> FALSE]

Best_LastTie(results) ==
  LET scan[i \in 0..Len(results)] ==
        IF i = 0 THEN Nothing
        ELSE IF results[i] # None /\ results[i].ts >= scan[i - 1].ts THEN results[i] ELSE scan[i - 1]
  IN  scan[Len(results)]

Best_SkipsTombstones(results) ==
  LET scan[i \in 0..Len(results)] ==
        IF i = 0 THEN Nothing
        ELSE IF results[i] # None /\ ~results[i].tombstone /\ results[i].ts > scan[i - 1].ts THEN results[i] ELSE scan[i - 1]
  IN  scan[Len(results)]

Newer(r, best) == r # None /\ r.ts > best.ts

Best(results) ==
  LET scan[i \in 0..Len(results)] ==
        IF i = 0 THEN Nothing
        ELSE IF Newer(results[i], scan[i - 1]) THEN results[i] ELSE scan[i - 1]
  IN  scan[Len(results)]

LWWResolve(results) ==
  LET best == Best(results)
  IN  IF best.ts < 0 \/ best.tombstone THEN None ELSE best.value

(* FHW.read_resolve: the first result that is a value; it asks no further. *)
IsHit(r) == r # None /\ ~r.tombstone

FHWResolve_FirstOnly(results) ==
  IF results = <<>> \/ results[1] = None THEN None ELSE results[1].value

FHWResolve(results) ==
  LET i == SelectInSeq(results, IsHit)
  IN  IF i = 0 THEN None ELSE results[i].value
=============================================================================

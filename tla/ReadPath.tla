------------------------------ MODULE ReadPath ------------------------------
(***************************************************************************)
(* One get() on the ring and the merge policies (dlstorage/node/sync.py,   *)
(* consistency/): the replicas are looked up once, in ring-preference      *)
(* order, their answers come in one by one and the policy resolves them,   *)
(* while joins and departures go on changing the ring.                     *)
(***************************************************************************)
EXTENDS RendezvousRing, MergeResolver

CONSTANT
  MaxTs         \* bound on the timestamps

ASSUME ReadConstants == MaxTs \in Nat

VARIABLE read   \* the get() in progress: its replicas and their answers so far

readVars == <<members, score, read>>

NoRead == [order |-> <<>>, results |-> <<>>]

(* What get_versioned() of a replica handle can return. *)
Result ==
  [value : Values, ts : 1..MaxTs, tombstone : {FALSE}]
    \cup [value : {None}, ts : 1..MaxTs, tombstone : {TRUE}]
    \cup {None}

ReadInit == Init /\ read = NoRead

BeginRead ==
  /\ read = NoRead /\ members # {}
  /\ read' = [order |-> GetNodes(members, score, Replication), results |-> <<>>]
  /\ UNCHANGED <<members, score>>

Answer(r) ==
  /\ Len(read.results) < Len(read.order)
  /\ read' = [read EXCEPT !.results = Append(@, r)]
  /\ UNCHANGED <<members, score>>

EndRead ==
  /\ read # NoRead /\ Len(read.results) = Len(read.order)
  /\ read' = NoRead
  /\ UNCHANGED <<members, score>>

ReadNext ==
  \/ Next /\ UNCHANGED read
  \/ BeginRead \/ EndRead
  \/ \E r \in Result : Answer(r)

ReadSpec == ReadInit /\ [][ReadNext]_readVars

-----------------------------------------------------------------------------
Answers == Range(read.results) \ {None}

Newest == {r \in Answers : \A s \in Answers : s.ts <= r.ts}

(* LWW (consistency/lww.py:47-55) returns the value of a newest answer,    *)
(* or nothing when there is no answer or the newest one is a tombstone.    *)
(* Of two answers with the same timestamp it takes the replica that ranks  *)
(* first: that is the whole tie-break.                                     *)
LWWReturnsNewest ==
  LET first == SelectInSeq(read.results, LAMBDA r : r \in Newest)
  IN  LWWResolve(read.results) =
        IF first = 0 \/ read.results[first].tombstone THEN None
        ELSE read.results[first].value

(* FHW (consistency/fhw.py:27-38) gives what LWW gives whenever the        *)
(* replicas that answered agree; it needs no more than that.               *)
FHWAgreesWithLWW ==
  (\A r, s \in Answers : r = s) => FHWResolve(read.results) = LWWResolve(read.results)
=============================================================================

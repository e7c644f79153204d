---------------------------- MODULE MCReplication ---------------------------
(* Instances of Replication for TLC: nodes ranked n1 < n2 < n3. *)
EXTENDS Replication

CONSTANTS n1, n2, n3

TwoNodes   == {n1, n2}
ThreeNodes == {n1, n2, n3}

RankedScore == [n \in Nodes |-> CASE n = n1 -> 1 [] n = n2 -> 2 [] n = n3 -> 3]

AllKnown == [n \in Nodes |-> Nodes]
=============================================================================

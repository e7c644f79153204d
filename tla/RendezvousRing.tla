--------------------------- MODULE RendezvousRing ---------------------------
(***************************************************************************)
(* RendezvousRing (dlstorage/ring/rendezvous.py): the set of member nodes  *)
(* a node routes by, as joins and evictions change it, seen from one key   *)
(* whose scores are fixed but arbitrary.                                   *)
(***************************************************************************)
EXTENDS Rendezvous

CONSTANTS
  Nodes,
  Replication,  \* the n of get_nodes(key, n)
  NoNode        \* get_node() of an empty ring

ASSUME RingConstants ==
  /\ Replication \in Nat \ {0}
  /\ IsFiniteSet(Nodes)
  /\ NoNode \notin Nodes

VARIABLES
  members,      \* _nodes
  score         \* _score(., key)

vars == <<members, score>>

TypeOK ==
  /\ members \subseteq Nodes
  /\ score \in [Nodes -> Nat]

Init ==
  /\ members = {}
  /\ score \in Scores(Nodes, 1..Cardinality(Nodes))

AddNode(x) ==
  /\ members' = members \cup {x}
  /\ UNCHANGED score

RemoveNode(x) ==
  /\ members' = members \ {x}
  /\ UNCHANGED score

Next == \E x \in Nodes : AddNode(x) \/ RemoveNode(x)

Spec == Init /\ [][Next]_vars

-----------------------------------------------------------------------------
Replicas == TopN(members, score, Replication)

(* The replicas of a key are exactly the nodes get_nodes() returns, in     *)
(* strictly descending order of score, and as many as the ring can give;   *)
(* get_node() is the first of them.                                        *)
RankedIsTopN ==
  LET ranked == GetNodes(members, score, Replication) IN
    /\ Range(ranked) = Replicas
    /\ Len(ranked) = Min({Replication, Cardinality(members)})
    /\ \A i, j \in DOMAIN ranked : i < j => score[ranked[i]] > score[ranked[j]]
    /\ GetNode(members, score, NoNode) = IF ranked = <<>> THEN NoNode ELSE ranked[1]

(* "Minimal key remapping when nodes join/leave" (rendezvous.py:19): one   *)
(* join brings in at most the node that joined, and one departure takes    *)
(* away at most the node that left; every other replica stays.             *)
MinimalRemap ==
  [][/\ members \subseteq members' => Replicas' \subseteq Replicas \cup (members' \ members)
     /\ members' \subseteq members => Replicas \cap members' \subseteq Replicas']_vars
=============================================================================

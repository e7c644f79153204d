----------------------------- MODULE Rendezvous -----------------------------
(***************************************************************************)
(* Highest-random-weight placement (dlstorage/ring/rendezvous.py) of one   *)
(* key.  A score function maps each node to _score(node, key); SHA-256 is  *)
(* taken to give two nodes different scores.                               *)
(***************************************************************************)
EXTENDS Integers, FiniteSets, Sequences, SequencesExt

(* The score functions of a key: natural numbers, no two nodes alike. *)
Scores(Node, Points) ==
  {sc \in [Node -> Points] : \A a, b \in Node : sc[a] = sc[b] => a = b}

(* get_node(): the node with the highest score, or none in an empty ring. *)
GetNode(S, sc, none) ==
  IF S = {} THEN none ELSE CHOOSE x \in S : \A y \in S : sc[y] <= sc[x]

(* sorted(..., reverse=True): the ring in descending order of score. *)
Ranking_Ascending(S, sc) ==
  CHOOSE f \in [1..Cardinality(S) -> S] : \A i, j \in DOMAIN f : i < j => sc[f[i]] < sc[f[j]]

Ranking(S, sc) ==
  CHOOSE f \in [1..Cardinality(S) -> S] : \A i, j \in DOMAIN f : i < j => sc[f[i]] > sc[f[j]]

(* get_nodes(): the first n of the ranked ring. *)
GetNodes(S, sc, n) ==
  SubSeq(Ranking(S, sc), 1, IF n < Cardinality(S) THEN n ELSE Cardinality(S))

(* The same nodes without their order: those that fewer than n others beat. *)
Beats(S, sc, x) == {y \in S : sc[y] > sc[x]}

TopN_SlicedShort(S, sc, n) ==
  {x \in S : Cardinality(Beats(S, sc, x)) < IF n < Cardinality(S) THEN n ELSE Cardinality(S) - 1}

TopN(S, sc, n) == {x \in S : Cardinality(Beats(S, sc, x)) < n}
=============================================================================

----------------------------- MODULE MCReadPath -----------------------------
(* Instances of ReadPath for TLC: every order of scores of four nodes. *)
EXTENDS ReadPath

CONSTANTS n1, n2, n3, n4, v1, v2

FourNodes == {n1, n2, n3, n4}
TwoValues == {v1, v2}

(* Init has every score function, so nodes are interchangeable. *)
Symmetry == Permutations(FourNodes) \cup Permutations(Values)
=============================================================================

---------------------------- MODULE MCRetryPool -----------------------------
(* An instance of RetryPool for TLC. *)
EXTENDS RetryPool, TLC

CONSTANTS c1, c2, x1, x2, x3

TwoCallers == {c1, c2}
ThreeConns == {x1, x2, x3}

(* Callers and connections are only ever compared for equality. *)
Symmetry == Permutations(TwoCallers) \cup Permutations(ThreeConns)
=============================================================================

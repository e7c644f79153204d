----------------------------- MODULE MCLWWStore -----------------------------
(* Instances of LWWStore for TLC. *)
EXTENDS StorePair, TLC

CONSTANTS k1, v1, v2, t1, t2

OneKey == {k1}
TwoValues == {v1, v2}
TwoThreads == {t1, t2}
MatchesAll == {{k1}}

(* Values and threads are only ever compared for equality. *)
Symmetry == Permutations(TwoValues) \cup Permutations(TwoThreads)

(* What is left of a state for properties that do not ask for buriedAt, a  *)
(* history variable no guard reads.                                        *)
WithoutBurials == <<data, mono, call, presented, plain, refused>>
=============================================================================

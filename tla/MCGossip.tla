------------------------------ MODULE MCGossip ------------------------------
(* Instances of Gossip for TLC: s is the seed. *)
EXTENDS Gossip

CONSTANTS s, a, b

ThreeNodes == {s, a, b}
=============================================================================

--------------------------- MODULE MCThreadedNode ---------------------------
(* An instance of ThreadedNode for TLC. *)
EXTENDS ThreadedNode

CONSTANTS self, a, b, h1, h2

TwoPeers    == {a, b}
TwoHandlers == {h1, h2}
=============================================================================

---------------------------- MODULE MCAsyncStop ----------------------------
(* Two nodes; b may hold two connections to a, a one to b. *)
EXTENDS AsyncStop

CONSTANTS a, b

TwoNodes   == {a, b}
ThreeLinks == {<<a, b, 1>>, <<b, a, 1>>, <<b, a, 2>>}
=============================================================================

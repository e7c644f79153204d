----------------------------- MODULE MCMuxPool ------------------------------
(* An instance of MuxPool for TLC. *)
EXTENDS MuxPool
=============================================================================

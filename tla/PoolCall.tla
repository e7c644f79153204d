------------------------------ MODULE PoolCall ------------------------------
(***************************************************************************)
(* What execute() of a connection pool promises its caller                 *)
(* (dlstorage/connection_pool/interface.py, and how the replica handles    *)
(* and gossip use it): it ends once, with the answer of the peer, with     *)
(* None, or with an exception.  An answer means that the peer has served   *)
(* the message, an exception that the message was never sent; None, or     *)
(* the cancellation of the call, means nothing.  The peer serves a message *)
(* at most Copies times, some of them perhaps after execute() has ended.   *)
(***************************************************************************)
EXTENDS Naturals

CONSTANTS
  Requests,
  Copies      \* how often a message may be served

VARIABLES
  phase,      \* per request: "new", "open", "answered", "failed" or "raised"
  served      \* per request, how often the peer has served it

vars == <<phase, served>>

Init ==
  /\ phase = [r \in Requests |-> "new"]
  /\ served = [r \in Requests |-> 0]

Move(r, from, to) == phase[r] = from /\ phase' = [phase EXCEPT ![r] = to]

Execute(r) == Move(r, "new", "open") /\ UNCHANGED served

Serve(r) ==
  /\ phase[r] \notin {"new", "raised"} /\ served[r] < Copies
  /\ served' = [served EXCEPT ![r] = @ + 1]
  /\ UNCHANGED phase

Succeed(r) == served[r] > 0 /\ Move(r, "open", "answered") /\ UNCHANGED served

Fail(r) == Move(r, "open", "failed") /\ UNCHANGED served

Raise(r) == served[r] = 0 /\ Move(r, "open", "raised") /\ UNCHANGED served

Next ==
  \E r \in Requests : Execute(r) \/ Serve(r) \/ Succeed(r) \/ Fail(r) \/ Raise(r)

Spec == Init /\ [][Next]_vars
=============================================================================

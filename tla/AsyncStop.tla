----------------------------- MODULE AsyncStop -----------------------------
(***************************************************************************)
(* How asynchronous nodes stop: AsyncStorageNode.stop() and                *)
(* _handle_client() (dlstorage/node/async_.py) with the connections that   *)
(* AsyncConnectionPool (dlstorage/connection_pool/async_.py) keeps between *)
(* the nodes.  stop() suspends four times, and while it does so the event  *)
(* loop accepts connections, runs handlers and serves the node's callers.  *)
(* asyncio's Server.wait_closed() waits for every accepted connection.     *)
(***************************************************************************)
EXTENDS Naturals, FiniteSets

CONSTANTS
  Nodes,
  Links     \* the connections there may be, each <<client, server, number>>

ASSUME StopConstants ==
  IsFiniteSet(Nodes) /\ Links \subseteq Nodes \X Nodes \X Nat

VARIABLES
  phase,     \* where stop() of each node is
  tasks,     \* whether the gossip and purge tasks of each node run
  client,    \* the client's end: who uses it, "idle" in the pool, "closed"
  server,    \* the server's end: "accepted", its handler "serving" or "cancelled", "closed"
  queued,    \* whether the pool still has the queue the connection returns to
  late,      \* history: connections whose handler stop() did not cancel
  after      \* history: connections opened by a node that has stopped

stopVars == <<phase, tasks, client, server, queued, late, after>>

From(n) == {l \in Links : l[1] = n}
To(n)   == {l \in Links : l[2] = n}

Users == {"gossip", "api"}
InUse(l) == client[l] \in Users

Listening(n) == phase[n] \in {"up", "leaving", "cancelling", "gathering"}

StopInit ==
  /\ phase = [n \in Nodes |-> "up"]
  /\ tasks = [n \in Nodes |-> TRUE]
  /\ client = [l \in Links |-> "closed"]
  /\ server = [l \in Links |-> "closed"]
  /\ queued = [l \in Links |-> FALSE]
  /\ late = {} /\ after = {}

-----------------------------------------------------------------------------
(* Calls of the gossip task end with it.  A call of the API that overlaps  *)
(* stop() is not told of it, and its execute() works as before.            *)
MayCall(n, user) == user = "gossip" => tasks[n]

(* execute(): a new connection, which the server accepts at once and whose *)
(* handler task runs later, or one from the pool.  _queue() makes a queue  *)
(* if close_all() has taken the one there was.                             *)
Open(l, user) ==
  /\ MayCall(l[1], user)
  /\ client[l] = "closed" /\ server[l] = "closed"
  /\ Listening(l[2])
  /\ client' = [client EXCEPT ![l] = user]
  /\ server' = [server EXCEPT ![l] = "accepted"]
  /\ queued' = [queued EXCEPT ![l] = TRUE]
  /\ late' = IF phase[l[2]] = "gathering" THEN late \cup {l} ELSE late \ {l}
  /\ after' = IF phase[l[1]] = "stopped" THEN after \cup {l} ELSE after \ {l}
  /\ UNCHANGED <<phase, tasks>>

Reuse(l, user) ==
  /\ MayCall(l[1], user)
  /\ client[l] = "idle"
  /\ client' = [client EXCEPT ![l] = user]
  /\ UNCHANGED <<phase, tasks, server, queued, late, after>>

(* _handle_client() starts: it registers itself in _handler_tasks. *)
Run(l) ==
  /\ server[l] = "accepted"
  /\ server' = [server EXCEPT ![l] = "serving"]
  /\ UNCHANGED <<phase, tasks, client, queued, late, after>>

(* An answer; the caller returns the connection.  With its queue dropped,  *)
(* nobody holds the connection any more, and it is collected and closed.   *)
Serve(l) ==
  /\ server[l] = "serving" /\ InUse(l)
  /\ client' = [client EXCEPT ![l] = IF queued[l] THEN "idle" ELSE "closed"]
  /\ UNCHANGED <<phase, tasks, server, queued, late, after>>

(* The answer comes too late, or the connection turns out to be broken. *)
GiveUp(l) ==
  /\ InUse(l)
  /\ client' = [client EXCEPT ![l] = "closed"]
  /\ UNCHANGED <<phase, tasks, server, queued, late, after>>

(* recv_message_async() meets the end of the stream. *)
SeeEnd(l) ==
  /\ server[l] = "serving" /\ client[l] = "closed"
  /\ server' = [server EXCEPT ![l] = "closed"]
  /\ UNCHANGED <<phase, tasks, client, queued, late, after>>

(* The CancelledError arrives: the handler closes its connection. *)
EndHandler(l) ==
  /\ server[l] = "cancelled"
  /\ server' = [server EXCEPT ![l] = "closed"]
  /\ UNCHANGED <<phase, tasks, client, queued, late, after>>

-----------------------------------------------------------------------------
(* close_peer() and close_all(): what is idle is closed, what is in use    *)
(* loses its queue.                                                        *)
CloseLinks(ls) ==
  /\ client' = [l \in Links |-> IF l \in ls /\ client[l] = "idle" THEN "closed" ELSE client[l]]
  /\ queued' = [l \in Links |-> queued[l] /\ l \notin ls]

(* _evict() *)
Evict(n, p) ==
  /\ tasks[n] /\ n # p
  /\ CloseLinks(From(n) \cap To(p))
  /\ UNCHANGED <<phase, tasks, server, late, after>>

Advance(n, to) == phase' = [phase EXCEPT ![n] = to]

(* stop(): announce_leave() goes out, *)
Leave(n) ==
  /\ phase[n] = "up"
  /\ Advance(n, "leaving")
  /\ UNCHANGED <<tasks, client, server, queued, late, after>>

(* it reaches some of the peers, which close their pooled connections, and *)
(* the background tasks are cancelled;                                     *)
CancelTasks(n) ==
  /\ phase[n] = "leaving"
  /\ \E told \in SUBSET {p \in Nodes \ {n} : phase[p] # "stopped"} :
       CloseLinks(To(n) \cap UNION {From(p) : p \in told})
  /\ Advance(n, "cancelling")
  /\ UNCHANGED <<tasks, server, late, after>>

(* the tasks end, and drop the connections they were using;                *)
EndTasks(n) ==
  /\ phase[n] = "cancelling" /\ tasks[n]
  /\ tasks' = [tasks EXCEPT ![n] = FALSE]
  /\ client' = [l \in Links |-> IF l \in From(n) /\ client[l] = "gossip" THEN "closed" ELSE client[l]]
  /\ UNCHANGED <<phase, server, queued, late, after>>

(* the handlers that have registered are cancelled: with none of them the  *)
(* gather returns at once and the server is closed in the same step;       *)
Registered(n) == {l \in To(n) : server[l] = "serving"}

CancelHandlers_Spares(n) ==
  /\ phase[n] = "cancelling" /\ ~tasks[n]
  /\ late' = late \cup {l \in To(n) : server[l] = "accepted"}
  /\ Advance(n, "closing")
  /\ UNCHANGED <<tasks, client, server, queued, after>>

CancelHandlers_NoGather(n) ==
  /\ phase[n] = "cancelling" /\ ~tasks[n]
  /\ server' = [l \in Links |-> IF l \in Registered(n) THEN "cancelled" ELSE server[l]]
  /\ late' = late \cup {l \in To(n) : server[l] = "accepted"}
  /\ Advance(n, "closing")
  /\ UNCHANGED <<tasks, client, queued, after>>

CancelHandlers(n) ==
  /\ phase[n] = "cancelling" /\ ~tasks[n]
  /\ server' = [l \in Links |-> IF l \in Registered(n) THEN "cancelled" ELSE server[l]]
  /\ late' = late \cup {l \in To(n) : server[l] = "accepted"}
  /\ Advance(n, IF Registered(n) = {} THEN "closing" ELSE "gathering")
  /\ UNCHANGED <<tasks, client, queued, after>>

(* when they have ended the server closes;                                 *)
CloseServer(n) ==
  /\ phase[n] = "gathering"
  /\ \A l \in To(n) : server[l] # "cancelled"
  /\ Advance(n, "closing")
  /\ UNCHANGED <<tasks, client, server, queued, late, after>>

Finish_NoWait(n) ==
  /\ phase[n] = "closing"
  /\ CloseLinks(From(n))
  /\ Advance(n, "stopped")
  /\ UNCHANGED <<tasks, server, late, after>>

(* and when wait_closed() returns, the pool.                               *)
Finish(n) ==
  /\ phase[n] = "closing"
  /\ \A l \in To(n) : server[l] = "closed"
  /\ CloseLinks(From(n))
  /\ Advance(n, "stopped")
  /\ UNCHANGED <<tasks, server, late, after>>

-----------------------------------------------------------------------------
Handler(l) == Run(l) \/ Serve(l) \/ SeeEnd(l) \/ EndHandler(l)

StopRunsOn(n) ==
  \/ CancelTasks(n) \/ EndTasks(n) \/ CancelHandlers(n)
  \/ CloseServer(n) \/ Finish(n)

StopNext ==
  \/ \E l \in Links :
       \/ Handler(l) \/ GiveUp(l)
       \/ \E user \in Users : Open(l, user) \/ Reuse(l, user)
  \/ \E n \in Nodes :
       \/ Leave(n) \/ StopRunsOn(n)
       \/ \E p \in Nodes : Evict(n, p)

(* The event loops run what is ready.  A call on a connection that the     *)
(* server has closed fails; nobody has to make calls.                      *)
StopSpec ==
  /\ StopInit /\ [][StopNext]_stopVars
  /\ \A l \in Links : WF_stopVars(Handler(l)) /\ WF_stopVars(server[l] = "closed" /\ GiveUp(l))
  /\ \A n \in Nodes : WF_stopVars(StopRunsOn(n))

-----------------------------------------------------------------------------
StopTypeOK ==
  /\ phase \in [Nodes -> {"up", "leaving", "cancelling", "gathering", "closing", "stopped"}]
  /\ tasks \in [Nodes -> BOOLEAN]
  /\ client \in [Links -> Users \cup {"idle", "closed"}]
  /\ server \in [Links -> {"accepted", "serving", "cancelled", "closed"}]
  /\ queued \in [Links -> BOOLEAN]
  /\ \A l \in Links : client[l] = "idle" => queued[l]
  /\ \A l \in Links : server[l] = "cancelled" => phase[l[2]] = "gathering"
  /\ late \subseteq Links /\ after \subseteq Links

(* "Announce departure, stop the server and background tasks"              *)
(* (async_.py:185): when stop() has returned no task of the node is left   *)
(* and none of its handlers serves, although connections opened and calls  *)
(* returned between any two of its steps; and its pool holds no connection *)
(* but those that an API call, which overlapped stop(), opened after       *)
(* close_all() (async_.py:198): nothing that was open before survives.     *)
StoppedClean ==
  \A n \in Nodes : phase[n] = "stopped" =>
    /\ ~tasks[n]
    /\ \A l \in To(n) : server[l] = "closed"
    /\ \A l \in From(n) : client[l] # "gossip" /\ (client[l] = "idle" => l \in after)

(* "Cancel active client-handler tasks so wait_closed() returns promptly"  *)
(* (async_.py:191): stop() returns, or waits for ever for a connection     *)
(* that was accepted too late to be cancelled and that its client keeps.   *)
(* Nothing else holds it up, whatever the other node's stop() waits for.   *)
StopReturnsUnlessLate ==
  \A n \in Nodes :
    phase[n] = "leaving" ~>
      \/ phase[n] = "stopped"
      \/ [](phase[n] = "closing" /\ \E l \in late \cap To(n) : server[l] # "closed" /\ client[l] # "closed")
=============================================================================

----------------------------- MODULE RetryPool ------------------------------
(***************************************************************************)
(* ConnectionPool and AsyncConnectionPool (dlstorage/connection_pool/      *)
(* sync.py, async_.py) towards one peer: callers that take an idle         *)
(* connection or open one, exchange one message on it, put it back, and    *)
(* try once more on a new connection when a pooled one fails.  close_peer  *)
(* and close_all take the queue out of the table; a caller keeps the queue *)
(* it looked up.  Queues are told apart by a number.  The async pool does  *)
(* between two awaits what the sync one does in several steps.             *)
(***************************************************************************)
EXTENDS Integers, FiniteSets, Sequences

CONSTANTS
  Callers,
  Conns,          \* bound on the connections open at a time
  MaxPerPeer,     \* max_per_peer, 0 for no limit
  MaxCalls,       \* bound on the calls of each caller
  MaxQueues,      \* bound on the queues ever made for the peer
  MaxDisturbed,   \* bound on timeouts, refusals, cancellations and broken connections
  None,
  KeyError        \* the exception of _queue()

ASSUME RetryPoolConstants ==
  /\ MaxPerPeer \in Nat /\ MaxCalls \in Nat /\ MaxDisturbed \in Nat
  /\ MaxQueues \in Nat \ {0}
  /\ IsFiniteSet(Conns)
  /\ None \notin Conns /\ None \notin Callers \X Nat
  /\ KeyError # None /\ KeyError \notin Callers \X Nat

VARIABLES
  call,       \* per caller: where it is, its how many-th call, queue, connection, reused
  table,      \* the number of the queue in _queues, 0 for none
  queues,     \* how many queues were made
  idle,       \* the connections in each queue
  conn,       \* per open connection: requests not answered, answers not read, closed by peer
  late,       \* per request, copies the peer has received on connections closed here
  result,     \* per request, the message execute() returned, or the exception it raised
  served,     \* history: how often the peer has served each request
  disturbed   \* how many disturbances happened

vars == <<call, table, queues, idle, conn, late, result, served, disturbed>>

Requests == Callers \X (1..MaxCalls)

Req(c) == <<c, call[c].n>>

Open == DOMAIN conn

Closed(S) == [x \in Open \ S |-> conn[x]]

Disturb == disturbed < MaxDisturbed /\ disturbed' = disturbed + 1

(* Where a call is. *)
Place(at, n, q, x, reused) ==
  [at |-> at, n |-> n, q |-> q, conn |-> x, reused |-> reused]

Init ==
  /\ call = [c \in Callers |-> Place("ready", 0, 0, None, FALSE)]
  /\ table = 0 /\ queues = 0
  /\ idle = [q \in 1..MaxQueues |-> {}]
  /\ conn = [x \in {} |-> <<>>]
  /\ late = [r \in Requests |-> 0]
  /\ result = [r \in Requests |-> None]
  /\ served = [r \in Requests |-> 0]
  /\ disturbed = 0

-----------------------------------------------------------------------------
(* _queue(): the queue of the peer if the table has one ... *)
Lookup(c) ==
  /\ call[c].at = "ready" /\ call[c].n < MaxCalls
  /\ call' = [call EXCEPT ![c] =
       Place(IF table = 0 THEN "make" ELSE "take", @.n + 1, table, None, FALSE)]
  /\ UNCHANGED <<table, queues, idle, conn, late, result, served, disturbed>>

(* ... or else, under _init_lock, one that is made unless another caller   *)
(* was faster ...                                                          *)
Make(c) ==
  /\ call[c].at = "make" /\ \A d \in Callers : call[d].at # "fetch"
  /\ \/ table # 0 /\ UNCHANGED <<table, queues>>
     \/ table = 0 /\ queues < MaxQueues /\ queues' = queues + 1 /\ table' = queues + 1
  /\ call' = [call EXCEPT ![c].at = "fetch"]
  /\ UNCHANGED <<idle, conn, late, result, served, disturbed>>

(* execute() returns. *)
Done(c) == [call EXCEPT ![c] = Place("ready", @.n, 0, None, FALSE)]

(* ... and looked up again: close_peer() does not take the lock, and if it *)
(* was faster execute() ends with a KeyError.                              *)
Fetch(c) ==
  /\ call[c].at = "fetch"
  /\ \/ /\ table # 0
        /\ call' = [call EXCEPT ![c] = Place("take", @.n, table, None, FALSE)]
        /\ UNCHANGED result
     \/ /\ table = 0
        /\ call' = Done(c)
        /\ result' = [result EXCEPT ![Req(c)] = KeyError]
  /\ UNCHANGED <<table, queues, idle, conn, late, served, disturbed>>

(* get_nowait(): a pooled connection, or a new one if there is none. *)
Take(c) ==
  LET q == call[c].q IN
  /\ call[c].at = "take"
  /\ \/ /\ idle[q] = {}
        /\ call' = [call EXCEPT ![c] = Place("open", @.n, q, None, FALSE)]
        /\ UNCHANGED idle
     \/ \E x \in idle[q] :
          /\ idle' = [idle EXCEPT ![q] = @ \ {x}]
          /\ call' = [call EXCEPT ![c] = Place("send", @.n, q, x, TRUE)]
  /\ UNCHANGED <<table, queues, conn, late, result, served, disturbed>>

(* The async pool drops a connection it knows to be closing. *)
Discard(c) ==
  LET q == call[c].q IN
  /\ call[c].at = "take"
  /\ \E x \in idle[q] :
       /\ conn[x].eof
       /\ idle' = [idle EXCEPT ![q] = @ \ {x}]
       /\ conn' = Closed({x})
  /\ UNCHANGED <<call, table, queues, late, result, served, disturbed>>

(* _new_connection() *)
Connect(c) ==
  /\ call[c].at = "open"
  /\ \/ \E x \in Conns \ Open :
          /\ conn' = [y \in Open \cup {x} |->
                        IF y = x THEN [out |-> <<>>, inb |-> <<>>, eof |-> FALSE] ELSE conn[y]]
          /\ call' = [call EXCEPT ![c] = Place("send", @.n, @.q, x, FALSE)]
          /\ UNCHANGED disturbed
     \/ Disturb /\ call' = Done(c) /\ UNCHANGED conn
  /\ UNCHANGED <<table, queues, idle, late, result, served>>

(* send_message() *)
Send(c) ==
  LET x == call[c].conn IN
  /\ call[c].at = "send"
  /\ conn' = IF conn[x].eof THEN conn ELSE [conn EXCEPT ![x].out = Append(@, Req(c))]
  /\ call' = [call EXCEPT ![c].at = "receive"]
  /\ UNCHANGED <<table, queues, idle, late, result, served, disturbed>>

(* recv_message() and put_nowait(), on the queue the call looked up; a     *)
(* full queue, or in the async pool a closing connection, is passed over.  *)
Full_Never(q) == FALSE
Full(q) == MaxPerPeer > 0 /\ Cardinality(idle[q]) >= MaxPerPeer

Receive(c) ==
  LET x == call[c].conn
      q == call[c].q
  IN
  /\ call[c].at = "receive" /\ conn[x].inb # <<>>
  /\ result' = [result EXCEPT ![Req(c)] = Head(conn[x].inb)]
  /\ \/ (Full(q) \/ conn[x].eof) /\ conn' = Closed({x}) /\ UNCHANGED idle
     \/ /\ ~Full(q)
        /\ conn' = [conn EXCEPT ![x].inb = Tail(@)]
        /\ idle' = [idle EXCEPT ![q] = @ \cup {x}]
  /\ call' = Done(c)
  /\ UNCHANGED <<table, queues, late, served, disturbed>>

(* An exception in either: the connection is closed; one that was pooled   *)
(* is replaced by a new one, once.  A timeout counts as a failure, too.    *)
Again_Always(c) == TRUE
Again(c) == call[c].reused

GaveUp_Leaks(c)   == UNCHANGED <<idle, conn, late>>
GaveUp_Returns(c) ==
  idle' = [idle EXCEPT ![call[c].q] = @ \cup {call[c].conn}] /\ UNCHANGED <<conn, late>>

GaveUp(c) ==
  /\ conn' = Closed({call[c].conn})
  /\ late' = IF conn[call[c].conn].out = <<>> THEN late ELSE [late EXCEPT ![Req(c)] = @ + 1]
  /\ UNCHANGED idle

Fails(c) ==
  LET x == call[c].conn IN
  /\ call[c].at \in {"send", "receive"}
  /\ (conn[x].eof /\ conn[x].inb = <<>> /\ UNCHANGED disturbed) \/ Disturb
  /\ GaveUp(c)
  /\ call' = IF Again(c)
             THEN [call EXCEPT ![c] = Place("open", @.n, @.q, None, FALSE)]
             ELSE Done(c)
  /\ UNCHANGED <<table, queues, result, served>>

(* The task of a call is cancelled while it awaits its peer: this is no    *)
(* Exception, nothing is tried again and the connection is dropped.        *)
Cancel(c) ==
  /\ Disturb
  /\ call[c].at \in {"send", "receive"}
  /\ GaveUp(c)
  /\ call' = Done(c)
  /\ UNCHANGED <<table, queues, result, served>>

(* close_peer(), and close_all() for this peer: the queue leaves the table *)
(* (after the drain, in close_all()) ...                                   *)
ClosePeer ==
  /\ table # 0
  /\ table' = 0
  /\ UNCHANGED <<call, queues, idle, conn, late, result, served, disturbed>>

(* ... and its connections are taken out and closed one by one, while      *)
(* callers that have the queue go on taking and returning others.          *)
Drain(q) ==
  /\ \E x \in idle[q] :
       /\ idle' = [idle EXCEPT ![q] = @ \ {x}]
       /\ conn' = Closed({x})
  /\ UNCHANGED <<call, table, queues, late, result, served, disturbed>>

(* The peer serves a connection one request after the other; what it has   *)
(* received on a connection closed here it serves all the same.            *)
PeerAnswers(x) ==
  /\ conn[x].out # <<>>
  /\ conn' = [conn EXCEPT ![x].out = Tail(@), ![x].inb = Append(@, Head(conn[x].out))]
  /\ served' = [served EXCEPT ![Head(conn[x].out)] = @ + 1]
  /\ UNCHANGED <<call, table, queues, idle, late, result, disturbed>>

PeerServesLate(r) ==
  /\ late[r] > 0
  /\ late' = [late EXCEPT ![r] = @ - 1]
  /\ served' = [served EXCEPT ![r] = @ + 1]
  /\ UNCHANGED <<call, table, queues, idle, conn, result, disturbed>>

PeerCloses(x) ==
  /\ ~conn[x].eof /\ Disturb
  /\ \E k \in 0..Len(conn[x].inb) :
       conn' = [conn EXCEPT ![x] = [out |-> <<>>, inb |-> SubSeq(@.inb, 1, k), eof |-> TRUE]]
  /\ UNCHANGED <<call, table, queues, idle, late, result, served>>

-----------------------------------------------------------------------------
Next ==
  \/ \E c \in Callers :
       \/ Lookup(c) \/ Make(c) \/ Fetch(c)
       \/ Take(c) \/ Discard(c) \/ Connect(c)
       \/ Send(c) \/ Receive(c) \/ Fails(c) \/ Cancel(c)
  \/ ClosePeer
  \/ \E q \in 1..MaxQueues : Drain(q)
  \/ \E x \in Open : PeerAnswers(x) \/ PeerCloses(x)
  \/ \E r \in Requests : PeerServesLate(r)

Spec == Init /\ [][Next]_vars

-----------------------------------------------------------------------------
TypeOK ==
  /\ call \in [Callers -> [at : {"ready", "make", "fetch", "take", "open", "send", "receive"},
                           n : 0..MaxCalls, q : 0..MaxQueues,
                           conn : Conns \cup {None}, reused : BOOLEAN]]
  /\ \A c \in Callers : call[c].conn # None <=> call[c].at \in {"send", "receive"}
  /\ queues \in 0..MaxQueues /\ table \in {0, queues}
  /\ idle \in [1..MaxQueues -> SUBSET Conns]
  /\ MaxPerPeer > 0 => \A q \in 1..MaxQueues : Cardinality(idle[q]) <= MaxPerPeer
  /\ Open \subseteq Conns
  /\ late \in [Requests -> Nat] /\ served \in [Requests -> Nat]
  /\ result \in [Requests -> Requests \cup {None, KeyError}]

(* Every open connection is in one queue or in the hands of one caller,    *)
(* and every one they have is open: none is shared, lost or used after it  *)
(* was closed, although close_peer() empties a queue that callers still    *)
(* hold (sync.py:64, :90, :97, :127-134; async_.py:49, :75, :109-115).     *)
Held == {call[c].conn : c \in Callers} \ {None}

OneOwner ==
  /\ Open = Held \cup UNION {idle[q] : q \in 1..MaxQueues}
  /\ \A c, d \in Callers : c # d /\ call[c].conn # None => call[c].conn # call[d].conn
  /\ \A q \in 1..MaxQueues : idle[q] \cap Held = {}
  /\ \A p, q \in 1..MaxQueues : p # q => idle[p] \cap idle[q] = {}

(* What execute() returns is the answer to its own message: a connection   *)
(* on which an answer is still due never goes back to a queue              *)
(* (sync.py:86-97).                                                        *)
OwnAnswer == \A r \in Requests : result[r] \in {None, KeyError, r}

(* What a caller sees of a request. *)
Phase(r) ==
  LET c == call[r[1]] IN
  CASE r[2] > c.n                     -> "new"
    [] r[2] = c.n /\ c.at # "ready"   -> "open"
    [] OTHER -> IF result[r] = None THEN "failed"
                ELSE IF result[r] = KeyError THEN "raised" ELSE "answered"

Promise == INSTANCE PoolCall WITH Copies <- 2, phase <- [r \in Requests |-> Phase(r)]

(* The pool keeps the promise of PoolCall with two copies: execute() ends  *)
(* once, an answer means that the message was served, an exception (of     *)
(* sync.py:51) that it was not and will not be, and the retry              *)
(* (sync.py:100-122, async_.py:80-104) is the only one, so that the peer   *)
(* serves a message at most twice, late copies included.                   *)
KeepsPromise == Promise!Spec
=============================================================================

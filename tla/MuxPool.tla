------------------------------ MODULE MuxPool -------------------------------
(***************************************************************************)
(* MuxConnectionPool (dlstorage/connection_pool/mux.py) towards one peer:  *)
(* calling threads that take or open a socket, send a request and hand the *)
(* socket over to the one selector thread, which reads the answer, puts    *)
(* the socket back and wakes the caller.  The peer answers each connection *)
(* in order and may close it.  An answer is read as a whole here; the idle *)
(* pool and the register queue are sets, which covers every order.         *)
(***************************************************************************)
EXTENDS Integers, FiniteSets, Sequences

CONSTANTS
  Callers,
  Socks,          \* bound on the sockets open at a time
  MaxPerPeer,     \* max_per_peer
  MaxCalls,       \* bound on the calls of each caller
  MaxDisturbed,   \* bound on timeouts, failed calls and broken connections
  None

ASSUME PoolConstants ==
  /\ MaxPerPeer \in Nat /\ MaxCalls \in Nat /\ MaxDisturbed \in Nat
  /\ IsFiniteSet(Socks)
  /\ None \notin Socks /\ None \notin Callers \X Nat

VARIABLES
  call,       \* per caller: where it is in execute(), its how many-th call, its socket
  idle,       \* _idle[address]
  conn,       \* per open socket: requests not answered, answers not read, closed by peer
  regQueue,   \* _reg_queue: sockets with the request they wait for
  sel,        \* the selector's map, likewise
  wake,       \* a byte is in the wakeup pair
  io,         \* the selector thread, with an answer it is about to deliver
  event,      \* the requests whose event is set
  result,     \* per request, result[0] of its _InFlight
  closing,    \* close_all(): "no", "joining" the selector thread, "done"
  disturbed   \* how many disturbances happened

vars == <<call, idle, conn, regQueue, sel, wake, io, event, result, closing, disturbed>>

(* A request is known by its caller and the number of its call. *)
Requests == Callers \X (1..MaxCalls)

Req(c) == <<c, call[c].n>>

Open == DOMAIN conn

SocksOf(pairs) == {p[1] : p \in pairs}

Opened(s) == [x \in Open \cup {s} |->
  IF x = s THEN [out |-> <<>>, inb |-> <<>>, eof |-> FALSE] ELSE conn[x]]

Closed(S) == [x \in Open \ S |-> conn[x]]

Disturb == disturbed < MaxDisturbed /\ disturbed' = disturbed + 1

(* Where a caller is in execute(). *)
Place(at, n, s) == [at |-> at, n |-> n, sock |-> s]

Selecting == [at |-> "select", req |-> None, msg |-> None]

Init ==
  /\ call = [c \in Callers |-> Place("ready", 0, None)]
  /\ idle = {}
  /\ conn = [s \in {} |-> <<>>]
  /\ regQueue = {} /\ sel = {}
  /\ wake = FALSE
  /\ io = Selecting
  /\ event = {}
  /\ result = [r \in Requests |-> None]
  /\ closing = "no"
  /\ disturbed = 0

-----------------------------------------------------------------------------
(* execute(), in the thread of the caller. *)
Goto(c, at, s) == call' = [call EXCEPT ![c] = Place(at, @.n, s)]

(* _acquire(): an idle socket, if there is one when the lock is held. *)
Begin(c, at, s) ==
  /\ call[c].at = "ready" /\ call[c].n < MaxCalls
  /\ call' = [call EXCEPT ![c] = Place(at, @.n + 1, s)]
  /\ UNCHANGED <<conn, regQueue, sel, wake, io, event, result, closing, disturbed>>

Acquire_Peek(c) ==
  \/ idle = {} /\ Begin(c, "connect", None) /\ UNCHANGED idle
  \/ \E s \in idle : Begin(c, "send", s) /\ UNCHANGED idle

Acquire(c) ==
  \/ idle = {} /\ Begin(c, "connect", None) /\ UNCHANGED idle
  \/ \E s \in idle : Begin(c, "send", s) /\ idle' = idle \ {s}

(* _acquire(), without the lock: a new connection; None if it fails. *)
Connect(c) ==
  /\ call[c].at = "connect"
  /\ \/ \E s \in Socks \ Open :
          conn' = Opened(s) /\ Goto(c, "send", s) /\ UNCHANGED disturbed
     \/ Disturb /\ Goto(c, "ready", None) /\ UNCHANGED conn
  /\ UNCHANGED <<idle, regQueue, sel, wake, io, event, result, closing>>

(* sendall(): on a connection the peer has closed it may still succeed. *)
Send(c) ==
  LET s == call[c].sock IN
  /\ call[c].at = "send"
  /\ conn' = IF conn[s].eof THEN conn ELSE [conn EXCEPT ![s].out = Append(@, Req(c))]
  /\ Goto(c, "handOff", s)
  /\ UNCHANGED <<idle, regQueue, sel, wake, io, event, result, closing, disturbed>>

(* sendall() fails; or pickle.dumps() does, which raises and leaves the    *)
(* socket to the garbage collector.                                        *)
SendFails(c) ==
  /\ call[c].at = "send"
  /\ (conn[call[c].sock].eof /\ UNCHANGED disturbed) \/ Disturb
  /\ conn' = Closed({call[c].sock})
  /\ Goto(c, "ready", None)
  /\ UNCHANGED <<idle, regQueue, sel, wake, io, event, result, closing>>

(* _reg_queue.put() *)
HandOff(c) ==
  /\ call[c].at = "handOff"
  /\ regQueue' = regQueue \cup {<<call[c].sock, Req(c)>>}
  /\ Goto(c, "wakeup", None)
  /\ UNCHANGED <<idle, conn, sel, wake, io, event, result, closing, disturbed>>

(* _wakeup(): after close_all() the pair is closed and the error ignored. *)
Wakeup(c) ==
  /\ call[c].at = "wakeup"
  /\ wake' = (wake \/ closing # "done")
  /\ Goto(c, "wait", None)
  /\ UNCHANGED <<idle, conn, regQueue, sel, io, event, result, closing, disturbed>>

(* event.wait() returns when the event is set, or after five seconds. *)
Return(c) ==
  /\ call[c].at = "wait" /\ Req(c) \in event
  /\ Goto(c, "ready", None)
  /\ UNCHANGED <<idle, conn, regQueue, sel, wake, io, event, result, closing, disturbed>>

GiveUp_TakesSocket(c) ==
  /\ call[c].at = "wait" /\ Disturb
  /\ Goto(c, "ready", None)
  /\ idle' = idle \cup SocksOf({p \in sel : p[2] = Req(c)})
  /\ sel' = {p \in sel : p[2] # Req(c)}
  /\ UNCHANGED <<conn, regQueue, wake, io, event, result, closing>>

GiveUp(c) ==
  /\ call[c].at = "wait" /\ Disturb
  /\ Goto(c, "ready", None)
  /\ UNCHANGED <<idle, conn, regQueue, sel, wake, io, event, result, closing>>

-----------------------------------------------------------------------------
(* _io_loop(), the selector thread.  It looks at _running only between two *)
(* batches of events; here it may stop between any two events.             *)
DrainWakeup ==
  /\ io.at = "select" /\ wake
  /\ wake' = FALSE
  /\ io' = [io EXCEPT !.at = "register"]
  /\ UNCHANGED <<call, idle, conn, regQueue, sel, event, result, closing, disturbed>>

(* Everything in the queue is registered before the next select(). *)
Register_One ==
  /\ io.at = "register"
  /\ \E p \in regQueue : regQueue' = regQueue \ {p} /\ sel' = sel \cup {p}
  /\ io' = Selecting
  /\ UNCHANGED <<call, idle, conn, wake, event, result, closing, disturbed>>

Register ==
  /\ io.at = "register"
  /\ \/ /\ \E p \in regQueue : regQueue' = regQueue \ {p} /\ sel' = sel \cup {p}
        /\ UNCHANGED io
     \/ regQueue = {} /\ io' = Selecting /\ UNCHANGED <<regQueue, sel>>
  /\ UNCHANGED <<call, idle, conn, wake, event, result, closing, disturbed>>

(* _handle_read() of a whole answer: unregister and _return() the socket ... *)
Full_Never == FALSE
Full == Cardinality(idle) >= MaxPerPeer

Read(s, r) ==
  /\ io.at = "select" /\ conn[s].inb # <<>>
  /\ sel' = sel \ {<<s, r>>}
  /\ io' = [at |-> "deliver", req |-> r, msg |-> Head(conn[s].inb)]
  /\ IF Full THEN conn' = Closed({s}) /\ UNCHANGED idle
     ELSE conn' = [conn EXCEPT ![s].inb = Tail(@)] /\ idle' = idle \cup {s}
  /\ UNCHANGED <<call, regQueue, wake, event, result, closing, disturbed>>

(* ... and then hand the message to the caller. *)
Deliver ==
  /\ io.at = "deliver"
  /\ result' = [result EXCEPT ![io.req] = io.msg]
  /\ event' = event \cup {io.req}
  /\ io' = Selecting
  /\ UNCHANGED <<call, idle, conn, regQueue, sel, wake, closing, disturbed>>

(* _fail(): the end of the stream, an error, or an answer that is no pickle. *)
Woken_None(r) == event
Woken(r) == event \cup {r}

Fail(s, r) ==
  /\ io.at = "select"
  /\ (conn[s].eof /\ conn[s].inb = <<>> /\ UNCHANGED disturbed) \/ Disturb
  /\ sel' = sel \ {<<s, r>>}
  /\ conn' = Closed({s})
  /\ event' = Woken(r)
  /\ UNCHANGED <<call, idle, regQueue, wake, io, result, closing>>

Exit_Silent ==
  /\ io.at = "select" /\ closing # "no"
  /\ io' = [io EXCEPT !.at = "gone"]
  /\ UNCHANGED <<call, idle, conn, regQueue, sel, wake, event, result, closing, disturbed>>

(* The loop ends and wakes the callers of the registered sockets. *)
Exit ==
  /\ io.at = "select" /\ closing # "no"
  /\ io' = [io EXCEPT !.at = "gone"]
  /\ event' = event \cup {p[2] : p \in sel}
  /\ UNCHANGED <<call, idle, conn, regQueue, sel, wake, result, closing, disturbed>>

-----------------------------------------------------------------------------
(* close_peer(), called by gossip when it evicts the peer. *)
ClosePeer ==
  /\ conn' = Closed(idle)
  /\ idle' = {}
  /\ UNCHANGED <<call, regQueue, sel, wake, io, event, result, closing, disturbed>>

(* close_all(), up to the join and after it; the sockets of the selector   *)
(* go with its map.                                                        *)
CloseAll ==
  /\ closing = "no"
  /\ closing' = "joining" /\ wake' = TRUE
  /\ UNCHANGED <<call, idle, conn, regQueue, sel, io, event, result, disturbed>>

CloseRest ==
  /\ closing = "joining" /\ io.at = "gone"
  /\ closing' = "done" /\ wake' = FALSE
  /\ conn' = Closed(idle \cup SocksOf(sel))
  /\ idle' = {} /\ sel' = {}
  /\ UNCHANGED <<call, regQueue, io, event, result, disturbed>>

(* The peer serves a connection one request after the other, or closes it. *)
PeerAnswers(s) ==
  /\ conn[s].out # <<>>
  /\ conn' = [conn EXCEPT ![s].out = Tail(@), ![s].inb = Append(@, Head(conn[s].out))]
  /\ UNCHANGED <<call, idle, regQueue, sel, wake, io, event, result, closing, disturbed>>

PeerCloses(s) ==
  /\ ~conn[s].eof /\ Disturb
  /\ \E k \in 0..Len(conn[s].inb) :
       conn' = [conn EXCEPT ![s] = [out |-> <<>>, inb |-> SubSeq(@.inb, 1, k), eof |-> TRUE]]
  /\ UNCHANGED <<call, idle, regQueue, sel, wake, io, event, result, closing>>

-----------------------------------------------------------------------------
Caller(c) ==
  \/ Connect(c) \/ Send(c) \/ HandOff(c) \/ Wakeup(c) \/ Return(c)

IoLoop ==
  \/ DrainWakeup \/ Register \/ Deliver \/ Exit
  \/ \E p \in sel : Read(p[1], p[2]) \/ Fail(p[1], p[2])

Next ==
  \/ \E c \in Callers : Acquire(c) \/ Caller(c) \/ SendFails(c) \/ GiveUp(c)
  \/ IoLoop
  \/ ClosePeer \/ CloseAll \/ CloseRest
  \/ \E s \in Open : PeerAnswers(s) \/ PeerCloses(s)

Spec == Init /\ [][Next]_vars

(* Threads run, and the peer answers what it has received unless it closes *)
(* the connection.  Nothing is assumed of the five-second timeout.         *)
FairSpec ==
  /\ Spec
  /\ WF_vars(IoLoop)
  /\ \A c \in Callers : WF_vars(Caller(c))
  /\ \A s \in Socks : WF_vars(s \in Open /\ PeerAnswers(s))

-----------------------------------------------------------------------------
Held == {call[c].sock : c \in Callers} \ {None}

TypeOK ==
  /\ call \in [Callers -> [at : {"ready", "connect", "send", "handOff", "wakeup", "wait"},
                           n : 0..MaxCalls, sock : Socks \cup {None}]]
  /\ \A c \in Callers : call[c].sock # None <=> call[c].at \in {"send", "handOff"}
  /\ idle \subseteq Socks /\ Cardinality(idle) <= MaxPerPeer
  /\ Open \subseteq Socks
  /\ regQueue \subseteq Socks \X Requests /\ sel \subseteq Socks \X Requests
  /\ wake \in BOOLEAN
  /\ io.at \in {"select", "register", "deliver", "gone"}
  /\ event \subseteq Requests
  /\ result \in [Requests -> Requests \cup {None}]
  /\ closing \in {"no", "joining", "done"}

(* Every open socket has exactly one owner: the idle pool, one caller, the *)
(* register queue or the selector, with one request.  So no two requests   *)
(* share a connection, the selector is never asked to register a socket    *)
(* twice or a closed one (mux.py:212, which would end its thread), and no  *)
(* connection is lost, whatever close_peer(), timeouts and broken          *)
(* connections come between (mux.py:101-113, :150-156, :175-183, :258-261). *)
OneOwner ==
  /\ Open = idle \cup Held \cup SocksOf(regQueue) \cup SocksOf(sel)
  /\ \A c, d \in Callers : c # d /\ call[c].sock # None => call[c].sock # call[d].sock
  /\ \A p, q \in regQueue \cup sel : p[1] = q[1] => p = q
  /\ idle \cap (Held \cup SocksOf(regQueue) \cup SocksOf(sel)) = {}
  /\ Held \cap (SocksOf(regQueue) \cup SocksOf(sel)) = {}
  /\ SocksOf(regQueue) \cap SocksOf(sel) = {}

(* execute() returns the answer to its own request or None: the late       *)
(* answer of a call that was given up never reaches the next caller on the *)
(* same socket (mux.py:117-118, :258-261).                                 *)
OwnAnswer == \A r \in Requests : result[r] \in {None, r}

(* While the pool runs, a socket in the register queue is on its way into  *)
(* the selector: a wakeup byte is waiting or about to be written, or the   *)
(* selector thread is emptying the queue (mux.py:113-114, :201-214).       *)
NoLostWakeup ==
  regQueue # {} /\ closing # "done" /\ io.at # "gone" =>
    wake \/ io.at = "register" \/ \E c \in Callers : call[c].at = "wakeup"

(* Every call returns, by its answer, by the end of its connection or, on  *)
(* shutdown, by the wakeup at mux.py:218-222: the timeout of event.wait()  *)
(* (mux.py:117) is needed only for a peer that neither answers nor closes, *)
(* and for a socket that was still in the register queue when the selector *)
(* thread ended.                                                           *)
Abandoned(c) == io.at = "gone" /\ \E p \in regQueue : p[2] = Req(c)

CallsReturn ==
  \A c \in Callers :
    call[c].at = "wait" ~> (call[c].at # "wait" \/ Abandoned(c))
=============================================================================

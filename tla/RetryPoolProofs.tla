-------------------------- MODULE RetryPoolProofs ---------------------------
(***************************************************************************)
(* The retrying pools (dlstorage/connection_pool/sync.py, async_.py) for   *)
(* any number of callers, calls, connections and disturbances: connections *)
(* are not shared, answers do not cross, and execute() keeps the promise   *)
(* of PoolCall.                                                            *)
(***************************************************************************)
EXTENDS RetryPool, TLAPS, FiniteSetTheorems, SequenceTheorems

(* A connection carries at most one message in each direction. *)
Box   == {<<>>} \cup {<<r>> : r \in Requests}
Wires == [out : Box, inb : Box, eof : BOOLEAN]

Places == [at : {"ready", "make", "fetch", "take", "open", "send", "receive"},
           n : 0..MaxCalls, q : 0..MaxQueues,
           conn : Conns \cup {None}, reused : BOOLEAN]

(* A call has a connection while it exchanges its message, a queue from    *)
(* the end of _queue() on, and a number from its start to its end.         *)
Consistent(p) ==
  /\ p.conn # None <=> p.at \in {"send", "receive"}
  /\ p.at \in {"take", "open", "send", "receive"} => p.q # 0
  /\ p.at # "ready" => p.n # 0

(* The type of a call and of the pool, without the bound of a queue. *)
Typed ==
  /\ call \in [Callers -> {p \in Places : Consistent(p)}]
  /\ queues \in 0..MaxQueues /\ table \in {0, queues}
  /\ idle \in [1..MaxQueues -> SUBSET Conns]
  /\ Open \subseteq Conns /\ conn \in [Open -> Wires]
  /\ late \in [Requests -> Nat] /\ served \in [Requests -> Nat]
  /\ result \in [Requests -> Requests \cup {None, KeyError}]

Bounded == MaxPerPeer > 0 => \A q \in 1..MaxQueues : Cardinality(idle[q]) <= MaxPerPeer

(* OneOwner, said of single connections: none is lost, none is shared. *)
Covered ==
  \A x \in Open : \/ \E c \in Callers : call[c].conn = x
                  \/ \E q \in 1..MaxQueues : x \in idle[q]

Disjoint ==
  /\ \A c \in Callers : call[c].conn # None => call[c].conn \in Open
  /\ \A q \in 1..MaxQueues : idle[q] \subseteq Open
  /\ \A c, d \in Callers : c # d /\ call[c].conn # None => call[c].conn # call[d].conn
  /\ \A c \in Callers, q \in 1..MaxQueues : call[c].conn \notin idle[q]
  /\ \A p, q \in 1..MaxQueues : p # q => idle[p] \cap idle[q] = {}

Owned == Covered /\ Disjoint

(* What is on a connection belongs to the call that holds it. *)
Empty(x) == conn[x].out = <<>> /\ conn[x].inb = <<>>

Fits(c) ==
  LET w == conn[call[c].conn] IN
  /\ call[c].at = "send" => Empty(call[c].conn)
  /\ call[c].at = "receive" =>
       \/ Empty(call[c].conn)
       \/ w.out = <<Req(c)>> /\ w.inb = <<>>
       \/ w.out = <<>> /\ w.inb = <<Req(c)>>

Clean ==
  /\ \A q \in 1..MaxQueues : \A x \in idle[q] : Empty(x)
  /\ \A c \in Callers : Fits(c)

IInv == Typed /\ Bounded /\ Owned /\ Clean /\ OwnAnswer

(* A call in _queue(), and a call that lost its connection, by an error or *)
(* a cancellation, and tries once more or ends.                            *)
Locates(c) == Lookup(c) \/ Make(c) \/ Fetch(c)

Breaks(c) ==
  /\ call[c].at \in {"send", "receive"}
  /\ GaveUp(c)
  /\ \/ Again(c) /\ call' = [call EXCEPT ![c] = Place("open", @.n, @.q, None, FALSE)]
     \/ call' = Done(c)
  /\ UNCHANGED <<table, queues, result, served>>

-----------------------------------------------------------------------------
(* Sequences of one message. *)
LEMMA OneMessage ==
  ASSUME NEW r
  PROVE  /\ <<r>> # <<>> /\ Append(<<>>, r) = <<r>>
         /\ Head(<<r>>) = r /\ Tail(<<r>>) = <<>>
         /\ Len(<<r>>) = 1 /\ Len(<<>>) = 0
         /\ SubSeq(<<r>>, 1, 0) = <<>> /\ SubSeq(<<r>>, 1, 1) = <<r>>
         /\ SubSeq(<<>>, 1, 0) = <<>>
<1>1. <<r>> # <<>> /\ Append(<<>>, r) = <<r>>
  OBVIOUS
<1>2. Head(<<r>>) = r
  OBVIOUS
<1>3. Tail(<<r>>) = <<>>
  OBVIOUS
<1>4. Len(<<r>>) = 1 /\ Len(<<>>) = 0
  OBVIOUS
<1>5. SubSeq(<<r>>, 1, 0) = <<>>
  OBVIOUS
<1>6. SubSeq(<<r>>, 1, 1) = <<r>>
  <2>1. <<r>> \in Seq({r})
    OBVIOUS
  <2> QED
    BY <1>4, <2>1, SubSeqFull
<1>7. SubSeq(<<>>, 1, 0) = <<>>
  OBVIOUS
<1> QED
  BY <1>1, <1>2, <1>3, <1>4, <1>5, <1>6, <1>7

(* A queue is finite, and so are the sets made of it. *)
LEMMA QueueCard ==
  ASSUME NEW S \in SUBSET Conns
  PROVE  /\ Cardinality(S) \in Nat
         /\ \A T \in SUBSET S : Cardinality(T) <= Cardinality(S)
         /\ \A x \in Conns : Cardinality(S \cup {x}) <= Cardinality(S) + 1
<1>1. IsFiniteSet(S)
  BY RetryPoolConstants, FS_Subset
<1>2. Cardinality(S) \in Nat
  BY <1>1, FS_CardinalityType
<1>3. \A T \in SUBSET S : Cardinality(T) <= Cardinality(S)
  BY <1>1, FS_Subset
<1>4. \A x \in Conns : Cardinality(S \cup {x}) <= Cardinality(S) + 1
  BY <1>1, <1>2, FS_AddElement
<1> QED
  BY <1>2, <1>3, <1>4

(* The request a caller is at. *)
LEMMA ReqType ==
  ASSUME Typed, NEW c \in Callers, call[c].at # "ready"
  PROVE  Req(c) \in Requests
BY RetryPoolConstants DEF Typed, Places, Place, Consistent, Req, Requests

(* What the type says of one call, and of one queue. *)
LEMMA CallFacts ==
  ASSUME Typed, NEW c \in Callers
  PROVE  /\ call[c].conn \in Conns \cup {None} /\ None \notin Conns
         /\ call[c].conn # None <=> call[c].at \in {"send", "receive"}
         /\ call[c].at \in {"take", "open", "send", "receive"} => call[c].q \in 1..MaxQueues
         /\ call[c].at # "ready" => call[c].n \in 1..MaxCalls
BY RetryPoolConstants DEF Typed, Places, Consistent

LEMMA QueueFacts ==
  ASSUME Typed
  PROVE  /\ \A q \in 1..MaxQueues : idle[q] \subseteq Conns /\ None \notin idle[q]
         /\ None \notin Open
BY RetryPoolConstants DEF Typed

(* The steps, with a connection dropped from a queue told as a drain and   *)
(* errors and cancellations as breaks.                                     *)
LEMMA StepsAre ==
  ASSUME Typed, [Next]_vars
  PROVE  \/ \E c \in Callers : \/ Locates(c) \/ Take(c) \/ Connect(c)
                               \/ Send(c) \/ Receive(c) \/ Breaks(c)
         \/ ClosePeer \/ UNCHANGED vars
         \/ \E q \in 1..MaxQueues : Drain(q)
         \/ \E x \in Open : PeerAnswers(x) \/ PeerCloses(x)
         \/ \E r \in Requests : PeerServesLate(r)
<1>1. ASSUME NEW c \in Callers, Discard(c) PROVE \E q \in 1..MaxQueues : Drain(q)
  <2>1. call[c].q \in 1..MaxQueues
    BY <1>1, CallFacts DEF Discard
  <2>2. Drain(call[c].q)
    BY <1>1 DEF Discard, Drain
  <2> QED
    BY <2>1, <2>2
<1>2. ASSUME NEW c \in Callers, Fails(c) \/ Cancel(c) PROVE Breaks(c)
  <2>1. CASE Fails(c)
    BY <2>1 DEF Fails, Breaks
  <2>2. CASE Cancel(c)
    BY <2>2 DEF Cancel, Breaks
  <2> QED
    BY <1>2, <2>1, <2>2
<1> QED
  BY <1>1, <1>2 DEF Next, Locates

(* A connection that leaves its queue is then in none. *)
LEMMA LeavesQueue ==
  ASSUME Typed, Disjoint, NEW q \in 1..MaxQueues, NEW x \in idle[q],
         idle' = [idle EXCEPT ![q] = @ \ {x}]
  PROVE  \A p \in 1..MaxQueues : idle'[p] = idle[p] \ {x}
<1> TAKE p \in 1..MaxQueues
<1>1. CASE p = q
  BY <1>1 DEF Typed
<1>2. CASE p # q
  <2>1. x \notin idle[p]
    BY <1>2 DEF Disjoint
  <2> QED
    BY <1>2, <2>1 DEF Typed
<1> QED
  BY <1>1, <1>2

(* Initially there are no connections and no calls. *)
LEMMA InitHolds == Init => IInv
<1> SUFFICES ASSUME Init PROVE IInv
  OBVIOUS
<1>1. Typed
  BY RetryPoolConstants DEF Init, Typed, Places, Place, Consistent, Open
<1>2. Bounded
  BY FS_EmptySet, RetryPoolConstants DEF Init, Bounded
<1>3. Owned
  BY RetryPoolConstants DEF Init, Owned, Covered, Disjoint, Open, Place
<1>4. Clean /\ OwnAnswer
  BY DEF Init, Clean, Fits, OwnAnswer, Place
<1> QED
  BY <1>1, <1>2, <1>3, <1>4 DEF IInv

-----------------------------------------------------------------------------
(* A call that moves on stays consistent. *)
LEMMA CallMoves ==
  ASSUME Typed, NEW c \in Callers, NEW p \in Places, Consistent(p),
         call' = [call EXCEPT ![c] = p]
  PROVE  call' \in [Callers -> {r \in Places : Consistent(r)}]
BY DEF Typed

(* Each step keeps the type of the state. *)
LEMMA TypedStep == IInv /\ [Next]_vars => Typed'
<1> SUFFICES ASSUME IInv, [Next]_vars PROVE Typed'
  OBVIOUS
<1> USE RetryPoolConstants DEF IInv
<1>1. ASSUME NEW c \in Callers, Locates(c) PROVE Typed'
  <2>1. CASE Lookup(c)
    <3> DEFINE p == Place(IF table = 0 THEN "make" ELSE "take", call[c].n + 1, table, None, FALSE)
    <3>1. p \in Places /\ Consistent(p) /\ call' = [call EXCEPT ![c] = p]
      BY <2>1 DEF Typed, Places, Place, Consistent, Lookup
    <3> HIDE DEF p
    <3> QED
      BY <2>1, <3>1, CallMoves DEF Typed, Lookup, Open
  <2>2. CASE Make(c)
    <3> DEFINE p == [call[c] EXCEPT !.at = "fetch"]
    <3>1. p \in Places /\ Consistent(p) /\ call' = [call EXCEPT ![c] = p]
      BY <2>2, ZenonT(60) DEF Typed, Places, Consistent, Make
    <3>2. table' \in {0, queues'} /\ queues' \in 0..MaxQueues
      BY <2>2 DEF Typed, Make
    <3> HIDE DEF p
    <3> QED
      BY <2>2, <3>1, <3>2, CallMoves DEF Typed, Make, Open
  <2>3. CASE Fetch(c) /\ table # 0
    <3> DEFINE p == Place("take", call[c].n, table, None, FALSE)
    <3>1. p \in Places /\ Consistent(p) /\ call' = [call EXCEPT ![c] = p] /\ result' = result
      BY <2>3 DEF Typed, Places, Place, Consistent, Fetch
    <3> HIDE DEF p
    <3> QED
      BY <2>3, <3>1, CallMoves DEF Typed, Fetch, Open
  <2>4. CASE Fetch(c) /\ table = 0
    <3> DEFINE p == Place("ready", call[c].n, 0, None, FALSE)
    <3>1. p \in Places /\ Consistent(p) /\ call' = [call EXCEPT ![c] = p]
      BY <2>4 DEF Typed, Places, Place, Consistent, Fetch, Done
    <3>2. result' \in [Requests -> Requests \cup {None, KeyError}]
      BY <2>4 DEF Typed, Fetch
    <3> HIDE DEF p
    <3> QED
      BY <2>4, <3>1, <3>2, CallMoves DEF Typed, Fetch, Open
  <2> QED
    BY <1>1, <2>1, <2>2, <2>3, <2>4 DEF Locates
<1>2. ASSUME NEW c \in Callers, Take(c) PROVE Typed'
  <2>1. CASE call' = [call EXCEPT ![c] = Place("open", @.n, call[c].q, None, FALSE)] /\ UNCHANGED idle
    <3> DEFINE p == Place("open", call[c].n, call[c].q, None, FALSE)
    <3>1. p \in Places /\ Consistent(p) /\ call' = [call EXCEPT ![c] = p]
      BY <1>2, <2>1 DEF Typed, Places, Place, Consistent, Take
    <3> HIDE DEF p
    <3> QED
      BY <1>2, <2>1, <3>1, CallMoves DEF Typed, Take, Open
  <2>2. ASSUME NEW x \in idle[call[c].q],
               idle' = [idle EXCEPT ![call[c].q] = @ \ {x}],
               call' = [call EXCEPT ![c] = Place("send", @.n, call[c].q, x, TRUE)]
        PROVE  Typed'
    <3> DEFINE p == Place("send", call[c].n, call[c].q, x, TRUE)
    <3>1. call[c].q \in 1..MaxQueues /\ x \in Conns
      BY <1>2 DEF Typed, Places, Place, Consistent, Take
    <3>2. p \in Places /\ Consistent(p) /\ call' = [call EXCEPT ![c] = p]
      BY <1>2, <2>2, <3>1 DEF Typed, Places, Place, Consistent, Take
    <3>3. idle' \in [1..MaxQueues -> SUBSET Conns]
      BY <2>2, <3>1 DEF Typed
    <3> HIDE DEF p
    <3> QED
      BY <1>2, <3>2, <3>3, CallMoves DEF Typed, Take, Open
  <2> QED
    BY <1>2, <2>1, <2>2 DEF Take
<1>3. ASSUME NEW q \in 1..MaxQueues, Drain(q) PROVE Typed'
  <2>1. PICK x \in idle[q] : idle' = [idle EXCEPT ![q] = @ \ {x}] /\ conn' = Closed({x})
    BY <1>3 DEF Drain
  <2>2. idle' \in [1..MaxQueues -> SUBSET Conns]
    BY <2>1 DEF Typed
  <2>3. Open' \subseteq Conns /\ conn' \in [Open' -> Wires]
    BY <2>1 DEF Typed, Closed, Open
  <2> QED
    BY <1>3, <2>2, <2>3 DEF Typed, Drain
<1>4. ASSUME NEW c \in Callers, Connect(c) PROVE Typed'
  <2>1. ASSUME NEW x \in Conns \ Open,
               conn' = [y \in Open \cup {x} |->
                          IF y = x THEN [out |-> <<>>, inb |-> <<>>, eof |-> FALSE] ELSE conn[y]],
               call' = [call EXCEPT ![c] = Place("send", @.n, @.q, x, FALSE)]
        PROVE  Typed'
    <3> DEFINE p == Place("send", call[c].n, call[c].q, x, FALSE)
    <3>1. p \in Places /\ Consistent(p) /\ call' = [call EXCEPT ![c] = p]
      BY <1>4, <2>1 DEF Typed, Places, Place, Consistent, Connect
    <3>2. Open' \subseteq Conns /\ conn' \in [Open' -> Wires]
      BY <2>1 DEF Typed, Open, Wires, Box
    <3> HIDE DEF p
    <3> QED
      BY <1>4, <3>1, <3>2, CallMoves DEF Typed, Connect
  <2>2. CASE call' = Done(c) /\ UNCHANGED conn
    <3> DEFINE p == Place("ready", call[c].n, 0, None, FALSE)
    <3>1. p \in Places /\ Consistent(p) /\ call' = [call EXCEPT ![c] = p]
      BY <1>4, <2>2 DEF Typed, Places, Place, Consistent, Done
    <3> HIDE DEF p
    <3> QED
      BY <1>4, <2>2, <3>1, CallMoves DEF Typed, Connect, Open
  <2> QED
    BY <1>4, <2>1, <2>2 DEF Connect
<1>5. ASSUME NEW c \in Callers, Send(c) PROVE Typed'
  <2> DEFINE p == [call[c] EXCEPT !.at = "receive"]
             x == call[c].conn
  <2>1. p \in Places /\ Consistent(p) /\ call' = [call EXCEPT ![c] = p]
    BY <1>5, ZenonT(60) DEF Typed, Places, Place, Consistent, Send
  <2>2. x \in Open /\ conn[x].out = <<>> /\ conn[x] \in Wires /\ <<Req(c)>> \in Box
    BY <1>5, ReqType DEF Typed, Places, Place, Consistent, Send, Owned, Covered, Disjoint, Clean, Fits, Empty, Box
  <2>3. Append(conn[x].out, Req(c)) = <<Req(c)>>
    BY <2>2, OneMessage
  <2>4. Open' = Open /\ conn' \in [Open -> Wires]
    <3>1. CASE conn[x].eof
      BY <1>5, <3>1 DEF Typed, Send, Open
    <3>2. CASE ~conn[x].eof
      <4>1. conn' = [conn EXCEPT ![x].out = <<Req(c)>>]
        BY <1>5, <2>3, <3>2 DEF Send
      <4> QED
        BY <2>2, <4>1 DEF Typed, Open, Wires
    <3> QED
      BY <3>1, <3>2
  <2> HIDE DEF p, x
  <2> QED
    BY <1>5, <2>1, <2>4, CallMoves DEF Typed, Send
<1>6. ASSUME NEW c \in Callers, Receive(c) PROVE Typed'
  <2> DEFINE p == Place("ready", call[c].n, 0, None, FALSE)
             x == call[c].conn
  <2>1. p \in Places /\ Consistent(p) /\ call' = [call EXCEPT ![c] = p]
    BY <1>6 DEF Typed, Places, Place, Consistent, Receive, Done
  <2>2. x \in Open /\ x \in Conns /\ conn[x] \in Wires /\ Req(c) \in Requests /\ call[c].q \in 1..MaxQueues
    BY <1>6, ReqType DEF Typed, Places, Place, Consistent, Receive, Owned, Disjoint
  <2>3. conn[x].inb = <<Req(c)>>
    BY <1>6 DEF Receive, Clean, Fits, Empty
  <2>4. Head(conn[x].inb) = Req(c) /\ Tail(conn[x].inb) = <<>>
    BY <2>3, OneMessage
  <2>5. result' \in [Requests -> Requests \cup {None, KeyError}]
    BY <1>6, <2>2, <2>4 DEF Receive, Typed
  <2>6. Open' \subseteq Conns /\ conn' \in [Open' -> Wires]
    <3>1. CASE conn' = Closed({x})
      BY <3>1 DEF Typed, Closed, Open
    <3>2. CASE conn' = [conn EXCEPT ![x].inb = Tail(@)]
      <4>1. conn' = [conn EXCEPT ![x].inb = <<>>]
        BY <2>4, <3>2
      <4> QED
        BY <2>2, <4>1 DEF Typed, Open, Wires, Box
    <3> QED
      BY <1>6, <3>1, <3>2 DEF Receive
  <2>7. idle' \in [1..MaxQueues -> SUBSET Conns]
    <3>1. idle' = idle \/ idle' = [idle EXCEPT ![call[c].q] = @ \cup {x}]
      BY <1>6 DEF Receive
    <3>2. idle \in [1..MaxQueues -> SUBSET Conns] /\ x \in Conns /\ call[c].q \in 1..MaxQueues
      BY <2>2 DEF Typed
    <3>3. CASE idle' = idle
      BY <3>2, <3>3
    <3>4. CASE idle' = [idle EXCEPT ![call[c].q] = @ \cup {x}]
      <4> HIDE DEF x
      <4>1. idle[call[c].q] \cup {x} \in SUBSET Conns
        BY <3>2
      <4> QED
        BY <3>2, <3>4, <4>1
    <3> QED
      BY <3>1, <3>3, <3>4
  <2> HIDE DEF p, x
  <2> QED
    BY <1>6, <2>1, <2>5, <2>6, <2>7, CallMoves DEF Typed, Receive
<1>7. ASSUME NEW c \in Callers, Breaks(c) PROVE Typed'
  <2>1. \E p \in Places : Consistent(p) /\ call' = [call EXCEPT ![c] = p]
    <3>1. CASE call' = [call EXCEPT ![c] = Place("open", @.n, @.q, None, FALSE)]
      <4> DEFINE p == Place("open", call[c].n, call[c].q, None, FALSE)
      <4>1. p \in Places /\ Consistent(p) /\ call' = [call EXCEPT ![c] = p]
        BY <1>7, <3>1 DEF Typed, Places, Place, Consistent, Breaks
      <4> QED
        BY <4>1
    <3>2. CASE call' = Done(c)
      <4> DEFINE p == Place("ready", call[c].n, 0, None, FALSE)
      <4>1. p \in Places /\ Consistent(p) /\ call' = [call EXCEPT ![c] = p]
        BY <1>7, <3>2 DEF Typed, Places, Place, Consistent, Done
      <4> QED
        BY <4>1
    <3> QED
      BY <1>7, <3>1, <3>2 DEF Breaks
  <2>2. Open' \subseteq Conns /\ conn' \in [Open' -> Wires]
    BY <1>7 DEF Typed, Breaks, GaveUp, Closed, Open
  <2>3. late' \in [Requests -> Nat]
    BY <1>7, ReqType DEF Typed, Breaks, GaveUp
  <2> QED
    BY <1>7, <2>1, <2>2, <2>3, CallMoves DEF Typed, Breaks, GaveUp
<1>8. ASSUME ClosePeer PROVE Typed'
  BY <1>8 DEF Typed, ClosePeer, Open
<1>9. ASSUME NEW x \in Open, PeerAnswers(x) PROVE Typed'
  <2>1. PICK c \in Callers : call[c].conn = x /\ conn[x].out = <<Req(c)>> /\ conn[x].inb = <<>>
    <3>1. ~Empty(x)
      BY <1>9 DEF PeerAnswers, Empty
    <3>2. PICK c \in Callers : call[c].conn = x
      BY <3>1 DEF Owned, Covered, Clean
    <3>3. call[c].at \in {"send", "receive"}
      BY <3>2 DEF Typed, Places, Consistent
    <3> QED
      BY <1>9, <3>1, <3>2, <3>3 DEF PeerAnswers, Clean, Fits
  <2>2. Req(c) \in Requests /\ conn[x] \in Wires
    BY <1>9, <2>1, ReqType DEF Typed, Places, Consistent
  <2>3. Head(conn[x].out) = Req(c) /\ Tail(conn[x].out) = <<>> /\ Append(conn[x].inb, Req(c)) = <<Req(c)>>
    BY <2>1, OneMessage
  <2>4. conn' = [conn EXCEPT ![x].out = <<>>, ![x].inb = <<Req(c)>>]
    BY <1>9, <2>3 DEF PeerAnswers
  <2>5. Open' = Open /\ conn' \in [Open -> Wires]
    BY <2>2, <2>4 DEF Typed, Open, Wires, Box
  <2>6. served' \in [Requests -> Nat]
    <3>1. served' = [served EXCEPT ![Req(c)] = @ + 1]
      BY <1>9, <2>3 DEF PeerAnswers
    <3>2. served \in [Requests -> Nat] /\ served[Req(c)] + 1 \in Nat
      BY <2>2 DEF Typed
    <3> QED
      BY <2>2, <3>1, <3>2
  <2> QED
    BY <1>9, <2>5, <2>6 DEF Typed, PeerAnswers
<1>10. ASSUME NEW x \in Open, PeerCloses(x) PROVE Typed'
  <2>1. PICK k \in 0..Len(conn[x].inb) :
          conn' = [conn EXCEPT ![x] = [out |-> <<>>, inb |-> SubSeq(@.inb, 1, k), eof |-> TRUE]]
    BY <1>10 DEF PeerCloses
  <2>2. conn[x].inb \in Box
    BY DEF Typed, Wires
  <2>3. SubSeq(conn[x].inb, 1, k) \in Box
    <3>1. CASE conn[x].inb = <<>>
      BY <3>1, OneMessage DEF Box
    <3>2. ASSUME NEW r \in Requests, conn[x].inb = <<r>> PROVE SubSeq(conn[x].inb, 1, k) \in Box
      <4>1. k = 0 \/ k = 1
        BY <3>2, OneMessage
      <4> QED
        BY <3>2, <4>1, OneMessage DEF Box
    <3> QED
      BY <2>2, <3>1, <3>2 DEF Box
  <2>4. Open' = Open /\ conn' \in [Open -> Wires]
    BY <2>1, <2>3 DEF Typed, Open, Wires, Box
  <2> QED
    BY <1>10, <2>4 DEF Typed, PeerCloses
<1>11. ASSUME NEW r \in Requests, PeerServesLate(r) PROVE Typed'
  BY <1>11 DEF Typed, PeerServesLate, Open
<1>12. CASE UNCHANGED vars
  BY <1>12 DEF Typed, vars, Open
<1> QED
  BY <1>1, <1>2, <1>3, <1>4, <1>5, <1>6, <1>7, <1>8, <1>9, <1>10, <1>11, <1>12, StepsAre

(* No queue grows past its limit. *)
LEMMA BoundedStep == IInv /\ [Next]_vars => Bounded'
<1> SUFFICES ASSUME IInv, [Next]_vars, MaxPerPeer > 0, NEW p \in 1..MaxQueues
             PROVE  Cardinality(idle'[p]) <= MaxPerPeer
  BY DEF Bounded
<1> USE RetryPoolConstants DEF IInv
<1>1. idle[p] \in SUBSET Conns /\ Cardinality(idle[p]) <= MaxPerPeer
  BY DEF Typed, Bounded
<1>2. CASE idle'[p] \subseteq idle[p]
  BY <1>1, <1>2, QueueCard
<1>3. ASSUME NEW c \in Callers, Receive(c) PROVE Cardinality(idle'[p]) <= MaxPerPeer
  <2> DEFINE q == call[c].q
             x == call[c].conn
  <2>1. x \in Conns
    BY <1>3 DEF Typed, Places, Consistent, Receive
  <2>2. CASE ~Full(q) /\ idle' = [idle EXCEPT ![q] = @ \cup {x}]
    <3>1. CASE p = q
      <4>1. idle'[p] = idle[p] \cup {x}
        BY <2>2, <3>1 DEF Typed
      <4>2. ~(Cardinality(idle[p]) >= MaxPerPeer) /\ Cardinality(idle[p]) \in Nat
        BY <1>1, <2>2, <3>1, QueueCard DEF Full
      <4>3. Cardinality(idle[p] \cup {x}) <= Cardinality(idle[p]) + 1
        BY <1>1, <2>1, QueueCard
      <4>4. Cardinality(idle[p] \cup {x}) \in Nat
        BY <1>1, <2>1, QueueCard
      <4> QED
        BY <4>1, <4>2, <4>3, <4>4
    <3>2. CASE p # q
      BY <1>1, <2>2, <3>2 DEF Typed
    <3> QED
      BY <3>1, <3>2
  <2>3. CASE UNCHANGED idle
    BY <1>1, <2>3
  <2> QED
    BY <1>3, <2>2, <2>3 DEF Receive
<1>4. ASSUME NEW c \in Callers, Take(c) PROVE idle'[p] \subseteq idle[p]
  <2>1. CASE UNCHANGED idle
    BY <2>1
  <2>2. ASSUME NEW x, idle' = [idle EXCEPT ![call[c].q] = @ \ {x}] PROVE idle'[p] \subseteq idle[p]
    BY <2>2 DEF Typed
  <2> QED
    BY <1>4, <2>1, <2>2 DEF Take
<1>5. ASSUME NEW q \in 1..MaxQueues, Drain(q) PROVE idle'[p] \subseteq idle[p]
  BY <1>5 DEF Drain, Typed
<1>6. CASE UNCHANGED idle
  BY <1>1, <1>6
<1> QED
  <2>1. ASSUME NEW c \in Callers, Locates(c) \/ Connect(c) \/ Send(c) \/ Breaks(c) PROVE UNCHANGED idle
    BY <2>1 DEF Locates, Lookup, Make, Fetch, Connect, Send, Breaks, GaveUp
  <2>2. ASSUME NEW x \in Open, PeerAnswers(x) \/ PeerCloses(x) PROVE UNCHANGED idle
    BY <2>2 DEF PeerAnswers, PeerCloses
  <2>3. ASSUME NEW r \in Requests, PeerServesLate(r) PROVE UNCHANGED idle
    BY <2>3 DEF PeerServesLate
  <2>4. CASE ClosePeer \/ UNCHANGED vars
    BY <1>6, <2>4 DEF ClosePeer, vars
  <2> QED
    BY <1>2, <1>3, <1>4, <1>5, <1>6, <2>1, <2>2, <2>3, <2>4, StepsAre

(* No step shares a connection, loses one or keeps a closed one. *)
LEMMA OwnedStep == IInv /\ [Next]_vars => Owned'
<1> SUFFICES ASSUME IInv, [Next]_vars PROVE Owned'
  OBVIOUS
<1> USE RetryPoolConstants DEF IInv
<1>1. ASSUME NEW c \in Callers, Locates(c) PROVE Owned'
  <2>1. call[c].at \in {"ready", "make", "fetch"}
    BY <1>1 DEF Locates, Lookup, Make, Fetch
  <2>2. call'[c].conn = None /\ call[c].conn = None /\ \A d \in Callers \ {c} : call'[d] = call[d]
    <3>1. call[c].conn = None
      BY <2>1, CallFacts
    <3>2. CASE Lookup(c)
      BY <3>1, <3>2 DEF Typed, Place, Lookup
    <3>3. CASE Make(c)
      BY <3>1, <3>3 DEF Typed, Places, Make
    <3>4. CASE Fetch(c)
      BY <3>1, <3>4 DEF Typed, Place, Fetch, Done
    <3> QED
      BY <1>1, <3>2, <3>3, <3>4 DEF Locates
  <2>3. Open' = Open /\ idle' = idle
    BY <1>1 DEF Locates, Lookup, Make, Fetch, Open
  <2>4. \A d \in Callers : call'[d].conn = call[d].conn
    BY <2>2
  <2>c. Covered'
    BY <2>3, <2>4 DEF Owned, Covered
  <2>d. Disjoint'
    BY <2>3, <2>4 DEF Owned, Disjoint
  <2> QED
    BY <2>c, <2>d DEF Owned
<1>2. ASSUME NEW c \in Callers, Take(c) PROVE Owned'
  <2>1. CASE UNCHANGED idle /\ call' = [call EXCEPT ![c] = Place("open", @.n, call[c].q, None, FALSE)]
    <3>1. \A d \in Callers : call'[d].conn = call[d].conn
      BY <1>2, <2>1 DEF Typed, Places, Place, Consistent, Take
    <3>2. Open' = Open /\ idle' = idle
      BY <1>2, <2>1 DEF Take, Open
    <3>c. Covered'
      BY <3>1, <3>2 DEF Owned, Covered
    <3>d. Disjoint'
      BY <3>1, <3>2 DEF Owned, Disjoint
    <3> QED
      BY <3>c, <3>d DEF Owned
  <2>2. ASSUME NEW x \in idle[call[c].q],
               idle' = [idle EXCEPT ![call[c].q] = @ \ {x}],
               call' = [call EXCEPT ![c] = Place("send", @.n, call[c].q, x, TRUE)]
        PROVE  Owned'
    <3>1. \A d \in Callers : call'[d].conn = IF d = c THEN x ELSE call[d].conn
      BY <2>2 DEF Typed, Place
    <3>2. call[c].conn = None /\ call[c].q \in 1..MaxQueues /\ x # None
      <4>1. call[c].at = "take"
        BY <1>2 DEF Take
      <4> QED
        BY <4>1, CallFacts, QueueFacts
    <3>3. \A q \in 1..MaxQueues : idle'[q] = idle[q] \ {x}
      BY <2>2, <3>2, LeavesQueue DEF Owned
    <3>4. Open' = Open
      BY <1>2 DEF Take, Open
    <3>c. Covered'
      <4> SUFFICES ASSUME NEW y \in Open', \A d \in Callers : call'[d].conn # y
                   PROVE  \E q \in 1..MaxQueues : y \in idle'[q]
        BY DEF Covered
      <4>1. y # x /\ y \in Open
        BY <3>1, <3>4
      <4>2. \A d \in Callers : call[d].conn # y
        BY <4>1, <3>1, <3>2, <3>3, <3>4, QueueFacts
      <4> QED
        BY <4>1, <4>2, <3>1, <3>2, <3>3, <3>4, QueueFacts DEF Owned, Covered
    <3>d. Disjoint'
      BY <3>1, <3>2, <3>3, <3>4 DEF Owned, Disjoint
    <3> QED
      BY <3>c, <3>d DEF Owned
  <2> QED
    BY <1>2, <2>1, <2>2 DEF Take
<1>3. ASSUME NEW p \in 1..MaxQueues, Drain(p) PROVE Owned'
  <2>1. PICK x \in idle[p] : idle' = [idle EXCEPT ![p] = @ \ {x}] /\ conn' = Closed({x})
    BY <1>3 DEF Drain
  <2>2. p \in 1..MaxQueues
    BY <1>3
  <2>3. \A q \in 1..MaxQueues : idle'[q] = idle[q] \ {x}
    BY <2>1, <2>2, LeavesQueue DEF Owned
  <2>4. Open' = Open \ {x}
    BY <2>1 DEF Closed, Open
  <2>5. call' = call
    BY <1>3 DEF Drain
  <2>c. Covered'
    BY <2>2, <2>3, <2>4, <2>5 DEF Owned, Covered
  <2>d. Disjoint'
    BY <2>2, <2>3, <2>4, <2>5 DEF Owned, Disjoint
  <2> QED
    BY <2>c, <2>d DEF Owned
<1>4. ASSUME NEW c \in Callers, Connect(c) PROVE Owned'
  <2>1. call[c].conn = None
    BY <1>4 DEF Typed, Places, Consistent, Connect
  <2>2. ASSUME NEW x \in Conns \ Open,
               conn' = [y \in Open \cup {x} |->
                          IF y = x THEN [out |-> <<>>, inb |-> <<>>, eof |-> FALSE] ELSE conn[y]],
               call' = [call EXCEPT ![c] = Place("send", @.n, @.q, x, FALSE)]
        PROVE  Owned'
    <3>1. \A d \in Callers : call'[d].conn = IF d = c THEN x ELSE call[d].conn
      BY <2>2 DEF Typed, Place
    <3>2. Open' = Open \cup {x}
      BY <2>2 DEF Open
    <3>3. idle' = idle
      BY <1>4 DEF Connect
    <3>c. Covered'
      <4> SUFFICES ASSUME NEW y \in Open', \A d \in Callers : call'[d].conn # y
                   PROVE  \E q \in 1..MaxQueues : y \in idle'[q]
        BY DEF Covered
      <4>1. y # x /\ y \in Open
        BY <3>1, <3>2
      <4>2. \A d \in Callers : call[d].conn # y
        BY <4>1, <2>1, <3>1, <3>2, <3>3, QueueFacts
      <4> QED
        BY <4>1, <4>2, <2>1, <3>1, <3>2, <3>3, QueueFacts DEF Owned, Covered
    <3>d. Disjoint'
      BY <2>1, <3>1, <3>2, <3>3 DEF Owned, Disjoint
    <3> QED
      BY <3>c, <3>d DEF Owned
  <2>3. CASE call' = Done(c) /\ UNCHANGED conn
    <3>1. \A d \in Callers : call'[d].conn = call[d].conn
      BY <2>1, <2>3 DEF Typed, Place, Done
    <3>2. Open' = Open /\ idle' = idle
      BY <1>4, <2>3 DEF Connect, Open
    <3>c. Covered'
      BY <3>1, <3>2 DEF Owned, Covered
    <3>d. Disjoint'
      BY <3>1, <3>2 DEF Owned, Disjoint
    <3> QED
      BY <3>c, <3>d DEF Owned
  <2> QED
    BY <1>4, <2>2, <2>3 DEF Connect
<1>5. ASSUME NEW c \in Callers, Send(c) PROVE Owned'
  <2>1. \A d \in Callers : call'[d].conn = call[d].conn
    BY <1>5 DEF Typed, Places, Send
  <2>2. Open' = Open /\ idle' = idle
    BY <1>5 DEF Typed, Send, Open
  <2>c. Covered'
    BY <2>1, <2>2 DEF Owned, Covered
  <2>d. Disjoint'
    BY <2>1, <2>2 DEF Owned, Disjoint
  <2> QED
    BY <2>c, <2>d DEF Owned
<1>6. ASSUME NEW c \in Callers, Receive(c) PROVE Owned'
  <2> DEFINE x == call[c].conn
  <2>1. \A d \in Callers : call'[d].conn = IF d = c THEN None ELSE call[d].conn
    BY <1>6 DEF Typed, Receive, Done, Place
  <2>2. x # None /\ call[c].q \in 1..MaxQueues
    BY <1>6 DEF Typed, Places, Consistent, Receive
  <2>3. CASE conn' = Closed({x}) /\ UNCHANGED idle
    <3>1. Open' = Open \ {x}
      BY <2>3 DEF Closed, Open
    <3>c. Covered'
      BY <2>1, <2>2, <2>3, <3>1, QueueFacts DEF Owned, Covered
    <3>d. Disjoint'
      BY <2>1, <2>2, <2>3, <3>1, QueueFacts DEF Owned, Disjoint
    <3> QED
      BY <3>c, <3>d DEF Owned
  <2>4. CASE conn' = [conn EXCEPT ![x].inb = Tail(@)] /\ idle' = [idle EXCEPT ![call[c].q] = @ \cup {x}]
    <3>1. Open' = Open
      BY <2>4 DEF Typed, Open
    <3>2. \A q \in 1..MaxQueues : idle'[q] = IF q = call[c].q THEN idle[q] \cup {x} ELSE idle[q]
      BY <2>4 DEF Typed
    <3>3. \A q \in 1..MaxQueues : None \notin idle'[q]
      BY <2>2, <3>2, QueueFacts
    <3> HIDE DEF x
    <3>4. \A d \in Callers \ {c} : call[d].conn # x
      BY <2>2 DEF Owned, Disjoint, x
    <3>5. x \in Open /\ \A q \in 1..MaxQueues : x \notin idle[q]
      BY <2>2 DEF Owned, Disjoint, x
    <3>6. \E q \in 1..MaxQueues : x \in idle'[q]
      BY <2>2, <3>2
    <3>c. Covered'
      <4> SUFFICES ASSUME NEW y \in Open, y # x, \A d \in Callers : call'[d].conn # y
                   PROVE  \E q \in 1..MaxQueues : y \in idle'[q]
        BY <3>1, <3>6 DEF Covered
      <4>1. \A d \in Callers : call[d].conn # y
        BY <2>1 DEF x
      <4>2. PICK q \in 1..MaxQueues : y \in idle[q]
        BY <4>1 DEF Owned, Covered
      <4> QED
        BY <3>2, <4>2
    <3>d. Disjoint'
      <4>1. \A d, e \in Callers : d # e /\ call'[d].conn # None => call'[d].conn # call'[e].conn
        BY <2>1 DEF Owned, Disjoint
      <4>2. \A d \in Callers, q \in 1..MaxQueues : call'[d].conn \notin idle'[q]
        <5> TAKE d \in Callers, q \in 1..MaxQueues
        <5>1. CASE d = c
          BY <2>1, <3>3, <5>1
        <5>2. CASE d # c
          <6>1. call[d].conn \notin idle[q] /\ call[d].conn # x /\ call'[d].conn = call[d].conn
            BY <2>1, <3>4, <5>2 DEF Owned, Disjoint
          <6>2. idle'[q] \subseteq idle[q] \cup {x}
            BY <3>2
          <6> QED
            BY <6>1, <6>2
        <5> QED
          BY <5>1, <5>2
      <4>3. ASSUME NEW p \in 1..MaxQueues, NEW q \in 1..MaxQueues, p # q
            PROVE  idle'[p] \cap idle'[q] = {}
        <5>1. idle[p] \cap idle[q] = {} /\ x \notin idle[p] /\ x \notin idle[q]
          BY <3>5, <4>3 DEF Owned, Disjoint
        <5>2. idle'[p] = idle[p] \/ idle'[q] = idle[q]
          BY <3>2, <4>3
        <5>3. idle'[p] \subseteq idle[p] \cup {x} /\ idle'[q] \subseteq idle[q] \cup {x}
          BY <3>2
        <5> QED
          BY <5>1, <5>2, <5>3
      <4>4. \A d \in Callers : call'[d].conn # None => call'[d].conn \in Open'
        BY <2>1, <3>1 DEF Owned, Disjoint
      <4>5. \A q \in 1..MaxQueues : idle'[q] \subseteq Open'
        <5> TAKE q \in 1..MaxQueues
        <5>1. idle'[q] \subseteq idle[q] \cup {x} /\ idle[q] \subseteq Open
          BY <3>2 DEF Owned, Disjoint
        <5> QED
          BY <3>1, <3>5, <5>1
      <4> QED
        BY <4>1, <4>2, <4>3, <4>4, <4>5 DEF Disjoint
    <3> QED
      BY <3>c, <3>d DEF Owned
  <2> QED
    BY <1>6, <2>3, <2>4 DEF Receive
<1>7. ASSUME NEW c \in Callers, Breaks(c) PROVE Owned'
  <2> DEFINE x == call[c].conn
  <2>1. \A d \in Callers : call'[d].conn = IF d = c THEN None ELSE call[d].conn
    BY <1>7 DEF Typed, Breaks, Done, Place
  <2>2. x # None /\ Open' = Open \ {x} /\ idle' = idle
    BY <1>7 DEF Typed, Places, Consistent, Breaks, GaveUp, Closed, Open
  <2>c. Covered'
    BY <2>1, <2>2, QueueFacts DEF Owned, Covered
  <2>d. Disjoint'
    BY <2>1, <2>2, QueueFacts DEF Owned, Disjoint
  <2> QED
    BY <2>c, <2>d DEF Owned
<1>8. ASSUME ClosePeer PROVE Owned'
  BY <1>8 DEF Owned, Covered, Disjoint, ClosePeer, Open
<1>9. ASSUME NEW x \in Open, PeerAnswers(x) \/ PeerCloses(x) PROVE Owned'
  BY <1>9 DEF Typed, Owned, Covered, Disjoint, PeerAnswers, PeerCloses, Open
<1>10. ASSUME NEW r \in Requests, PeerServesLate(r) PROVE Owned'
  BY <1>10 DEF Owned, Covered, Disjoint, PeerServesLate, Open
<1>11. CASE UNCHANGED vars
  BY <1>11 DEF Owned, Covered, Disjoint, vars, Open
<1> QED
  BY <1>1, <1>2, <1>3, <1>4, <1>5, <1>6, <1>7, <1>8, <1>9, <1>10, <1>11, StepsAre

(* A step on connection x leaves the other calls and queues as they are. *)
LEMMA OthersFit ==
  ASSUME Typed, Owned, Clean, NEW x, \A y \in Open \ {x} : conn'[y] = conn[y],
         NEW d \in Callers, call[d].conn # x, call'[d] = call[d]
  PROVE  Fits(d)'
<1>1. CASE call[d].at \in {"send", "receive"}
  <2>1. conn'[call[d].conn] = conn[call[d].conn]
    BY <1>1, CallFacts DEF Owned, Disjoint
  <2> QED
    BY <2>1 DEF Clean, Fits, Empty, Req
<1>2. CASE call[d].at \notin {"send", "receive"}
  BY <1>2 DEF Fits
<1> QED
  BY <1>1, <1>2

LEMMA OthersEmpty ==
  ASSUME Owned, Clean, NEW x, \A y \in Open \ {x} : conn'[y] = conn[y],
         NEW q \in 1..MaxQueues, NEW y \in idle[q], y # x
  PROVE  Empty(y)'
<1>1. conn'[y] = conn[y]
  BY DEF Owned, Disjoint
<1> QED
  BY <1>1 DEF Clean, Empty

(* A connection carries nothing but the message of the call that holds it. *)
LEMMA CleanStep == IInv /\ [Next]_vars => Clean'
<1> SUFFICES ASSUME IInv, [Next]_vars PROVE Clean'
  OBVIOUS
<1> USE RetryPoolConstants DEF IInv
<1>1. ASSUME NEW c \in Callers, Locates(c) PROVE Clean'
  <2>1. conn' = conn /\ idle' = idle /\ \A d \in Callers \ {c} : call'[d] = call[d]
    BY <1>1 DEF Typed, Locates, Lookup, Make, Fetch, Done
  <2>2. call'[c].at \notin {"send", "receive"}
    BY <1>1 DEF Typed, Places, Place, Locates, Lookup, Make, Fetch, Done
  <2>3. Fits(c)'
    BY <2>2 DEF Fits
  <2>4. \A d \in Callers \ {c} : Fits(d)'
    BY <2>1 DEF Clean, Fits, Empty, Req
  <2> QED
    BY <2>1, <2>3, <2>4 DEF Clean, Empty
<1>2. ASSUME NEW c \in Callers, Take(c) PROVE Clean'
  <2> DEFINE q == call[c].q
  <2>1. q \in 1..MaxQueues /\ conn' = conn
    BY <1>2, CallFacts DEF Take
  <2>2. CASE UNCHANGED idle /\ call' = [call EXCEPT ![c] = Place("open", @.n, q, None, FALSE)]
    BY <2>1, <2>2 DEF Typed, Place, Clean, Fits, Empty, Req
  <2>3. ASSUME NEW x \in idle[q], idle' = [idle EXCEPT ![q] = @ \ {x}],
               call' = [call EXCEPT ![c] = Place("send", @.n, q, x, TRUE)]
        PROVE  Clean'
    <3>1. Fits(c)'
      BY <2>1, <2>3 DEF Typed, Place, Clean, Fits, Empty
    <3>2. \A d \in Callers \ {c} : Fits(d)'
      BY <2>1, <2>3 DEF Typed, Clean, Fits, Empty, Req
    <3>3. \A p \in 1..MaxQueues : idle'[p] \subseteq idle[p]
      BY <2>3 DEF Typed
    <3> QED
      BY <2>1, <3>1, <3>2, <3>3 DEF Clean, Empty
  <2> QED
    BY <1>2, <2>2, <2>3 DEF Take
<1>3. ASSUME NEW p \in 1..MaxQueues, Drain(p) PROVE Clean'
  <2>1. PICK x \in idle[p] : idle' = [idle EXCEPT ![p] = @ \ {x}] /\ conn' = Closed({x})
    BY <1>3 DEF Drain
  <2>2. p \in 1..MaxQueues
    BY <1>3
  <2>3. \A q \in 1..MaxQueues : idle'[q] = idle[q] \ {x}
    BY <2>1, <2>2, LeavesQueue DEF Owned
  <2>4. call' = call /\ \A y \in Open \ {x} : conn'[y] = conn[y]
    BY <1>3, <2>1 DEF Drain, Closed
  <2>5. \A d \in Callers : call[d].conn # x
    BY <2>1, <2>2 DEF Owned, Disjoint
  <2>6. \A d \in Callers : Fits(d)'
    BY <2>4, <2>5, OthersFit
  <2>7. ASSUME NEW q \in 1..MaxQueues, NEW y \in idle'[q] PROVE Empty(y)'
    <3>1. y \in idle[q] /\ y # x
      BY <2>3
    <3> QED
      BY <2>4, <3>1, OthersEmpty
  <2> QED
    BY <2>6, <2>7 DEF Clean
<1>4. ASSUME NEW c \in Callers, Connect(c) PROVE Clean'
  <2>1. ASSUME NEW x \in Conns \ Open,
               conn' = [y \in Open \cup {x} |->
                          IF y = x THEN [out |-> <<>>, inb |-> <<>>, eof |-> FALSE] ELSE conn[y]],
               call' = [call EXCEPT ![c] = Place("send", @.n, @.q, x, FALSE)]
        PROVE  Clean'
    <3>1. \A y \in Open : conn'[y] = conn[y]
      BY <2>1
    <3>2. Empty(x)'
      BY <2>1 DEF Empty
    <3>3. Fits(c)'
      BY <2>1, <3>2 DEF Typed, Place, Fits, Empty
    <3>4. \A d \in Callers \ {c} : call'[d] = call[d]
      BY <2>1 DEF Typed
    <3>5. \A d \in Callers \ {c} : Fits(d)'
      <4>1. \A d \in Callers : call[d].conn # x
        BY <2>1, QueueFacts DEF Owned, Disjoint, Typed
      <4> QED
        BY <3>1, <3>4, <4>1, OthersFit
    <3>6. \A q \in 1..MaxQueues : \A y \in idle'[q] : Empty(y)'
      BY <1>4, <3>1 DEF Connect, Clean, Empty, Owned, Disjoint
    <3> QED
      BY <3>3, <3>5, <3>6 DEF Clean
  <2>2. CASE call' = Done(c) /\ UNCHANGED conn
    BY <1>4, <2>2 DEF Typed, Place, Clean, Fits, Empty, Req, Connect, Done
  <2> QED
    BY <1>4, <2>1, <2>2 DEF Connect
<1>5. ASSUME NEW c \in Callers, Send(c) PROVE Clean'
  <2> DEFINE x == call[c].conn
  <2>1. x \in Open /\ x # None /\ Empty(x)
    BY <1>5, CallFacts DEF Send, Clean, Fits, Owned, Disjoint
  <2>2. \A d \in Callers \ {c} : call'[d] = call[d]
    BY <1>5 DEF Typed, Send
  <2>3. call'[c].at = "receive" /\ call'[c].conn = x /\ Req(c)' = Req(c)
    BY <1>5 DEF Typed, Places, Send, Req
  <2>4. \A y \in Open \ {x} : conn'[y] = conn[y]
    BY <1>5 DEF Typed, Send
  <2>5. Fits(c)'
    <3>1. CASE conn[x].eof
      BY <1>5, <2>1, <2>3, <3>1 DEF Send, Fits, Empty
    <3>2. CASE ~conn[x].eof
      <4>1. Append(conn[x].out, Req(c)) = <<Req(c)>>
        BY <2>1, OneMessage DEF Empty
      <4>2. conn' = [conn EXCEPT ![x].out = <<Req(c)>>]
        BY <1>5, <3>2, <4>1 DEF Send
      <4>3. conn'[x].out = <<Req(c)>> /\ conn'[x].inb = <<>>
        BY <2>1, <4>2 DEF Typed, Wires, Empty
      <4> QED
        BY <2>3, <4>3 DEF Fits
    <3> QED
      BY <3>1, <3>2
  <2>6. \A d \in Callers \ {c} : Fits(d)'
    <3>1. \A d \in Callers \ {c} : call[d].conn # x
      BY <2>1 DEF Owned, Disjoint
    <3> QED
      BY <2>2, <2>4, <3>1, OthersFit
  <2>7. \A q \in 1..MaxQueues : \A y \in idle'[q] : Empty(y)'
    BY <1>5, <2>1, <2>4 DEF Send, Clean, Empty, Owned, Disjoint
  <2> QED
    BY <2>5, <2>6, <2>7 DEF Clean
<1>6. ASSUME NEW c \in Callers, Receive(c) PROVE Clean'
  <2>0. PICK x : x = call[c].conn
    OBVIOUS
  <2>1. x \in Open /\ x # None /\ call[c].q \in 1..MaxQueues
    BY <1>6, <2>0, CallFacts DEF Receive, Owned, Disjoint
  <2>2. \A d \in Callers \ {c} : call'[d] = call[d]
    BY <1>6 DEF Typed, Receive, Done
  <2>3. Fits(c)'
    BY <1>6 DEF Typed, Receive, Done, Place, Fits
  <2>4. \A y \in Open \ {x} : conn'[y] = conn[y]
    BY <1>6, <2>0 DEF Typed, Receive, Closed, Open
  <2>5. \A d \in Callers \ {c} : Fits(d)'
    <3>1. \A d \in Callers \ {c} : call[d].conn # x
      BY <2>0, <2>1 DEF Owned, Disjoint
    <3> QED
      BY <2>2, <2>4, <3>1, OthersFit
  <2>6. \A q \in 1..MaxQueues : \A y \in idle[q] : y # x /\ Empty(y)'
    <3>1. \A q \in 1..MaxQueues : x \notin idle[q]
      BY <2>0, <2>1 DEF Owned, Disjoint
    <3> QED
      BY <2>4, <3>1, OthersEmpty
  <2>7. CASE UNCHANGED idle
    BY <2>3, <2>5, <2>6, <2>7 DEF Clean
  <2>8. CASE /\ conn' = [conn EXCEPT ![x].inb = Tail(@)]
             /\ idle' = [idle EXCEPT ![call[c].q] = @ \cup {x}]
    <3>1. conn[x].inb = <<Req(c)>> /\ conn[x].out = <<>>
      BY <1>6, <2>0, <2>1 DEF Receive, Clean, Fits, Empty
    <3>2. Tail(conn[x].inb) = <<>>
      BY <3>1, OneMessage
    <3>3. Empty(x)'
      <4>1. conn' = [conn EXCEPT ![x].inb = <<>>]
        BY <2>8, <3>2
      <4> QED
        BY <2>1, <3>1, <4>1 DEF Typed, Wires, Empty
    <3>4. \A q \in 1..MaxQueues : idle'[q] \subseteq idle[q] \cup {x}
      BY <2>8 DEF Typed
    <3>5. \A q \in 1..MaxQueues : \A y \in idle'[q] : Empty(y)'
      <4> TAKE q \in 1..MaxQueues
      <4> TAKE y \in idle'[q]
      <4>1. y \in idle[q] \/ y = x
        BY <3>4
      <4> QED
        BY <2>6, <3>3, <4>1
    <3> QED
      BY <2>3, <2>5, <3>5 DEF Clean
  <2> QED
    BY <1>6, <2>0, <2>7, <2>8 DEF Receive
<1>7. ASSUME NEW c \in Callers, Breaks(c) PROVE Clean'
  <2>0. PICK x : x = call[c].conn
    OBVIOUS
  <2>1. x \in Open /\ x # None
    BY <1>7, <2>0, CallFacts DEF Breaks, Owned, Disjoint
  <2>2. \A d \in Callers \ {c} : call'[d] = call[d]
    BY <1>7 DEF Typed, Breaks, Done
  <2>3. Fits(c)'
    BY <1>7 DEF Typed, Breaks, Done, Place, Fits
  <2>4. idle' = idle /\ \A y \in Open \ {x} : conn'[y] = conn[y]
    BY <1>7, <2>0 DEF Breaks, GaveUp, Closed
  <2>5. \A d \in Callers \ {c} : call[d].conn # x
    BY <2>0, <2>1 DEF Owned, Disjoint
  <2>6. \A d \in Callers \ {c} : Fits(d)'
    BY <2>2, <2>4, <2>5, OthersFit
  <2>7. \A q \in 1..MaxQueues : x \notin idle[q]
    BY <2>0, <2>1 DEF Owned, Disjoint
  <2>8. ASSUME NEW q \in 1..MaxQueues, NEW y \in idle[q] PROVE Empty(y)'
    BY <2>4, <2>7, OthersEmpty
  <2> QED
    BY <2>3, <2>4, <2>6, <2>8 DEF Clean
<1>8. ASSUME ClosePeer PROVE Clean'
  BY <1>8 DEF Clean, Fits, Empty, Req, ClosePeer
<1>9. ASSUME NEW x \in Open, PeerAnswers(x) PROVE Clean'
  <2>1. ~Empty(x)
    BY <1>9 DEF PeerAnswers, Empty
  <2>2. PICK c \in Callers : call[c].conn = x /\ x # None
    BY <2>1, QueueFacts DEF Owned, Covered, Clean
  <2>3. call[c].at = "receive" /\ conn[x].out = <<Req(c)>> /\ conn[x].inb = <<>>
    BY <1>9, <2>1, <2>2, CallFacts DEF PeerAnswers, Clean, Fits
  <2>4. Head(conn[x].out) = Req(c) /\ Tail(conn[x].out) = <<>> /\ Append(conn[x].inb, Req(c)) = <<Req(c)>>
    BY <2>3, OneMessage
  <2>5. conn' = [conn EXCEPT ![x].out = <<>>, ![x].inb = <<Req(c)>>] /\ call' = call /\ idle' = idle
    BY <1>9, <2>4 DEF PeerAnswers
  <2>6. conn'[x].out = <<>> /\ conn'[x].inb = <<Req(c)>>
    BY <2>5 DEF Typed, Wires
  <2>7. \A y \in Open \ {x} : conn'[y] = conn[y]
    BY <2>5 DEF Typed
  <2>8. Fits(c)'
    BY <2>2, <2>3, <2>5, <2>6 DEF Fits, Req
  <2>9. \A d \in Callers \ {c} : Fits(d)'
    <3>1. \A d \in Callers \ {c} : call[d].conn # x
      BY <2>2 DEF Owned, Disjoint
    <3> QED
      BY <2>5, <2>7, <3>1, OthersFit
  <2>10. \A q \in 1..MaxQueues : \A y \in idle'[q] : Empty(y)'
    <3>1. \A q \in 1..MaxQueues : x \notin idle[q]
      BY <2>2 DEF Owned, Disjoint
    <3> QED
      <4> SUFFICES ASSUME NEW q \in 1..MaxQueues, NEW y \in idle[q] PROVE Empty(y)'
        BY <2>5
      <4> QED
        BY <2>7, <3>1, OthersEmpty
  <2> QED
    BY <2>8, <2>9, <2>10 DEF Clean
<1>10. ASSUME NEW x \in Open, PeerCloses(x) PROVE Clean'
  <2>1. PICK k \in 0..Len(conn[x].inb) :
          conn' = [conn EXCEPT ![x] = [out |-> <<>>, inb |-> SubSeq(@.inb, 1, k), eof |-> TRUE]]
    BY <1>10 DEF PeerCloses
  <2>2. call' = call /\ idle' = idle /\ \A y \in Open \ {x} : conn'[y] = conn[y]
    BY <1>10, <2>1 DEF Typed, PeerCloses
  <2>3. conn'[x].out = <<>> /\ (conn'[x].inb = <<>> \/ conn'[x].inb = conn[x].inb)
    <3>1. conn'[x].out = <<>> /\ conn'[x].inb = SubSeq(conn[x].inb, 1, k)
      BY <2>1 DEF Typed
    <3>2. CASE conn[x].inb = <<>>
      BY <3>1, <3>2, OneMessage
    <3>3. ASSUME NEW r \in Requests, conn[x].inb = <<r>>
          PROVE  SubSeq(conn[x].inb, 1, k) \in {<<>>, conn[x].inb}
      <4>1. k = 0 \/ k = 1
        BY <3>3, OneMessage
      <4> QED
        BY <3>3, <4>1, OneMessage
    <3>4. conn[x].inb \in Box
      BY DEF Typed, Wires
    <3> QED
      BY <3>1, <3>2, <3>3, <3>4 DEF Box
  <2>4. ASSUME NEW d \in Callers PROVE Fits(d)'
    <3>1. CASE call[d].conn = x
      BY <2>2, <2>3, <3>1 DEF Clean, Fits, Empty, Req
    <3>2. CASE call[d].conn # x
      BY <2>2, <3>2, CallFacts DEF Clean, Fits, Empty, Req, Owned, Disjoint
    <3> QED
      BY <3>1, <3>2
  <2>5. \A q \in 1..MaxQueues : \A y \in idle'[q] : Empty(y)'
    BY <2>2, <2>3 DEF Clean, Empty, Owned, Disjoint
  <2> QED
    BY <2>4, <2>5 DEF Clean
<1>11. ASSUME NEW r \in Requests, PeerServesLate(r) PROVE Clean'
  BY <1>11 DEF Clean, Fits, Empty, Req, PeerServesLate
<1>12. CASE UNCHANGED vars
  BY <1>12 DEF Clean, Fits, Empty, Req, vars
<1> QED
  BY <1>1, <1>2, <1>3, <1>4, <1>5, <1>6, <1>7, <1>8, <1>9, <1>10, <1>11, <1>12, StepsAre

(* The one answer that is ever read is the caller's own. *)
LEMMA AnswerStep == IInv /\ [Next]_vars => OwnAnswer'
<1> SUFFICES ASSUME IInv, [Next]_vars PROVE OwnAnswer'
  OBVIOUS
<1>1. ASSUME NEW c \in Callers, Receive(c) PROVE OwnAnswer'
  <2>1. conn[call[c].conn].inb = <<Req(c)>>
    BY <1>1 DEF IInv, Receive, Clean, Fits, Empty
  <2>2. result' = [result EXCEPT ![Req(c)] = Req(c)]
    BY <1>1, <2>1, OneMessage DEF Receive
  <2> QED
    BY <2>2 DEF IInv, Typed, OwnAnswer
<1>2. CASE UNCHANGED result
  BY <1>2 DEF IInv, OwnAnswer
<1>3. ASSUME NEW c \in Callers, Lookup(c) \/ Make(c) \/ Take(c) \/ Connect(c) \/ Send(c) \/ Breaks(c)
      PROVE  UNCHANGED result
  BY <1>3 DEF Lookup, Make, Take, Connect, Send, Breaks
<1>4. ASSUME NEW c \in Callers, Fetch(c) PROVE OwnAnswer'
  BY <1>4 DEF Fetch, IInv, Typed, OwnAnswer
<1>5. ASSUME NEW x \in Open, PeerAnswers(x) \/ PeerCloses(x) PROVE UNCHANGED result
  BY <1>5 DEF PeerAnswers, PeerCloses
<1>6. ASSUME ClosePeer \/ UNCHANGED vars PROVE UNCHANGED result
  BY <1>6 DEF ClosePeer, vars
<1>7. ASSUME NEW q \in 1..MaxQueues, Drain(q) PROVE UNCHANGED result
  BY <1>7 DEF Drain
<1>8. ASSUME NEW r \in Requests, PeerServesLate(r) PROVE UNCHANGED result
  BY <1>8 DEF PeerServesLate
<1> QED
  BY <1>1, <1>2, <1>3, <1>4, <1>5, <1>6, <1>7, <1>8, StepsAre DEF IInv, Locates

(* The inductive invariant. *)
LEMMA PoolInvariant == Spec => []IInv
<1>1. IInv /\ [Next]_vars => IInv'
  BY TypedStep, BoundedStep, OwnedStep, CleanStep, AnswerStep DEF IInv
<1> QED
  BY InitHolds, <1>1, PTL DEF Spec

(* The pool's state keeps its type: a call has a connection exactly while  *)
(* it exchanges its message, and a limited queue keeps its max_per_peer    *)
(* (sync.py:61-92, async_.py:45-78).                                       *)
THEOREM TypeCorrect == Spec => []TypeOK
<1>1. IInv => TypeOK
  BY DEF IInv, Typed, Bounded, TypeOK, Places, Consistent
<1> QED
  BY <1>1, PoolInvariant, PTL

(* Every open connection has one owner, a queue or a call, whatever        *)
(* close_peer() and broken connections come between (sync.py:61-143,       *)
(* async_.py:45-127).                                                      *)
THEOREM OneOwnerAlways == Spec => []OneOwner
<1>1. ASSUME IInv PROVE OneOwner
  <2>1. \A c \in Callers : call[c].conn # None => call[c].conn \in Held
    BY DEF Held
  <2>2. \A x \in Held : \E c \in Callers : call[c].conn = x /\ x # None
    BY DEF Held
  <2>3. Open = Held \cup UNION {idle[q] : q \in 1..MaxQueues}
    <3>1. Open \subseteq Held \cup UNION {idle[q] : q \in 1..MaxQueues}
      BY <1>1, <2>1, QueueFacts DEF IInv, Owned, Covered
    <3>2. Held \subseteq Open
      BY <1>1, <2>2 DEF IInv, Owned, Disjoint
    <3>3. UNION {idle[q] : q \in 1..MaxQueues} \subseteq Open
      BY <1>1 DEF IInv, Owned, Disjoint
    <3> QED
      BY <3>1, <3>2, <3>3
  <2>4. \A q \in 1..MaxQueues : idle[q] \cap Held = {}
    BY <1>1, <2>2 DEF IInv, Owned, Disjoint
  <2> QED
    BY <1>1, <2>3, <2>4 DEF IInv, Owned, Disjoint, OneOwner
<1> QED
  BY <1>1, PoolInvariant, PTL

(* What execute() returns is the answer to its own message, for any        *)
(* number of calls, timeouts and reuses of a connection (sync.py:84-122,   *)
(* async_.py:68-104).                                                      *)
THEOREM OwnAnswerAlways == Spec => []OwnAnswer
<1>1. IInv => OwnAnswer
  BY DEF IInv
<1> QED
  BY <1>1, PoolInvariant, PTL

-----------------------------------------------------------------------------
(* The copies of a message that the peer has served or will serve. *)
Spent(r) == served[r] + late[r]

Due(c) == IF conn[call[c].conn].out = <<>> THEN 0 ELSE 1

(* What a call may still cost.  One on a pooled connection has one copy to *)
(* spend there and one on the retry.                                       *)
Within(c) ==
  LET r == Req(c) IN
  /\ call[c].at \in {"make", "fetch", "take"} => Spent(r) = 0
  /\ call[c].at = "open" => Spent(r) <= 1
  /\ call[c].at = "send" => Spent(r) <= IF call[c].reused THEN 0 ELSE 1
  /\ call[c].at = "receive" => Spent(r) + Due(c) <= IF call[c].reused THEN 1 ELSE 2
  /\ call[c].at = "receive" /\ conn[call[c].conn].inb # <<>> => served[r] > 0
  /\ call[c].at # "ready" => result[r] = None

Settled(r) ==
  /\ Spent(r) <= 2
  /\ r[2] > call[r[1]].n => Spent(r) = 0 /\ result[r] = None
  /\ result[r] = KeyError => Spent(r) = 0
  /\ result[r] \notin {None, KeyError} => served[r] > 0

Accounted == (\A c \in Callers : Within(c)) /\ (\A r \in Requests : Settled(r))

(* Counters are numbers. *)
LEMMA Counters ==
  ASSUME Typed, NEW r \in Requests
  PROVE  served[r] \in Nat /\ late[r] \in Nat /\ Spent(r) \in Nat
BY DEF Typed, Spent

(* Requests of different callers are different. *)
LEMMA OwnRequests ==
  ASSUME NEW c \in Callers, NEW d \in Callers, c # d
  PROVE  Req(c) # Req(d)
BY DEF Req

(* A call that is untouched, with its request and connection, stays within *)
(* its means.                                                              *)
LEMMA WithinKept ==
  ASSUME NEW d \in Callers, Within(d), call'[d] = call[d],
         call[d].at = "receive" => conn'[call[d].conn] = conn[call[d].conn],
         call[d].at # "ready" =>
           /\ served'[Req(d)] = served[Req(d)] /\ late'[Req(d)] = late[Req(d)]
           /\ result'[Req(d)] = result[Req(d)]
  PROVE  Within(d)'
BY DEF Within, Spent, Due, Req

(* A request is settled as long as its counters and its answer stay. *)
LEMMA SettledKept ==
  ASSUME \A r \in Requests : Settled(r),
         \A d \in Callers : call'[d].n = call[d].n,
         served' = served, late' = late, result' = result
  PROVE  \A r \in Requests : Settled(r)'
BY DEF Settled, Spent, Requests

(* The peer answers the call that holds the connection. *)
LEMMA Holder ==
  ASSUME IInv, NEW x \in Open, PeerAnswers(x)
  PROVE  \E c \in Callers :
           /\ call[c].conn = x /\ x # None /\ call[c].at = "receive"
           /\ conn[x].out = <<Req(c)>> /\ conn[x].inb = <<>> /\ Req(c) \in Requests
           /\ served' = [served EXCEPT ![Req(c)] = @ + 1]
           /\ conn' = [conn EXCEPT ![x].out = <<>>, ![x].inb = <<Req(c)>>]
<1>1. ~Empty(x)
  BY DEF PeerAnswers, Empty
<1>2. PICK c \in Callers : call[c].conn = x /\ x # None
  BY <1>1, QueueFacts DEF IInv, Owned, Covered, Clean
<1>3. call[c].at = "receive" /\ conn[x].out = <<Req(c)>> /\ conn[x].inb = <<>>
  BY <1>1, <1>2, CallFacts DEF IInv, PeerAnswers, Clean, Fits
<1>4. Head(conn[x].out) = Req(c) /\ Tail(conn[x].out) = <<>> /\ Append(conn[x].inb, Req(c)) = <<Req(c)>>
  BY <1>3, OneMessage
<1>5. served' = [served EXCEPT ![Req(c)] = @ + 1]
  BY <1>4 DEF PeerAnswers
<1>6. conn' = [conn EXCEPT ![x].out = <<>>, ![x].inb = <<Req(c)>>]
  BY <1>4 DEF PeerAnswers
<1>7. Req(c) \in Requests
  BY <1>3, ReqType DEF IInv
<1> QED
  BY <1>2, <1>3, <1>5, <1>6, <1>7

(* At the start nothing has been spent. *)
LEMMA AccountedInit == Init => Accounted
BY RetryPoolConstants DEF Init, Accounted, Within, Settled, Spent, Place, Requests

(* No step spends more than a call has. *)
LEMMA AccountedStep == IInv /\ IInv' /\ Accounted /\ [Next]_vars => Accounted'
<1> SUFFICES ASSUME IInv, IInv', Accounted, [Next]_vars PROVE Accounted'
  OBVIOUS
<1> USE RetryPoolConstants
<1>1. ASSUME NEW c \in Callers, Lookup(c) PROVE Accounted'
  <2>1. \A d \in Callers \ {c} : Within(d)'
    BY <1>1, WithinKept DEF IInv, Typed, Accounted, Lookup
  <2>2. /\ call'[c].at \in {"make", "take"} /\ call'[c].n = call[c].n + 1
        /\ call[c].n \in 0..MaxCalls /\ \A d \in Callers \ {c} : call'[d] = call[d]
    BY <1>1 DEF IInv, Typed, Places, Place, Lookup
  <2>0. call[c].n < MaxCalls /\ served' = served /\ late' = late /\ result' = result
    BY <1>1 DEF Lookup
  <2>3. Req(c)' = <<c, call[c].n + 1>> /\ Req(c)' \in Requests
    BY <2>0, <2>2 DEF Req, Requests
  <2>4. Spent(Req(c)') = 0 /\ result[Req(c)'] = None
    BY <2>2, <2>3 DEF Accounted, Settled
  <2>5. Within(c)'
    BY <2>0, <2>2, <2>4 DEF Within, Spent
  <2>6. \A r \in Requests : Settled(r)'
    <3> TAKE r \in Requests
    <3>1. r[1] \in Callers /\ r[2] \in Nat /\ (call'[r[1]].n > call[r[1]].n \/ call'[r[1]].n = call[r[1]].n)
      BY <2>2 DEF Requests
    <3>2. call[r[1]].n \in Nat /\ call'[r[1]].n \in Nat
      BY <2>2, <3>1 DEF IInv, Typed, Places
    <3> QED
      BY <2>0, <3>1, <3>2 DEF Accounted, Settled, Spent
  <2> QED
    BY <2>1, <2>5, <2>6 DEF Accounted
<1>13. ASSUME NEW c \in Callers, Make(c) \/ Fetch(c) PROVE Accounted'
  <2>1. /\ call'[c].at \in {"fetch", "take", "ready"} /\ call'[c].n = call[c].n
        /\ \A d \in Callers \ {c} : call'[d] = call[d]
    <3>1. CASE Make(c)
      BY <3>1 DEF IInv, Typed, Places, Make
    <3>2. CASE Fetch(c) /\ table # 0
      BY <3>2 DEF IInv, Typed, Place, Fetch
    <3>3. CASE Fetch(c) /\ table = 0
      BY <3>3 DEF IInv, Typed, Place, Fetch, Done
    <3> QED
      BY <1>13, <3>1, <3>2, <3>3
  <2>2. served' = served /\ late' = late /\ conn' = conn /\ Req(c)' = Req(c)
    BY <1>13, <2>1 DEF Make, Fetch, Req
  <2>3. Req(c) \in Requests /\ Spent(Req(c)) = 0 /\ result[Req(c)] = None
    BY <1>13, ReqType DEF IInv, Accounted, Within, Make, Fetch
  <2>4. \A r \in Requests \ {Req(c)} : result'[r] = result[r]
    BY <1>13 DEF IInv, Typed, Make, Fetch
  <2>5. result'[Req(c)] \in {None, KeyError} /\ (call'[c].at # "ready" => result'[Req(c)] = None)
    BY <1>13, <2>3 DEF IInv, Typed, Place, Make, Fetch, Done
  <2>6. \A d \in Callers \ {c} : Within(d)'
    <3> TAKE d \in Callers \ {c}
    <3>1. call[d].at # "ready" => result'[Req(d)] = result[Req(d)]
      BY <2>4, OwnRequests, ReqType DEF IInv
    <3> QED
      BY <2>1, <2>2, <3>1, WithinKept DEF Accounted
  <2>7. Within(c)'
    BY <2>1, <2>2, <2>3, <2>5 DEF Within, Spent
  <2>8. \A r \in Requests : Settled(r)'
    <3> TAKE r \in Requests
    <3>1. \A d \in Callers : call'[d].n = call[d].n
      BY <2>1
    <3>2. CASE r = Req(c)
      <4>1. Spent(r)' = 0 /\ result'[r] \in {None, KeyError}
        BY <2>2, <2>3, <2>5, <3>2 DEF Spent
      <4>2. ~(r[2] > call'[r[1]].n)
        BY <3>1, <3>2 DEF Req, IInv, Typed, Places
      <4> QED
        BY <4>1, <4>2 DEF Settled
    <3>3. CASE r # Req(c)
      BY <2>2, <2>4, <3>1, <3>3 DEF Accounted, Settled, Spent, Requests
    <3> QED
      BY <3>2, <3>3
  <2> QED
    BY <2>6, <2>7, <2>8 DEF Accounted
<1>2. ASSUME NEW c \in Callers, Take(c) PROVE Accounted'
  <2>1. \A d \in Callers \ {c} : Within(d)'
    BY <1>2, WithinKept DEF IInv, Typed, Accounted, Take
  <2>2. call'[c].n = call[c].n /\ \A d \in Callers \ {c} : call'[d] = call[d]
    BY <1>2 DEF IInv, Typed, Places, Take, Place
  <2>3. call'[c].at \in {"open", "send"} /\ Req(c)' = Req(c)
    BY <1>2, <2>2 DEF IInv, Typed, Req, Take, Place
  <2>4. Spent(Req(c)) = 0 /\ result[Req(c)] = None
    BY <1>2 DEF Take, Accounted, Within
  <2>5. Within(c)'
    BY <1>2, <2>3, <2>4 DEF Within, Spent, Take
  <2>6. \A r \in Requests : Settled(r)'
    BY <1>2, <2>2 DEF Accounted, Settled, Spent, Requests, Take
  <2> QED
    BY <2>1, <2>5, <2>6 DEF Accounted
<1>3. ASSUME NEW q \in 1..MaxQueues, Drain(q) PROVE Accounted'
  <2>1. PICK x \in idle[q] : conn' = Closed({x})
    BY <1>3 DEF Drain
  <2>2. \A d \in Callers : call[d].conn # x
    BY DEF IInv, Owned, Disjoint
  <2>3. \A y \in Open \ {x} : conn'[y] = conn[y]
    BY <2>1 DEF Closed
  <2>4. \A d \in Callers : call[d].at = "receive" => conn'[call[d].conn] = conn[call[d].conn]
    BY <2>2, <2>3, CallFacts DEF IInv, Owned, Disjoint
  <2>5. \A d \in Callers : Within(d)'
    BY <1>3, <2>4, WithinKept DEF Accounted, Drain
  <2> QED
    BY <1>3, <2>5 DEF Accounted, Settled, Spent, Drain
<1>4. ASSUME NEW c \in Callers, Connect(c) PROVE Accounted'
  <2>1. \A d \in Callers \ {c} : call'[d] = call[d]
    BY <1>4 DEF IInv, Typed, Connect, Done
  <2>2. call'[c].n = call[c].n /\ Req(c)' = Req(c)
    BY <1>4 DEF IInv, Typed, Connect, Done, Place, Req
  <2>3. \A y \in Open : conn'[y] = conn[y]
    BY <1>4 DEF Connect
  <2>4. \A d \in Callers \ {c} : Within(d)'
    <3> TAKE d \in Callers \ {c}
    <3>1. call[d].at = "receive" => conn'[call[d].conn] = conn[call[d].conn]
      BY <2>3, CallFacts DEF IInv, Owned, Disjoint
    <3> QED
      BY <1>4, <2>1, <3>1, WithinKept DEF Accounted, Connect
  <2>5. call'[c].at \in {"send", "ready"} /\ ~call'[c].reused
    BY <1>4 DEF IInv, Typed, Connect, Done, Place
  <2>6. Spent(Req(c)) <= 1 /\ result[Req(c)] = None
    BY <1>4 DEF Accounted, Within, Connect
  <2>7. Within(c)'
    BY <1>4, <2>2, <2>5, <2>6 DEF Within, Spent, Connect
  <2>8. \A r \in Requests : Settled(r)'
    BY <1>4, <2>1, <2>2, SettledKept DEF Accounted, Connect
  <2> QED
    BY <2>4, <2>7, <2>8 DEF Accounted
<1>5. ASSUME NEW c \in Callers, Send(c) PROVE Accounted'
  <2>0. PICK x : x = call[c].conn
    OBVIOUS
  <2>1. x \in Open /\ x # None /\ Empty(x) /\ Req(c) \in Requests
    BY <1>5, <2>0, CallFacts, ReqType DEF Send, IInv, Clean, Fits, Owned, Disjoint
  <2>2. \A d \in Callers \ {c} : call'[d] = call[d]
    BY <1>5 DEF IInv, Typed, Send
  <2>3. /\ call'[c].at = "receive" /\ call'[c].conn = x /\ call'[c].n = call[c].n
        /\ call'[c].reused = call[c].reused /\ Req(c)' = Req(c)
    BY <1>5, <2>0 DEF IInv, Typed, Places, Send, Req
  <2>4. \A y \in Open \ {x} : conn'[y] = conn[y]
    BY <1>5, <2>0 DEF IInv, Typed, Send
  <2>5. \A d \in Callers \ {c} : Within(d)'
    <3> TAKE d \in Callers \ {c}
    <3>1. call[d].conn # x
      BY <2>0, <2>1 DEF IInv, Owned, Disjoint
    <3>2. call[d].at = "receive" => conn'[call[d].conn] = conn[call[d].conn]
      BY <2>4, <3>1, CallFacts DEF IInv, Owned, Disjoint
    <3> QED
      BY <1>5, <2>2, <3>2, WithinKept DEF Accounted, Send
  <2>6. conn'[x].inb = <<>>
    BY <1>5, <2>0, <2>1 DEF IInv, Typed, Wires, Empty, Send
  <2>7. Due(c)' \in {0, 1}
    BY DEF Due
  <2>8. Spent(Req(c)) <= (IF call[c].reused THEN 0 ELSE 1) /\ result[Req(c)] = None
    BY <1>5 DEF Accounted, Within, Send
  <2>9. Spent(Req(c))' = Spent(Req(c)) /\ Spent(Req(c)) \in Nat /\ result' = result
    BY <1>5, <2>1, <2>3, Counters DEF IInv, Spent, Send
  <2>10. Within(c)'
    BY <2>3, <2>6, <2>7, <2>8, <2>9 DEF Within
  <2>11. \A r \in Requests : Settled(r)'
    BY <1>5, <2>2, <2>3, SettledKept DEF Accounted, Send
  <2> QED
    BY <2>5, <2>10, <2>11 DEF Accounted
<1>6. ASSUME NEW c \in Callers, Receive(c) PROVE Accounted'
  <2>0. PICK x : x = call[c].conn
    OBVIOUS
  <2>1. x \in Open /\ x # None /\ Req(c) \in Requests
    BY <1>6, <2>0, CallFacts, ReqType DEF Receive, IInv, Owned, Disjoint
  <2>2. \A d \in Callers \ {c} : call'[d] = call[d]
    BY <1>6 DEF IInv, Typed, Receive, Done
  <2>3. call'[c].at = "ready" /\ call'[c].n = call[c].n
    BY <1>6 DEF IInv, Typed, Receive, Done, Place
  <2>4. \A y \in Open \ {x} : conn'[y] = conn[y]
    BY <1>6, <2>0 DEF IInv, Typed, Receive, Closed, Open
  <2>5. \A r \in Requests \ {Req(c)} : result'[r] = result[r]
    BY <1>6 DEF IInv, Typed, Receive
  <2>6. \A d \in Callers \ {c} : Within(d)'
    <3> TAKE d \in Callers \ {c}
    <3>1. call[d].conn # x
      BY <2>0, <2>1 DEF IInv, Owned, Disjoint
    <3>2. call[d].at = "receive" => conn'[call[d].conn] = conn[call[d].conn]
      BY <2>4, <3>1, CallFacts DEF IInv, Owned, Disjoint
    <3>3. call[d].at # "ready" => result'[Req(d)] = result[Req(d)]
      BY <2>5, OwnRequests, ReqType DEF IInv
    <3> QED
      BY <1>6, <2>2, <3>2, <3>3, WithinKept DEF Accounted, Receive
  <2>7. Within(c)'
    BY <2>3 DEF Within
  <2>8. served[Req(c)] > 0
    BY <1>6 DEF Accounted, Within, Receive
  <2>9. \A r \in Requests : Settled(r)'
    <3> TAKE r \in Requests
    <3>1. \A d \in Callers : call'[d].n = call[d].n
      BY <2>2, <2>3
    <3>2. CASE r = Req(c)
      <4>1. conn[x].inb = <<Req(c)>>
        BY <1>6, <2>0 DEF IInv, Receive, Clean, Fits, Empty
      <4>2. result'[r] = Req(c)
        BY <1>6, <2>0, <2>1, <3>2, <4>1, OneMessage DEF IInv, Typed, Receive
      <4>3. result'[r] # KeyError /\ served' = served /\ late' = late
        BY <1>6, <2>1, <4>2 DEF Requests, Receive
      <4>4. ~(r[2] > call'[r[1]].n)
        BY <2>3, <3>2 DEF Req, IInv, Typed, Places
      <4>5. Spent(r)' = Spent(r) /\ Spent(r) <= 2
        BY <4>3 DEF Spent, Accounted, Settled
      <4> QED
        BY <2>8, <3>2, <4>3, <4>4, <4>5 DEF Settled
    <3>3. CASE r # Req(c)
      BY <1>6, <2>5, <3>1, <3>3 DEF Accounted, Settled, Spent, Requests, Receive
    <3> QED
      BY <3>2, <3>3
  <2> QED
    BY <2>6, <2>7, <2>9 DEF Accounted
<1>7. ASSUME NEW c \in Callers, Breaks(c) PROVE Accounted'
  <2>0. PICK x : x = call[c].conn
    OBVIOUS
  <2>1. x \in Open /\ x # None /\ Req(c) \in Requests
    BY <1>7, <2>0, CallFacts, ReqType DEF Breaks, IInv, Owned, Disjoint
  <2>2. \A d \in Callers \ {c} : call'[d] = call[d]
    BY <1>7 DEF IInv, Typed, Breaks, Done
  <2>3. /\ call'[c].at = "ready" \/ (call[c].reused /\ call'[c].at = "open")
        /\ call'[c].n = call[c].n /\ Req(c)' = Req(c)
    <3>1. CASE call' = Done(c)
      <4>1. call' = [call EXCEPT ![c] = Place("ready", call[c].n, 0, None, FALSE)]
        BY <3>1 DEF Done
      <4>2. call'[c] = Place("ready", call[c].n, 0, None, FALSE)
        BY <4>1 DEF IInv, Typed
      <4>3. call'[c].at = "ready" /\ call'[c].n = call[c].n
        BY <4>2 DEF Place
      <4> QED
        BY <4>3 DEF Req
    <3>2. CASE Again(c) /\ call' = [call EXCEPT ![c] = Place("open", @.n, @.q, None, FALSE)]
      BY <3>2 DEF IInv, Typed, Again, Place, Req
    <3> QED
      BY <1>7, <3>1, <3>2 DEF Breaks
  <2>4. \A y \in Open \ {x} : conn'[y] = conn[y]
    BY <1>7, <2>0 DEF Breaks, GaveUp, Closed
  <2>5. \A r \in Requests \ {Req(c)} : late'[r] = late[r]
    BY <1>7 DEF IInv, Typed, Breaks, GaveUp
  <2>6. late'[Req(c)] = late[Req(c)] + Due(c)
    BY <1>7, <2>1, Counters DEF IInv, Typed, Breaks, GaveUp, Due
  <2>7. \A d \in Callers \ {c} : Within(d)'
    <3> TAKE d \in Callers \ {c}
    <3>1. call[d].conn # x
      BY <2>0, <2>1 DEF IInv, Owned, Disjoint
    <3>2. call[d].at = "receive" => conn'[call[d].conn] = conn[call[d].conn]
      BY <2>4, <3>1, CallFacts DEF IInv, Owned, Disjoint
    <3>3. call[d].at # "ready" => late'[Req(d)] = late[Req(d)]
      BY <2>5, OwnRequests, ReqType DEF IInv
    <3> QED
      BY <1>7, <2>2, <3>2, <3>3, WithinKept DEF Accounted, Breaks
  <2>8. Spent(Req(c)) + Due(c) <= (IF call[c].reused THEN 1 ELSE 2) /\ result[Req(c)] = None
    <3>1. Spent(Req(c)) \in Nat /\ Due(c) \in {0, 1}
      BY <2>1, Counters DEF IInv, Due
    <3>2. call[c].at = "send" => Due(c) = 0
      BY DEF IInv, Clean, Fits, Empty, Due
    <3> QED
      BY <1>7, <3>1, <3>2 DEF Accounted, Within, Breaks
  <2>9. /\ Spent(Req(c))' = Spent(Req(c)) + Due(c)
        /\ Spent(Req(c))' \in Nat /\ served' = served /\ result' = result
    <3>1. Spent(Req(c))' = served'[Req(c)] + late'[Req(c)] /\ served' = served /\ result' = result
      BY <1>7, <2>3 DEF Spent, Breaks
    <3> QED
      BY <2>1, <2>6, <3>1, Counters DEF IInv, Spent, Due
  <2>10. Within(c)'
    BY <2>3, <2>8, <2>9 DEF Within
  <2>11. \A r \in Requests : Settled(r)'
    <3> TAKE r \in Requests
    <3>1. \A d \in Callers : call'[d].n = call[d].n
      BY <2>2, <2>3
    <3>2. CASE r = Req(c)
      <4>1. Spent(r)' <= 2
        BY <2>3, <2>8, <2>9, <3>2
      <4>2. ~(r[2] > call'[r[1]].n)
        BY <2>3, <3>2 DEF Req, IInv, Typed, Places
      <4>3. result'[r] = None
        BY <2>8, <2>9, <3>2
      <4> QED
        BY <4>1, <4>2, <4>3 DEF Settled
    <3>3. CASE r # Req(c)
      BY <2>5, <2>9, <3>1, <3>3 DEF Accounted, Settled, Spent, Requests
    <3> QED
      BY <3>2, <3>3
  <2> QED
    BY <2>7, <2>10, <2>11 DEF Accounted
<1>8. ASSUME ClosePeer PROVE Accounted'
  BY <1>8 DEF Accounted, Within, Settled, Spent, Due, Req, ClosePeer
<1>9. ASSUME NEW x \in Open, PeerAnswers(x) PROVE Accounted'
  <2>1. PICK c \in Callers :
          /\ call[c].conn = x /\ x # None /\ call[c].at = "receive"
          /\ conn[x].out = <<Req(c)>> /\ conn[x].inb = <<>> /\ Req(c) \in Requests
          /\ served' = [served EXCEPT ![Req(c)] = @ + 1]
          /\ conn' = [conn EXCEPT ![x].out = <<>>, ![x].inb = <<Req(c)>>]
    BY <1>9, Holder
  <2>2. call' = call /\ late' = late /\ result' = result /\ Req(c)' = Req(c)
    BY <1>9 DEF PeerAnswers, Req
  <2>3. \A r \in Requests \ {Req(c)} : served'[r] = served[r]
    BY <2>1 DEF IInv, Typed
  <2>4. \A d \in Callers \ {c} : Within(d)'
    <3> TAKE d \in Callers \ {c}
    <3>1. call[d].conn # x
      BY <2>1 DEF IInv, Owned, Disjoint
    <3>2. call[d].at = "receive" => conn'[call[d].conn] = conn[call[d].conn]
      BY <2>1, <3>1, CallFacts DEF IInv, Typed, Owned, Disjoint
    <3>3. call[d].at # "ready" => served'[Req(d)] = served[Req(d)]
      BY <2>3, OwnRequests, ReqType DEF IInv
    <3> QED
      BY <2>2, <3>2, <3>3, WithinKept DEF Accounted
  <2>5. served'[Req(c)] = served[Req(c)] + 1 /\ served[Req(c)] \in Nat /\ late[Req(c)] \in Nat
    BY <2>1 DEF IInv, Typed
  <2>6. Due(c) = 1 /\ Due(c)' = 0
    <3>1. conn'[x].out = <<>>
      BY <2>1 DEF IInv, Typed, Wires
    <3> QED
      BY <2>1, <2>2, <3>1, OneMessage DEF Due
  <2>7. Spent(Req(c))' = Spent(Req(c)) + Due(c) /\ Spent(Req(c)) \in Nat
    BY <2>2, <2>5, <2>6 DEF Spent
  <2>8. Spent(Req(c)) + Due(c) <= (IF call[c].reused THEN 1 ELSE 2) /\ result[Req(c)] = None
    BY <2>1 DEF Accounted, Within
  <2>9. Within(c)'
    BY <2>1, <2>2, <2>5, <2>6, <2>7, <2>8 DEF Within
  <2>10. \A r \in Requests : Settled(r)'
    <3> TAKE r \in Requests
    <3>1. CASE r = Req(c)
      <4>1. Spent(r)' <= 2
        BY <2>2, <2>6, <2>7, <2>8, <3>1
      <4>2. ~(r[2] > call'[r[1]].n)
        BY <2>2, <3>1 DEF Req, IInv, Typed, Places
      <4>3. result'[r] = None
        BY <2>2, <2>8, <3>1
      <4> QED
        BY <4>1, <4>2, <4>3 DEF Settled
    <3>2. CASE r # Req(c)
      BY <2>2, <2>3, <3>2 DEF Accounted, Settled, Spent
    <3> QED
      BY <3>1, <3>2
  <2> QED
    BY <2>4, <2>9, <2>10 DEF Accounted
<1>10. ASSUME NEW x \in Open, PeerCloses(x) PROVE Accounted'
  <2>1. PICK k \in 0..Len(conn[x].inb) :
          conn' = [conn EXCEPT ![x] = [out |-> <<>>, inb |-> SubSeq(@.inb, 1, k), eof |-> TRUE]]
    BY <1>10 DEF PeerCloses
  <2>2. call' = call /\ served' = served /\ late' = late /\ result' = result
    BY <1>10 DEF PeerCloses
  <2>3. conn'[x].out = <<>> /\ (conn[x].inb = <<>> => conn'[x].inb = <<>>)
    <3>1. conn'[x].out = <<>> /\ conn'[x].inb = SubSeq(conn[x].inb, 1, k)
      BY <2>1 DEF IInv, Typed
    <3>2. conn[x].inb = <<>> => SubSeq(conn[x].inb, 1, k) = <<>>
      BY OneMessage
    <3> QED
      BY <3>1, <3>2
  <2>4. ASSUME NEW d \in Callers PROVE Within(d)'
    <3>1. CASE call[d].conn = x /\ call[d].at = "receive"
      <4>1. Due(d)' = 0 /\ Due(d) \in {0, 1}
        BY <2>2, <2>3, <3>1 DEF Due
      <4>2. Req(d) \in Requests /\ Spent(Req(d)) \in Nat /\ Spent(Req(d))' = Spent(Req(d)) /\ Req(d)' = Req(d)
        BY <2>2, <3>1, ReqType, Counters DEF IInv, Spent, Req
      <4> QED
        BY <2>2, <2>3, <3>1, <4>1, <4>2 DEF Accounted, Within
    <3>2. CASE ~(call[d].conn = x /\ call[d].at = "receive")
      <4>1. call[d].at = "receive" => conn'[call[d].conn] = conn[call[d].conn]
        BY <2>1, <3>2, CallFacts DEF IInv, Typed, Owned, Disjoint
      <4> QED
        BY <2>2, <4>1, WithinKept DEF Accounted
    <3> QED
      BY <3>1, <3>2
  <2> QED
    BY <2>2, <2>4 DEF Accounted, Settled, Spent
<1>11. ASSUME NEW r \in Requests, PeerServesLate(r) PROVE Accounted'
  <2>1. call' = call /\ conn' = conn /\ result' = result
    BY <1>11 DEF PeerServesLate
  <2>2. \A s \in Requests : Spent(s)' = Spent(s) /\ served'[s] >= served[s]
    <3> TAKE s \in Requests
    <3>1. late[s] \in Nat /\ served[s] \in Nat
      BY Counters DEF IInv
    <3>2. CASE s = r
      <4>1. late'[s] = late[s] - 1 /\ served'[s] = served[s] + 1
        BY <1>11, <3>2 DEF IInv, Typed, PeerServesLate
      <4> QED
        BY <3>1, <4>1 DEF Spent
    <3>3. CASE s # r
      <4>1. late'[s] = late[s] /\ served'[s] = served[s]
        BY <1>11, <3>3 DEF IInv, Typed, PeerServesLate
      <4> QED
        BY <3>1, <4>1 DEF Spent
    <3> QED
      BY <3>2, <3>3
  <2>3. \A s \in Requests : served[s] \in Nat /\ served'[s] \in Nat
    BY Counters DEF IInv, Typed
  <2>4. ASSUME NEW d \in Callers PROVE Within(d)'
    <3>1. Req(d)' = Req(d) /\ Due(d)' = Due(d)
      BY <2>1 DEF Req, Due
    <3>2. call[d].at # "ready" => Req(d) \in Requests
      BY ReqType DEF IInv
    <3> QED
      BY <2>1, <2>2, <2>3, <2>4, <3>1, <3>2 DEF Accounted, Within
  <2>5. \A s \in Requests : Settled(s)'
    BY <2>1, <2>2, <2>3 DEF Accounted, Settled
  <2> QED
    BY <2>4, <2>5 DEF Accounted
<1>12. CASE UNCHANGED vars
  BY <1>12 DEF Accounted, Within, Settled, Spent, Due, Req, vars
<1> QED
  BY <1>1, <1>2, <1>3, <1>4, <1>5, <1>6, <1>7, <1>8, <1>9, <1>10, <1>11, <1>12, <1>13, StepsAre DEF IInv, Locates

-----------------------------------------------------------------------------
(* What a caller sees of a request changes only with its call or answer. *)
LEMMA PhaseKept ==
  ASSUME NEW r \in Requests, call'[r[1]].n = call[r[1]].n,
         r[2] = call[r[1]].n => (call'[r[1]].at = "ready" <=> call[r[1]].at = "ready"),
         result'[r] = result[r]
  PROVE  Phase(r)' = Phase(r)
BY DEF Phase

LEMMA PhasesKept ==
  ASSUME \A r \in Requests : Phase(r)' = Phase(r), served' = served
  PROVE  UNCHANGED Promise!vars
BY DEF Promise!vars

(* One request moves on and the others stay. *)
LEMMA PhaseMoves ==
  ASSUME NEW r \in Requests, NEW from, NEW to,
         Phase(r) = from, Phase(r)' = to,
         \A s \in Requests \ {r} : Phase(s)' = Phase(s)
  PROVE  Promise!Move(r, from, to)
BY DEF Promise!Move

(* The request of a call is open as long as the call lasts. *)
LEMMA OpenCall ==
  ASSUME IInv, NEW c \in Callers, call[c].at # "ready"
  PROVE  Req(c) \in Requests /\ Phase(Req(c)) = "open"
BY ReqType DEF IInv, Typed, Places, Phase, Req

(* A call that ends moves its request, and no other, to the end that the   *)
(* result says.                                                            *)
LEMMA CallEnds ==
  ASSUME IInv, NEW c \in Callers, call[c].at # "ready", call' = Done(c),
         \A r \in Requests \ {Req(c)} : result'[r] = result[r]
  PROVE  /\ result'[Req(c)] = None => Promise!Move(Req(c), "open", "failed")
         /\ result'[Req(c)] = KeyError => Promise!Move(Req(c), "open", "raised")
         /\ result'[Req(c)] \notin {None, KeyError} => Promise!Move(Req(c), "open", "answered")
<1>1. Req(c) \in Requests /\ Phase(Req(c)) = "open"
  BY OpenCall
<1>2. call'[c].n = call[c].n /\ call'[c].at = "ready" /\ \A d \in Callers \ {c} : call'[d] = call[d]
  BY DEF IInv, Typed, Done, Place
<1>3. \A s \in Requests \ {Req(c)} : Phase(s)' = Phase(s)
  <2> TAKE s \in Requests \ {Req(c)}
  <2>1. s[1] \in Callers /\ s = <<s[1], s[2]>>
    BY DEF Requests
  <2>2. s[1] = c => s[2] # call[c].n
    BY <2>1 DEF Req
  <2> QED
    BY <1>2, <2>1, <2>2, PhaseKept
<1>4. Phase(Req(c))' = IF result'[Req(c)] = None THEN "failed"
                       ELSE IF result'[Req(c)] = KeyError THEN "raised" ELSE "answered"
  <2>1. Req(c)' = Req(c) /\ Req(c)[1] = c /\ Req(c)[2] = call[c].n /\ call[c].n \in Nat
    BY <1>2 DEF Req, IInv, Typed, Places
  <2> QED
    BY <1>2, <2>1 DEF Phase
<1>5. Req(c)' = Req(c)
  BY <1>2 DEF Req
<1> DEFINE r == Req(c)
<1>6. PICK rr : rr = r
  OBVIOUS
<1>7. Phase(rr)' = IF result'[rr] = None THEN "failed"
                   ELSE IF result'[rr] = KeyError THEN "raised" ELSE "answered"
  BY <1>4, <1>5, <1>6 DEF Phase
<1> QED
  BY <1>1, <1>3, <1>6, <1>7, PhaseMoves, RetryPoolConstants

(* Each step of the pool is a step of the promise, or none. *)
LEMMA PromiseStep ==
  IInv /\ Accounted /\ [Next]_vars => [Promise!Next]_(Promise!vars)
<1> SUFFICES ASSUME IInv, Accounted, [Next]_vars PROVE Promise!Next \/ UNCHANGED Promise!vars
  OBVIOUS
<1> USE RetryPoolConstants
<1>1. ASSUME NEW c \in Callers, Lookup(c) PROVE Promise!Next
  <2>1. PICK r : r = <<c, call[c].n + 1>>
    OBVIOUS
  <2>2. call[c].n \in Nat /\ call'[c].n = call[c].n + 1 /\ call'[c].at # "ready" /\ call[c].at = "ready"
    BY <1>1 DEF IInv, Typed, Places, Place, Lookup
  <2>3. \A d \in Callers \ {c} : call'[d] = call[d]
    BY <1>1 DEF IInv, Typed, Lookup
  <2>4. r \in Requests /\ r[1] = c /\ r[2] = call[c].n + 1
    BY <1>1, <2>1, <2>2 DEF Requests, Lookup
  <2>5. Phase(r) = "new" /\ Phase(r)' = "open"
    BY <2>2, <2>4 DEF Phase
  <2>6. \A s \in Requests \ {r} : Phase(s)' = Phase(s)
    <3> TAKE s \in Requests \ {r}
    <3>1. s[1] \in Callers /\ s[2] \in Nat /\ s = <<s[1], s[2]>> /\ result' = result
      BY <1>1 DEF Requests, Lookup
    <3>2. CASE s[1] = c
      <4>1. s[2] # call[c].n + 1
        BY <2>1, <3>1, <3>2
      <4> QED
        BY <2>2, <3>1, <3>2, <4>1 DEF Phase
    <3>3. CASE s[1] # c
      BY <2>3, <3>1, <3>3, PhaseKept
    <3> QED
      BY <3>2, <3>3
  <2>7. Promise!Execute(r)
    BY <1>1, <2>4, <2>5, <2>6, PhaseMoves DEF Promise!Execute, Lookup
  <2> QED
    BY <2>4, <2>7 DEF Promise!Next
<1>2. ASSUME \A c \in Callers : call'[c].n = call[c].n /\ (call'[c].at = "ready" <=> call[c].at = "ready"),
             result' = result, served' = served
      PROVE  UNCHANGED Promise!vars
  <2>1. \A r \in Requests : r[1] \in Callers
    BY DEF Requests
  <2> QED
    BY <1>2, <2>1, PhaseKept, PhasesKept
<1>3. ASSUME NEW c \in Callers, Make(c) \/ Take(c) \/ Send(c) PROVE UNCHANGED Promise!vars
  <2>1. call'[c].n = call[c].n /\ call'[c].at # "ready" /\ call[c].at # "ready"
    BY <1>3 DEF IInv, Typed, Places, Place, Make, Take, Send
  <2>2. \A d \in Callers \ {c} : call'[d] = call[d]
    BY <1>3 DEF IInv, Typed, Make, Take, Send
  <2> QED
    BY <1>2, <1>3, <2>1, <2>2 DEF Make, Take, Send
<1>13. ASSUME NEW c \in Callers, Fetch(c) PROVE Promise!Next \/ UNCHANGED Promise!vars
  <2>1. CASE table = 0
    <3>1. call' = Done(c) /\ result' = [result EXCEPT ![Req(c)] = KeyError] /\ served' = served
      BY <1>13, <2>1 DEF Fetch
    <3>2. Req(c) \in Requests /\ served[Req(c)] = 0
      BY <1>13, ReqType, Counters DEF Fetch, IInv, Accounted, Within, Spent
    <3>3. result'[Req(c)] = KeyError /\ \A r \in Requests \ {Req(c)} : result'[r] = result[r]
      BY <3>1, <3>2 DEF IInv, Typed
    <3>4. Promise!Raise(Req(c))
      BY <1>13, <3>1, <3>2, <3>3, CallEnds DEF Promise!Raise, Fetch
    <3> QED
      BY <3>2, <3>4 DEF Promise!Next
  <2>2. CASE table # 0
    <3>1. call'[c].n = call[c].n /\ call'[c].at # "ready" /\ call[c].at # "ready"
      BY <1>13, <2>2 DEF IInv, Typed, Places, Place, Fetch
    <3>2. \A d \in Callers \ {c} : call'[d] = call[d]
      BY <1>13, <2>2 DEF IInv, Typed, Fetch
    <3> QED
      BY <1>2, <1>13, <2>2, <3>1, <3>2 DEF Fetch
  <2> QED
    BY <2>1, <2>2
<1>4. ASSUME NEW c \in Callers, Connect(c) PROVE Promise!Next \/ UNCHANGED Promise!vars
  <2>1. CASE call' = Done(c)
    <3>1. result' = result /\ result[Req(c)] = None /\ served' = served
      BY <1>4 DEF Connect, Accounted, Within
    <3>2. Promise!Fail(Req(c))
      BY <1>4, <2>1, <3>1, CallEnds DEF Promise!Fail, Connect
    <3> QED
      BY <1>4, <3>2, OpenCall DEF Promise!Next, Connect
  <2>2. CASE call' # Done(c)
    <3>1. \A d \in Callers : call'[d].n = call[d].n /\ (call'[d].at = "ready" <=> call[d].at = "ready")
      <4>1. call'[c].n = call[c].n /\ call'[c].at # "ready" /\ call[c].at # "ready"
        <5>1. PICK x : call' = [call EXCEPT ![c] = Place("send", call[c].n, call[c].q, x, FALSE)]
          BY <1>4, <2>2 DEF Connect
        <5>2. call'[c] = Place("send", call[c].n, call[c].q, x, FALSE)
          BY <5>1 DEF IInv, Typed
        <5> QED
          BY <1>4, <5>2 DEF Place, Connect
      <4>2. \A d \in Callers \ {c} : call'[d] = call[d]
        BY <1>4, <2>2 DEF IInv, Typed, Connect
      <4> QED
        BY <4>1, <4>2
    <3> QED
      BY <1>2, <1>4, <3>1 DEF Connect
  <2> QED
    BY <2>1, <2>2
<1>5. ASSUME NEW c \in Callers, Receive(c) PROVE Promise!Next
  <2>1. served[Req(c)] > 0 /\ served' = served
    BY <1>5 DEF Accounted, Within, Receive
  <2>2. conn[call[c].conn].inb = <<Req(c)>>
    BY <1>5 DEF IInv, Receive, Clean, Fits, Empty
  <2>3. result' = [result EXCEPT ![Req(c)] = Req(c)]
    BY <1>5, <2>2, OneMessage DEF Receive
  <2>4. Req(c) \in Requests /\ Req(c) \notin {None, KeyError}
    BY <1>5, OpenCall DEF Receive, Requests
  <2>5. result'[Req(c)] \notin {None, KeyError} /\ \A r \in Requests \ {Req(c)} : result'[r] = result[r]
    BY <2>3, <2>4 DEF IInv, Typed
  <2>6. Promise!Succeed(Req(c))
    BY <1>5, <2>1, <2>5, CallEnds DEF Promise!Succeed, Receive
  <2> QED
    BY <2>4, <2>6 DEF Promise!Next
<1>6. ASSUME NEW c \in Callers, Breaks(c) PROVE Promise!Next \/ UNCHANGED Promise!vars
  <2>1. CASE call' = [call EXCEPT ![c] = Place("open", @.n, @.q, None, FALSE)]
    <3>1. \A d \in Callers : call'[d].n = call[d].n /\ (call'[d].at = "ready" <=> call[d].at = "ready")
      BY <1>6, <2>1 DEF IInv, Typed, Places, Place, Breaks
    <3> QED
      BY <1>2, <1>6, <3>1 DEF Breaks
  <2>2. CASE call' = Done(c)
    <3>1. result' = result /\ result[Req(c)] = None /\ served' = served
      BY <1>6 DEF Breaks, Accounted, Within
    <3>2. Promise!Fail(Req(c))
      BY <1>6, <2>2, <3>1, CallEnds DEF Promise!Fail, Breaks
    <3> QED
      BY <1>6, <3>2, OpenCall DEF Promise!Next, Breaks
  <2> QED
    BY <1>6, <2>1, <2>2 DEF Breaks
<1>7. ASSUME NEW q \in 1..MaxQueues, ClosePeer \/ Drain(q) PROVE UNCHANGED Promise!vars
  BY <1>2, <1>7 DEF ClosePeer, Drain
<1>8. ASSUME NEW r \in Requests, call' = call, result' = result,
             Phase(r) \notin {"new", "raised"}, served[r] < 2, served' = [served EXCEPT ![r] = @ + 1]
      PROVE  Promise!Next
  <2>1. \A s \in Requests : Phase(s)' = Phase(s)
    BY <1>8, PhaseKept
  <2>2. Promise!Serve(r)
    BY <1>8, <2>1 DEF Promise!Serve
  <2> QED
    BY <2>2 DEF Promise!Next
<1>9. ASSUME NEW x \in Open, PeerAnswers(x) PROVE Promise!Next
  <2>1. PICK c \in Callers :
          /\ call[c].conn = x /\ call[c].at = "receive"
          /\ conn[x].out = <<Req(c)>> /\ Req(c) \in Requests
          /\ served' = [served EXCEPT ![Req(c)] = @ + 1]
    BY <1>9, Holder
  <2>2. Due(c) = 1
    BY <2>1, OneMessage DEF Due
  <2>3. Spent(Req(c)) + Due(c) <= 2
    BY <2>1, <2>2, Counters DEF IInv, Accounted, Within
  <2>4. served[Req(c)] < 2
    BY <2>1, <2>2, <2>3, Counters DEF IInv, Spent
  <2>5. Phase(Req(c)) = "open"
    BY <2>1, OpenCall
  <2> QED
    BY <1>8, <1>9, <2>1, <2>4, <2>5 DEF PeerAnswers
<1>10. ASSUME NEW x \in Open, PeerCloses(x) PROVE UNCHANGED Promise!vars
  BY <1>2, <1>10 DEF PeerCloses
<1>11. ASSUME NEW r \in Requests, PeerServesLate(r) PROVE Promise!Next
  <2>1. served[r] \in Nat /\ late[r] \in Nat /\ late[r] > 0 /\ Spent(r) <= 2 /\ Spent(r) > 0
    BY <1>11, Counters DEF IInv, PeerServesLate, Accounted, Settled, Spent
  <2>2. served[r] < 2
    BY <2>1 DEF Spent
  <2>3. ~(r[2] > call[r[1]].n) /\ result[r] # KeyError
    BY <2>1 DEF Accounted, Settled
  <2>4. Phase(r) \notin {"new", "raised"}
    BY <2>3 DEF Phase
  <2> QED
    BY <1>8, <1>11, <2>2, <2>4 DEF PeerServesLate
<1>12. CASE UNCHANGED vars
  BY <1>2, <1>12 DEF vars
<1> QED
  <2>1. 1 \in 1..MaxQueues
    OBVIOUS
  <2> QED
    BY <1>1, <1>3, <1>4, <1>5, <1>6, <1>7, <1>9, <1>10, <1>11, <1>12, <1>13, <2>1, StepsAre
       DEF IInv, Locates

(* The pool implements PoolCall with two copies, for any number of         *)
(* callers, calls and connections: execute() ends once, an answer means    *)
(* that the peer served the message, the exception of _queue() (sync.py:51) *)
(* that it was never sent, and the one retry after a broken pooled         *)
(* connection is all that can make the peer serve it again                 *)
(* (sync.py:84-122, async_.py:68-104).                                     *)
THEOREM PromiseKept == Spec => KeepsPromise
<1>1. Init => Promise!Init
  BY RetryPoolConstants DEF Init, Promise!Init, Phase, Place, Requests
<1>2. IInv /\ IInv' /\ Accounted /\ [Next]_vars => Accounted'
  BY AccountedStep
<1>3. IInv /\ Accounted /\ [Next]_vars => [Promise!Next]_(Promise!vars)
  BY PromiseStep
<1> QED
  BY <1>1, <1>2, <1>3, AccountedInit, PoolInvariant, PTL DEF Spec, KeepsPromise, Promise!Spec
=============================================================================

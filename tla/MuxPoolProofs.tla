--------------------------- MODULE MuxPoolProofs ----------------------------
(***************************************************************************)
(* The multiplexed pool (dlstorage/connection_pool/mux.py) for any number  *)
(* of callers, calls, sockets and disturbances: every socket has one       *)
(* owner, answers do not cross, and no wakeup of the selector is lost.     *)
(***************************************************************************)
EXTENDS MuxPool, TLAPS, FiniteSetTheorems, SequenceTheorems

(* A connection carries at most one message in each direction. *)
Box   == {<<>>} \cup {<<r>> : r \in Requests}
Wires == [out : Box, inb : Box, eof : BOOLEAN]

Places == [at : {"ready", "connect", "send", "handOff", "wakeup", "wait"},
           n : 0..MaxCalls, sock : Socks \cup {None}]

(* A caller has a socket while it sends and hands over, and a number from  *)
(* the start of its first call.                                            *)
Consistent(p) ==
  /\ p.sock # None <=> p.at \in {"send", "handOff"}
  /\ p.at # "ready" => p.n # 0

CallsTyped == call \in [Callers -> {p \in Places : Consistent(p)}]

ConnTyped == Open \subseteq Socks /\ conn \in [Open -> Wires]

PairsTyped == regQueue \subseteq Socks \X Requests /\ sel \subseteq Socks \X Requests

(* What the selector thread is about to deliver answers its own request. *)
IoTyped ==
  /\ wake \in BOOLEAN
  /\ io.at \in {"select", "register", "deliver", "gone"}
  /\ io \in [at : {io.at}, req : Requests \cup {None}, msg : Requests \cup {None}]
  /\ io.at = "deliver" => io.req \in Requests /\ io.msg = io.req
  /\ event \subseteq Requests
  /\ result \in [Requests -> Requests \cup {None}]
  /\ closing \in {"no", "joining", "done"}

IdleTyped == idle \subseteq Socks /\ Cardinality(idle) <= MaxPerPeer

Typed == CallsTyped /\ ConnTyped /\ PairsTyped /\ IoTyped /\ IdleTyped

(* OneOwner, said of single sockets: none is lost, none is shared. *)
Pairs == regQueue \cup sel

Covered ==
  \A x \in Open : \/ x \in idle
                  \/ \E c \in Callers : call[c].sock = x
                  \/ \E p \in Pairs : p[1] = x

Disjoint ==
  /\ \A x \in idle : x \in Open
  /\ \A c \in Callers : call[c].sock # None => call[c].sock \in Open /\ call[c].sock \notin idle
  /\ \A p \in Pairs : p[1] \in Open /\ p[1] \notin idle
  /\ \A c, d \in Callers : c # d /\ call[c].sock # None => call[c].sock # call[d].sock
  /\ \A c \in Callers, p \in Pairs : call[c].sock # p[1]
  /\ \A p, q \in Pairs : p[1] = q[1] => p = q
  /\ \A p \in regQueue : p \notin sel

Owned == Covered /\ Disjoint

(* What is on a connection belongs to the request it is held for. *)
Empty(x) == conn[x].out = <<>> /\ conn[x].inb = <<>>

Fits(x, r) ==
  \/ Empty(x)
  \/ conn[x].out = <<r>> /\ conn[x].inb = <<>>
  \/ conn[x].out = <<>> /\ conn[x].inb = <<r>>

Clean ==
  /\ \A x \in idle : Empty(x)
  /\ \A c \in Callers : call[c].at = "send" => Empty(call[c].sock)
  /\ \A c \in Callers : call[c].at = "handOff" => Fits(call[c].sock, Req(c))
  /\ \A p \in Pairs : Fits(p[1], p[2])

IInv == Typed /\ Owned /\ Clean /\ OwnAnswer /\ NoLostWakeup

-----------------------------------------------------------------------------
(* Sequences of one message. *)
LEMMA OneMessage ==
  ASSUME NEW r
  PROVE  /\ <<r>> # <<>> /\ Append(<<>>, r) = <<r>>
         /\ Head(<<r>>) = r /\ Tail(<<r>>) = <<>>
         /\ Len(<<r>>) = 1 /\ Len(<<>>) = 0
         /\ SubSeq(<<r>>, 1, 0) = <<>> /\ SubSeq(<<r>>, 1, 1) = <<r>>
         /\ SubSeq(<<>>, 1, 0) = <<>>
<1>1. <<r>> # <<>> /\ Append(<<>>, r) = <<r>>
  OBVIOUS
<1>2. Head(<<r>>) = r
  OBVIOUS
<1>3. Tail(<<r>>) = <<>>
  OBVIOUS
<1>4. Len(<<r>>) = 1 /\ Len(<<>>) = 0
  OBVIOUS
<1>5. SubSeq(<<r>>, 1, 0) = <<>>
  OBVIOUS
<1>6. SubSeq(<<r>>, 1, 1) = <<r>>
  <2>1. <<r>> \in Seq({r})
    OBVIOUS
  <2> QED
    BY <1>4, <2>1, SubSeqFull
<1>7. SubSeq(<<>>, 1, 0) = <<>>
  OBVIOUS
<1> QED
  BY <1>1, <1>2, <1>3, <1>4, <1>5, <1>6, <1>7

(* The idle pool is finite, and so are the sets made of it. *)
LEMMA IdleCard ==
  ASSUME NEW S \in SUBSET Socks
  PROVE  /\ Cardinality(S) \in Nat
         /\ \A T \in SUBSET S : Cardinality(T) <= Cardinality(S)
         /\ \A x \in Socks : Cardinality(S \cup {x}) <= Cardinality(S) + 1
<1>1. IsFiniteSet(S)
  BY PoolConstants, FS_Subset
<1>2. Cardinality(S) \in Nat
  BY <1>1, FS_CardinalityType
<1>3. \A T \in SUBSET S : Cardinality(T) <= Cardinality(S)
  BY <1>1, FS_Subset
<1>4. \A x \in Socks : Cardinality(S \cup {x}) <= Cardinality(S) + 1
  BY <1>1, <1>2, FS_AddElement
<1> QED
  BY <1>2, <1>3, <1>4

(* What the type says of one caller. *)
LEMMA CallFacts ==
  ASSUME CallsTyped, NEW c \in Callers
  PROVE  /\ call[c].sock \in Socks \cup {None} /\ None \notin Socks
         /\ call[c].sock # None <=> call[c].at \in {"send", "handOff"}
         /\ call[c].n \in 0..MaxCalls
         /\ call[c].at # "ready" => Req(c) \in Requests
BY PoolConstants DEF CallsTyped, Places, Consistent, Req, Requests

(* What a move of one caller does. *)
LEMMA Moves ==
  ASSUME CallsTyped, NEW c \in Callers, NEW at, NEW n, NEW s,
         call' = [call EXCEPT ![c] = Place(at, n, s)]
  PROVE  /\ call'[c].at = at /\ call'[c].n = n /\ call'[c].sock = s
         /\ \A d \in Callers : d # c => call'[d] = call[d]
BY DEF CallsTyped, Place

LEMMA Goes ==
  ASSUME CallsTyped, NEW c \in Callers, NEW at, NEW s, Goto(c, at, s)
  PROVE  /\ call'[c].at = at /\ call'[c].n = call[c].n /\ call'[c].sock = s
         /\ \A d \in Callers : d # c => call'[d] = call[d]
BY DEF CallsTyped, Goto, Place

LEMMA MoveTyped ==
  ASSUME CallsTyped, NEW c \in Callers, NEW at, NEW n \in 0..MaxCalls, NEW s \in Socks \cup {None},
         at \in {"ready", "connect", "send", "handOff", "wakeup", "wait"},
         s # None <=> at \in {"send", "handOff"},
         at # "ready" => n # 0,
         call' = [call EXCEPT ![c] = Place(at, n, s)]
  PROVE  CallsTyped'
<1>1. Place(at, n, s) \in Places /\ Consistent(Place(at, n, s))
  BY DEF Place, Places, Consistent
<1> QED
  BY <1>1 DEF CallsTyped

LEMMA GotoTyped ==
  ASSUME CallsTyped, NEW c \in Callers, NEW at, NEW s \in Socks \cup {None},
         at \in {"ready", "connect", "send", "handOff", "wakeup", "wait"},
         s # None <=> at \in {"send", "handOff"},
         at # "ready" => call[c].at # "ready",
         Goto(c, at, s)
  PROVE  CallsTyped'
<1>1. call[c].n \in 0..MaxCalls /\ (at # "ready" => call[c].n # 0)
  BY DEF CallsTyped, Places, Consistent
<1>2. call' = [call EXCEPT ![c] = Place(at, call[c].n, s)]
  BY DEF Goto
<1> QED
  BY <1>1, <1>2, MoveTyped

-----------------------------------------------------------------------------
(* Initially there are no sockets and no calls. *)
LEMMA InitHolds == Init => IInv
<1> SUFFICES ASSUME Init PROVE IInv
  OBVIOUS
<1>1. CallsTyped
  BY PoolConstants DEF Init, CallsTyped, Place, Places, Consistent
<1>2. ConnTyped /\ PairsTyped
  BY DEF Init, ConnTyped, PairsTyped, Open
<1>3. IoTyped
  BY DEF Init, IoTyped, Selecting
<1>4. IdleTyped
  BY PoolConstants, FS_EmptySet DEF Init, IdleTyped
<1>5. Owned
  BY DEF Init, Owned, Covered, Disjoint, Pairs, Open, Place
<1>6. Clean
  BY DEF Init, Clean, Pairs, Place
<1>7. OwnAnswer /\ NoLostWakeup
  BY DEF Init, OwnAnswer, NoLostWakeup
<1> QED
  BY <1>1, <1>2, <1>3, <1>4, <1>5, <1>6, <1>7 DEF IInv, Typed

-----------------------------------------------------------------------------
(* Each step keeps the type of the calls. *)
LEMMA CallsStep == IInv /\ [Next]_vars => CallsTyped'
<1> SUFFICES ASSUME IInv, [Next]_vars PROVE CallsTyped'
  OBVIOUS
<1>0. CallsTyped /\ IdleTyped
  BY DEF IInv, Typed
<1>1. ASSUME NEW c \in Callers, NEW at, NEW s \in Socks \cup {None}, at \in {"connect", "send"},
             s # None <=> at = "send", Begin(c, at, s)
      PROVE  CallsTyped'
  <2>1. call[c].n + 1 \in 0..MaxCalls /\ call[c].n + 1 # 0
    BY <1>0, <1>1, CallFacts, PoolConstants DEF Begin
  <2>2. call' = [call EXCEPT ![c] = Place(at, call[c].n + 1, s)]
    BY <1>1 DEF Begin
  <2> QED
    BY <1>0, <1>1, <2>1, <2>2, MoveTyped
<1>2. ASSUME NEW c \in Callers, Acquire(c) PROVE CallsTyped'
  <2>1. None \notin Socks /\ idle \subseteq Socks
    BY <1>0, PoolConstants DEF IdleTyped
  <2>2. CASE Begin(c, "connect", None)
    BY <1>1, <2>2
  <2>3. ASSUME NEW s \in idle, Begin(c, "send", s) PROVE CallsTyped'
    <3>1. s \in Socks /\ s # None
      BY <2>1
    <3> QED
      BY <1>1, <2>3, <3>1
  <2> QED
    BY <1>2, <2>2, <2>3 DEF Acquire
<1>3. ASSUME NEW c \in Callers, Connect(c) PROVE CallsTyped'
  <2>1. None \notin Socks
    BY PoolConstants
  <2>2. ASSUME NEW s \in Socks \ Open, Goto(c, "send", s) PROVE CallsTyped'
    BY <1>0, <1>3, <2>1, <2>2, GotoTyped DEF Connect
  <2>3. CASE Goto(c, "ready", None)
    BY <1>0, <2>3, GotoTyped
  <2> QED
    BY <1>3, <2>2, <2>3 DEF Connect
<1>4. ASSUME NEW c \in Callers, Send(c) PROVE CallsTyped'
  <2>1. call[c].at = "send" /\ Goto(c, "handOff", call[c].sock)
    BY <1>4 DEF Send
  <2>2. call[c].sock \in Socks /\ call[c].sock # None
    BY <1>0, <2>1, CallFacts
  <2> QED
    BY <1>0, <2>1, <2>2, GotoTyped
<1>5. ASSUME NEW c \in Callers, HandOff(c) \/ Wakeup(c) PROVE CallsTyped'
  <2>1. call[c].at # "ready" /\ (Goto(c, "wakeup", None) \/ Goto(c, "wait", None))
    BY <1>5 DEF HandOff, Wakeup
  <2> QED
    BY <1>0, <2>1, GotoTyped
<1>6. ASSUME NEW c \in Callers, SendFails(c) \/ Return(c) \/ GiveUp(c) PROVE CallsTyped'
  <2>1. Goto(c, "ready", None)
    BY <1>6 DEF SendFails, Return, GiveUp
  <2> QED
    BY <1>0, <2>1, GotoTyped
<1>7. CASE UNCHANGED call
  BY <1>0, <1>7 DEF CallsTyped
<1>8. ASSUME IoLoop \/ ClosePeer \/ CloseAll \/ CloseRest PROVE UNCHANGED call
  BY <1>8 DEF IoLoop, DrainWakeup, Register, Deliver, Exit, Read, Fail, ClosePeer, CloseAll, CloseRest
<1>9. ASSUME NEW s, PeerAnswers(s) \/ PeerCloses(s) PROVE UNCHANGED call
  BY <1>9 DEF PeerAnswers, PeerCloses
<1>10. UNCHANGED vars => UNCHANGED call
  BY DEF vars
<1> QED
  BY <1>2, <1>3, <1>4, <1>5, <1>6, <1>7, <1>8, <1>9, <1>10 DEF Next, Caller

(* What is in the register queue and in the selector's map was handed over. *)
LEMMA PairsStep == IInv /\ [Next]_vars => PairsTyped'
<1> SUFFICES ASSUME IInv, [Next]_vars PROVE PairsTyped'
  OBVIOUS
<1>0. CallsTyped /\ PairsTyped
  BY DEF IInv, Typed
<1>1. ASSUME NEW c \in Callers, HandOff(c) PROVE PairsTyped'
  <2>1. call[c].sock \in Socks /\ Req(c) \in Requests
    BY <1>0, <1>1, CallFacts DEF HandOff
  <2> QED
    BY <1>0, <1>1, <2>1 DEF HandOff, PairsTyped
<1>2. CASE Register
  BY <1>0, <1>2 DEF Register, PairsTyped
<1>3. ASSUME NEW p \in sel, Read(p[1], p[2]) \/ Fail(p[1], p[2]) PROVE PairsTyped'
  BY <1>0, <1>3 DEF Read, Fail, PairsTyped
<1>4. CASE CloseRest
  BY <1>0, <1>4 DEF CloseRest, PairsTyped
<1>5. CASE UNCHANGED <<regQueue, sel>>
  BY <1>0, <1>5 DEF PairsTyped
<1>6. ASSUME NEW c \in Callers,
             \/ Acquire(c) \/ Connect(c) \/ Send(c) \/ Wakeup(c) \/ Return(c)
             \/ SendFails(c) \/ GiveUp(c)
      PROVE  UNCHANGED <<regQueue, sel>>
  BY <1>6 DEF Acquire, Begin, Connect, Send, Wakeup, Return, SendFails, GiveUp
<1>7. ASSUME DrainWakeup \/ Deliver \/ Exit \/ ClosePeer \/ CloseAll PROVE UNCHANGED <<regQueue, sel>>
  BY <1>7 DEF DrainWakeup, Deliver, Exit, ClosePeer, CloseAll
<1>8. ASSUME NEW s, PeerAnswers(s) \/ PeerCloses(s) PROVE UNCHANGED <<regQueue, sel>>
  BY <1>8 DEF PeerAnswers, PeerCloses
<1>9. UNCHANGED vars => UNCHANGED <<regQueue, sel>>
  BY DEF vars
<1> QED
  BY <1>1, <1>2, <1>3, <1>4, <1>5, <1>6, <1>7, <1>8, <1>9 DEF Next, Caller, IoLoop

(* A registered socket with an answer has the answer to its own request. *)
LEMMA ReadsOwn ==
  ASSUME IInv, NEW p \in sel, Read(p[1], p[2])
  PROVE  /\ p[1] \in Open /\ p[1] \in Socks /\ p[2] \in Requests
         /\ conn[p[1]].out = <<>> /\ conn[p[1]].inb = <<p[2]>>
         /\ Head(conn[p[1]].inb) = p[2] /\ Tail(conn[p[1]].inb) = <<>>
<1>1. p \in Pairs /\ Fits(p[1], p[2])
  BY DEF IInv, Clean, Pairs
<1>2. conn[p[1]].inb # <<>>
  BY DEF Read
<1>3. conn[p[1]].out = <<>> /\ conn[p[1]].inb = <<p[2]>>
  BY <1>1, <1>2 DEF Fits, Empty
<1>4. p[1] \in Open
  BY <1>1 DEF IInv, Owned, Disjoint
<1>5. p[1] \in Socks /\ p[2] \in Requests
  BY DEF IInv, Typed, PairsTyped
<1> QED
  BY <1>3, <1>4, <1>5, OneMessage

(* The selector thread stays in its states, and has the right answer in hand. *)
LEMMA IoStep == IInv /\ [Next]_vars => IoTyped'
<1> SUFFICES ASSUME IInv, [Next]_vars PROVE IoTyped'
  OBVIOUS
<1>0. CallsTyped /\ PairsTyped /\ IoTyped
  BY DEF IInv, Typed
<1>1. ASSUME NEW c \in Callers, Wakeup(c) PROVE IoTyped'
  BY <1>0, <1>1 DEF IoTyped, Wakeup
<1>2. CASE DrainWakeup
  BY <1>0, <1>2 DEF IoTyped, DrainWakeup
<1>3. CASE Register
  BY <1>0, <1>3 DEF IoTyped, Register, Selecting
<1>4. ASSUME NEW p \in sel, Read(p[1], p[2]) PROVE IoTyped'
  <2>1. io' = [at |-> "deliver", req |-> p[2], msg |-> p[2]] /\ p[2] \in Requests
    BY <1>4, ReadsOwn DEF Read
  <2>2. UNCHANGED <<wake, event, result, closing>>
    BY <1>4 DEF Read
  <2> QED
    BY <1>0, <2>1, <2>2 DEF IoTyped
<1>5. CASE Deliver
  BY <1>0, <1>5 DEF IoTyped, Deliver, Selecting
<1>6. ASSUME NEW p \in sel, Fail(p[1], p[2]) PROVE IoTyped'
  <2>1. p[2] \in Requests
    BY <1>0 DEF PairsTyped
  <2> QED
    BY <1>0, <1>6, <2>1 DEF IoTyped, Fail, Woken
<1>7. CASE Exit
  <2>1. event' \subseteq Requests
    BY <1>0, <1>7 DEF PairsTyped, IoTyped, Exit
  <2> QED
    BY <1>0, <1>7, <2>1 DEF IoTyped, Exit
<1>8. CASE CloseAll \/ CloseRest
  BY <1>0, <1>8 DEF IoTyped, CloseAll, CloseRest
<1>9. CASE UNCHANGED <<wake, io, event, result, closing>>
  BY <1>0, <1>9 DEF IoTyped
<1>10. ASSUME NEW c \in Callers,
              \/ Acquire(c) \/ Connect(c) \/ Send(c) \/ HandOff(c) \/ Return(c)
              \/ SendFails(c) \/ GiveUp(c)
       PROVE  UNCHANGED <<wake, io, event, result, closing>>
  BY <1>10 DEF Acquire, Begin, Connect, Send, HandOff, Return, SendFails, GiveUp
<1>11. ClosePeer => UNCHANGED <<wake, io, event, result, closing>>
  BY DEF ClosePeer
<1>12. ASSUME NEW s, PeerAnswers(s) \/ PeerCloses(s) PROVE UNCHANGED <<wake, io, event, result, closing>>
  BY <1>12 DEF PeerAnswers, PeerCloses
<1>13. UNCHANGED vars => UNCHANGED <<wake, io, event, result, closing>>
  BY DEF vars
<1> QED
  BY <1>1, <1>2, <1>3, <1>4, <1>5, <1>6, <1>7, <1>8, <1>9, <1>10, <1>11, <1>12, <1>13
  DEF Next, Caller, IoLoop

(* The idle pool does not grow past max_per_peer. *)
LEMMA IdleStep == IInv /\ [Next]_vars => IdleTyped'
<1> SUFFICES ASSUME IInv, [Next]_vars PROVE IdleTyped'
  OBVIOUS
<1>0. idle \subseteq Socks /\ Cardinality(idle) <= MaxPerPeer /\ Cardinality(idle) \in Nat
  BY IdleCard DEF IInv, Typed, IdleTyped
<1>1. CASE idle' \subseteq idle
  <2>1. Cardinality(idle') <= Cardinality(idle) /\ Cardinality(idle') \in Nat
    BY <1>0, <1>1, IdleCard
  <2> QED
    BY <1>0, <1>1, <2>1, PoolConstants DEF IdleTyped
<1>2. ASSUME NEW p \in sel, Read(p[1], p[2]) PROVE IdleTyped'
  <2>1. p[1] \in Socks
    BY <1>2, ReadsOwn
  <2>2. CASE ~Full /\ idle' = idle \cup {p[1]}
    <3>1. Cardinality(idle') <= Cardinality(idle) + 1 /\ Cardinality(idle') \in Nat /\ idle' \subseteq Socks
      BY <1>0, <2>1, <2>2, IdleCard
    <3>2. Cardinality(idle) < MaxPerPeer
      BY <1>0, <2>2, PoolConstants DEF Full
    <3> QED
      BY <1>0, <3>1, <3>2, PoolConstants DEF IdleTyped
  <2> QED
    BY <1>1, <1>2, <2>2 DEF Read
<1>3. ASSUME NEW c \in Callers, Acquire(c) PROVE idle' \subseteq idle
  BY <1>3 DEF Acquire
<1>4. ASSUME ClosePeer \/ CloseRest PROVE idle' \subseteq idle
  BY <1>4 DEF ClosePeer, CloseRest
<1>5. ASSUME NEW c \in Callers, Caller(c) \/ SendFails(c) \/ GiveUp(c) PROVE UNCHANGED idle
  BY <1>5 DEF Caller, Connect, Send, HandOff, Wakeup, Return, SendFails, GiveUp
<1>6. ASSUME NEW p \in sel, Fail(p[1], p[2]) PROVE UNCHANGED idle
  BY <1>6 DEF Fail
<1>7. ASSUME DrainWakeup \/ Register \/ Deliver \/ Exit \/ CloseAll PROVE UNCHANGED idle
  BY <1>7 DEF DrainWakeup, Register, Deliver, Exit, CloseAll
<1>8. ASSUME NEW s, PeerAnswers(s) \/ PeerCloses(s) PROVE UNCHANGED idle
  BY <1>8 DEF PeerAnswers, PeerCloses
<1>9. UNCHANGED vars => UNCHANGED idle
  BY DEF vars
<1> QED
  BY <1>1, <1>2, <1>3, <1>4, <1>5, <1>6, <1>7, <1>8, <1>9 DEF Next, IoLoop

(* execute() gets its own answer: what is delivered is what was asked. *)
LEMMA OwnAnswerStep == IInv /\ [Next]_vars => OwnAnswer'
<1> SUFFICES ASSUME IInv, [Next]_vars PROVE OwnAnswer'
  OBVIOUS
<1>0. OwnAnswer /\ IoTyped
  BY DEF IInv, Typed
<1>1. CASE Deliver
  BY <1>0, <1>1 DEF Deliver, OwnAnswer, IoTyped
<1>2. CASE UNCHANGED result
  BY <1>0, <1>2 DEF OwnAnswer
<1>3. ASSUME NEW c \in Callers, Acquire(c) \/ Caller(c) \/ SendFails(c) \/ GiveUp(c) PROVE UNCHANGED result
  BY <1>3 DEF Acquire, Begin, Caller, Connect, Send, HandOff, Wakeup, Return, SendFails, GiveUp
<1>4. ASSUME NEW p \in sel, Read(p[1], p[2]) \/ Fail(p[1], p[2]) PROVE UNCHANGED result
  BY <1>4 DEF Read, Fail
<1>5. ASSUME DrainWakeup \/ Register \/ Exit \/ ClosePeer \/ CloseAll \/ CloseRest PROVE UNCHANGED result
  BY <1>5 DEF DrainWakeup, Register, Exit, ClosePeer, CloseAll, CloseRest
<1>6. ASSUME NEW s, PeerAnswers(s) \/ PeerCloses(s) PROVE UNCHANGED result
  BY <1>6 DEF PeerAnswers, PeerCloses
<1>7. UNCHANGED vars => UNCHANGED result
  BY DEF vars
<1> QED
  BY <1>1, <1>2, <1>3, <1>4, <1>5, <1>6, <1>7 DEF Next, IoLoop

(* While something is queued a wakeup is under way. *)
LEMMA WakeupStep == IInv /\ [Next]_vars => NoLostWakeup'
<1> SUFFICES ASSUME IInv, [Next]_vars,
                    regQueue' # {}, closing' # "done", io'.at # "gone",
                    ~wake', io'.at # "register"
             PROVE  \E c \in Callers : call'[c].at = "wakeup"
  BY DEF NoLostWakeup
<1>0. CallsTyped /\ IoTyped
  BY DEF IInv, Typed
<1>1. NoLostWakeup
  BY DEF IInv
<1>2. ASSUME NEW c \in Callers, HandOff(c) PROVE \E d \in Callers : call'[d].at = "wakeup"
  BY <1>0, <1>2, Goes DEF HandOff
<1>3. ASSUME NEW c \in Callers, Wakeup(c) PROVE FALSE
  BY <1>3 DEF Wakeup
<1>4. ASSUME NEW c \in Callers, call[c].at # "wakeup",
             \A d \in Callers : d # c => call'[d] = call[d],
             UNCHANGED <<regQueue, wake, io, closing>>
      PROVE  \E d \in Callers : call'[d].at = "wakeup"
  BY <1>1, <1>4 DEF NoLostWakeup
<1>5. ASSUME NEW c \in Callers, Acquire(c) PROVE \E d \in Callers : call'[d].at = "wakeup"
  <2>1. PICK at, s : Begin(c, at, s)
    BY <1>5 DEF Acquire
  <2>2. call' = [call EXCEPT ![c] = Place(at, call[c].n + 1, s)]
    BY <2>1 DEF Begin
  <2>3. \A d \in Callers : d # c => call'[d] = call[d]
    BY <1>0, <2>2, Moves
  <2> QED
    BY <1>4, <2>1, <2>3 DEF Begin
<1>6. ASSUME NEW c \in Callers, Connect(c) \/ Send(c) \/ SendFails(c) \/ Return(c) \/ GiveUp(c)
      PROVE  \E d \in Callers : call'[d].at = "wakeup"
  <2>1. PICK at, s : Goto(c, at, s)
    BY <1>6 DEF Connect, Send, SendFails, Return, GiveUp
  <2>2. \A d \in Callers : d # c => call'[d] = call[d]
    BY <1>0, <2>1, Goes
  <2>3. call[c].at # "wakeup" /\ UNCHANGED <<regQueue, wake, io, closing>>
    BY <1>6 DEF Connect, Send, SendFails, Return, GiveUp
  <2> QED
    BY <1>4, <2>2, <2>3
<1>7. CASE DrainWakeup
  BY <1>0, <1>7 DEF DrainWakeup, IoTyped
<1>8. CASE Register
  BY <1>8 DEF Register
<1>9. ASSUME UNCHANGED <<call, regQueue, closing>>, wake => wake', io.at \notin {"register", "gone"}
      PROVE  \E d \in Callers : call'[d].at = "wakeup"
  BY <1>1, <1>9 DEF NoLostWakeup
<1>10. ASSUME NEW p \in sel, Read(p[1], p[2]) \/ Fail(p[1], p[2])
       PROVE  \E d \in Callers : call'[d].at = "wakeup"
  BY <1>9, <1>10 DEF Read, Fail
<1>11. CASE Deliver
  BY <1>9, <1>11 DEF Deliver
<1>12. CASE Exit
  BY <1>0, <1>12 DEF Exit, IoTyped
<1>13. CASE CloseAll
  BY <1>13 DEF CloseAll
<1>14. CASE CloseRest
  BY <1>14 DEF CloseRest
<1>15. CASE UNCHANGED <<call, regQueue, closing, wake, io>>
  BY <1>1, <1>15 DEF NoLostWakeup
<1>16. ClosePeer => UNCHANGED <<call, regQueue, closing, wake, io>>
  BY DEF ClosePeer
<1>17. ASSUME NEW s, PeerAnswers(s) \/ PeerCloses(s) PROVE UNCHANGED <<call, regQueue, closing, wake, io>>
  BY <1>17 DEF PeerAnswers, PeerCloses
<1>18. UNCHANGED vars => UNCHANGED <<call, regQueue, closing, wake, io>>
  BY DEF vars
<1> QED
  BY <1>2, <1>3, <1>5, <1>6, <1>7, <1>8, <1>10, <1>11, <1>12, <1>13, <1>14, <1>15, <1>16, <1>17, <1>18
  DEF Next, Caller, IoLoop

-----------------------------------------------------------------------------
(* What the actions do to the connections. *)
LEMMA ClosedFacts ==
  ASSUME NEW S, conn' = Closed(S)
  PROVE  Open' = Open \ S /\ \A x \in Open' : conn'[x] = conn[x]
BY DEF Closed, Open

LEMMA OpenedFacts ==
  ASSUME NEW s, conn' = Opened(s)
  PROVE  /\ Open' = Open \cup {s}
         /\ conn'[s] = [out |-> <<>>, inb |-> <<>>, eof |-> FALSE]
         /\ \A x \in Open : x # s => conn'[x] = conn[x]
BY DEF Opened, Open

LEMMA SentFacts ==
  ASSUME IInv, NEW c \in Callers, Send(c)
  PROVE  /\ call[c].sock \in Open /\ call[c].sock # None /\ Open' = Open
         /\ \A x \in Open : x # call[c].sock => conn'[x] = conn[x]
         /\ conn'[call[c].sock] \in Wires
         /\ conn'[call[c].sock].inb = <<>>
         /\ conn'[call[c].sock].out \in {<<>>, <<Req(c)>>}
<1>0. CallsTyped /\ ConnTyped
  BY DEF IInv, Typed
<1>1. PICK x : x = call[c].sock
  OBVIOUS
<1>2. x # None /\ Req(c) \in Requests
  BY <1>0, <1>1, CallFacts DEF Send
<1>3. x \in Open /\ Empty(x)
  BY <1>1, <1>2 DEF IInv, Owned, Disjoint, Clean, Send
<1>4. conn[x] \in Wires /\ conn[x].out = <<>> /\ conn[x].inb = <<>>
  BY <1>0, <1>3 DEF ConnTyped, Empty
<1>5. Append(conn[x].out, Req(c)) = <<Req(c)>>
  BY <1>4, OneMessage
<1>6. CASE conn[x].eof
  <2>1. conn' = conn
    BY <1>1, <1>6 DEF Send
  <2> QED
    BY <1>1, <1>2, <1>3, <1>4, <2>1 DEF Open
<1>7. CASE ~conn[x].eof
  <2>1. conn' = [conn EXCEPT ![x].out = <<Req(c)>>]
    BY <1>1, <1>5, <1>7 DEF Send
  <2>2. Open' = Open /\ \A y \in Open : y # x => conn'[y] = conn[y]
    BY <2>1, <1>0 DEF ConnTyped, Open
  <2>3. conn'[x] = [conn[x] EXCEPT !.out = <<Req(c)>>]
    BY <2>1, <1>0, <1>3 DEF ConnTyped, Open
  <2>4. conn'[x] \in Wires /\ conn'[x].inb = <<>> /\ conn'[x].out = <<Req(c)>>
    BY <1>2, <1>4, <2>3 DEF Wires, Box
  <2> QED
    BY <1>1, <1>2, <1>3, <2>2, <2>4
<1> QED
  BY <1>6, <1>7

(* What is on a connection, whoever holds it, is one request in one direction. *)
LEMMA OnWire ==
  ASSUME IInv, NEW x \in Open
  PROVE  Empty(x) \/ \E r \in Requests : Fits(x, r)
<1>0. CallsTyped /\ PairsTyped
  BY DEF IInv, Typed
<1>1. CASE x \in idle
  BY <1>1 DEF IInv, Clean
<1>2. ASSUME NEW c \in Callers, call[c].sock = x PROVE Empty(x) \/ \E r \in Requests : Fits(x, r)
  <2>1. x # None
    BY PoolConstants DEF IInv, Typed, ConnTyped
  <2>2. call[c].at \in {"send", "handOff"} /\ Req(c) \in Requests
    BY <1>0, <1>2, <2>1, CallFacts
  <2> QED
    BY <1>2, <2>2 DEF IInv, Clean
<1>3. ASSUME NEW p \in Pairs, p[1] = x PROVE Empty(x) \/ \E r \in Requests : Fits(x, r)
  <2>1. p[2] \in Requests
    BY <1>0 DEF Pairs, PairsTyped
  <2> QED
    BY <1>3, <2>1 DEF IInv, Clean
<1> QED
  BY <1>1, <1>2, <1>3 DEF IInv, Owned, Covered

(* The peer turns a request into its answer, or drops what is on the wire. *)
LEMMA PeerFacts ==
  ASSUME IInv, NEW s \in Open, PeerAnswers(s) \/ PeerCloses(s)
  PROVE  /\ Open' = Open
         /\ \A x \in Open : x # s => conn'[x] = conn[x]
         /\ conn'[s] \in Wires
         /\ Empty(s) => Empty(s)'
         /\ \A r : Fits(s, r) => Fits(s, r)'
<1>0. ConnTyped
  BY DEF IInv, Typed
<1>1. conn[s] \in Wires
  BY <1>0 DEF ConnTyped
<1>2. CASE PeerAnswers(s)
  <2>1. PICK r \in Requests : conn[s].out = <<r>> /\ conn[s].inb = <<>>
    BY <1>2, OnWire DEF PeerAnswers, Fits, Empty
  <2>2. Head(conn[s].out) = r /\ Tail(conn[s].out) = <<>> /\ Append(conn[s].inb, r) = <<r>> /\ <<r>> # <<>>
    BY <2>1, OneMessage
  <2>3. conn' = [conn EXCEPT ![s].out = <<>>, ![s].inb = <<r>>]
    BY <1>2, <2>2 DEF PeerAnswers
  <2>4. Open' = Open /\ \A x \in Open : x # s => conn'[x] = conn[x]
    BY <1>0, <2>3 DEF ConnTyped, Open
  <2>5. conn'[s] \in Wires /\ conn'[s].out = <<>> /\ conn'[s].inb = <<r>>
    BY <1>0, <1>1, <2>3 DEF ConnTyped, Wires, Box, Open
  <2>6. ~Empty(s) /\ \A q : Fits(s, q) => Fits(s, q)'
    BY <2>1, <2>2, <2>5 DEF Fits, Empty
  <2> QED
    BY <2>4, <2>5, <2>6
<1>3. CASE PeerCloses(s)
  <2>1. PICK k \in 0..Len(conn[s].inb) :
          conn' = [conn EXCEPT ![s] = [out |-> <<>>, inb |-> SubSeq(conn[s].inb, 1, k), eof |-> TRUE]]
    BY <1>3 DEF PeerCloses
  <2>2. SubSeq(conn[s].inb, 1, k) \in {<<>>, conn[s].inb}
    <3>1. CASE conn[s].inb = <<>>
      BY <3>1, OneMessage
    <3>2. ASSUME NEW r \in Requests, conn[s].inb = <<r>> PROVE SubSeq(conn[s].inb, 1, k) \in {<<>>, conn[s].inb}
      <4>1. k = 0 \/ k = 1
        BY <3>2, OneMessage
      <4> QED
        BY <3>2, <4>1, OneMessage
    <3> QED
      BY <1>1, <3>1, <3>2 DEF Wires, Box
  <2>3. Open' = Open /\ \A x \in Open : x # s => conn'[x] = conn[x]
    BY <1>0, <2>1 DEF ConnTyped, Open
  <2>4. conn'[s].out = <<>> /\ conn'[s].inb \in {<<>>, conn[s].inb} /\ conn'[s] \in Wires
    BY <1>0, <1>1, <2>1, <2>2 DEF ConnTyped, Wires, Box, Open
  <2>5. (Empty(s) => Empty(s)') /\ \A q : Fits(s, q) => Fits(s, q)'
    BY <2>4 DEF Fits, Empty
  <2> QED
    BY <2>3, <2>4, <2>5
<1> QED
  BY <1>2, <1>3

(* Each step keeps the connections well formed. *)
LEMMA ConnStep == IInv /\ [Next]_vars => ConnTyped'
<1> SUFFICES ASSUME IInv, [Next]_vars PROVE ConnTyped'
  OBVIOUS
<1>0. ConnTyped
  BY DEF IInv, Typed
<1>a. ASSUME NEW S, conn' = Closed(S) PROVE ConnTyped'
  BY <1>0, <1>a DEF ConnTyped, Closed, Open
<1>b. ASSUME NEW s \in Open, Open' = Open, conn'[s] \in Wires, \A x \in Open : x # s => conn'[x] = conn[x],
             conn' = [x \in Open |-> conn'[x]]
      PROVE  ConnTyped'
  BY <1>0, <1>b DEF ConnTyped
<1>c. CASE UNCHANGED conn
  BY <1>0, <1>c DEF ConnTyped, Open
<1>1. ASSUME NEW c \in Callers, Connect(c) PROVE ConnTyped'
  <2>1. ASSUME NEW s \in Socks \ Open, conn' = Opened(s) PROVE ConnTyped'
    BY <1>0, <2>1 DEF ConnTyped, Opened, Open, Wires, Box
  <2> QED
    BY <1>1, <1>c, <2>1 DEF Connect
<1>2. ASSUME NEW c \in Callers, Send(c) PROVE ConnTyped'
  <2>1. conn' = [x \in Open' |-> conn'[x]]
    BY <1>0, <1>2 DEF Send, ConnTyped, Open
  <2> QED
    BY <1>2, <1>b, <2>1, SentFacts
<1>3. ASSUME NEW p \in sel, Read(p[1], p[2]) PROVE ConnTyped'
  <2>1. CASE conn' = [conn EXCEPT ![p[1]].inb = Tail(@)]
    <3>1. conn' = [conn EXCEPT ![p[1]].inb = <<>>] /\ p[1] \in Open
      BY <1>3, <2>1, ReadsOwn
    <3> QED
      BY <1>0, <3>1 DEF ConnTyped, Open, Wires, Box
  <2> QED
    BY <1>3, <1>a, <2>1 DEF Read
<1>4. ASSUME NEW s \in Open, PeerAnswers(s) \/ PeerCloses(s) PROVE ConnTyped'
  <2>1. conn' = [x \in Open' |-> conn'[x]]
    BY <1>0, <1>4 DEF PeerAnswers, PeerCloses, ConnTyped, Open
  <2> QED
    BY <1>4, <1>b, <2>1, PeerFacts
<1>5. ASSUME NEW c \in Callers, SendFails(c) PROVE ConnTyped'
  BY <1>5, <1>a DEF SendFails
<1>6. ASSUME NEW p \in sel, Fail(p[1], p[2]) PROVE ConnTyped'
  BY <1>6, <1>a DEF Fail
<1>7. CASE ClosePeer \/ CloseRest
  BY <1>7, <1>a DEF ClosePeer, CloseRest
<1>8. ASSUME NEW c \in Callers, Acquire(c) \/ HandOff(c) \/ Wakeup(c) \/ Return(c) \/ GiveUp(c) PROVE UNCHANGED conn
  BY <1>8 DEF Acquire, Begin, HandOff, Wakeup, Return, GiveUp
<1>9. ASSUME DrainWakeup \/ Register \/ Deliver \/ Exit \/ CloseAll PROVE UNCHANGED conn
  BY <1>9 DEF DrainWakeup, Register, Deliver, Exit, CloseAll
<1>10. UNCHANGED vars => UNCHANGED conn
  BY DEF vars
<1> QED
  BY <1>1, <1>2, <1>3, <1>4, <1>5, <1>6, <1>7, <1>8, <1>9, <1>10, <1>c DEF Next, Caller, IoLoop

-----------------------------------------------------------------------------
(* A step that moves no socket from one owner to another. *)
LEMMA SameOwners ==
  ASSUME Owned, Open' = Open, idle' = idle, Pairs' = Pairs,
         \A c \in Callers : call'[c].sock = call[c].sock,
         \A p \in regQueue' : p \notin sel'
  PROVE  Owned'
<1>1. Covered'
  BY DEF Owned, Covered
<1>2. Disjoint'
  BY DEF Owned, Disjoint
<1> QED
  BY <1>1, <1>2 DEF Owned

(* A caller with no socket before and after its move changes no owner. *)
LEMMA SameSocks ==
  ASSUME CallsTyped, NEW c \in Callers, NEW s, call[c].sock = s, call'[c].sock = s,
         \A d \in Callers : d # c => call'[d] = call[d]
  PROVE  \A d \in Callers : call'[d].sock = call[d].sock
OBVIOUS

(* Sockets that are closed lose their owner. *)
LEMMA CloseIdle ==
  ASSUME Owned, Open' = Open \ idle, idle' = {}, UNCHANGED <<call, regQueue, sel>>
  PROVE  Owned'
BY DEF Owned, Covered, Disjoint, Pairs

(* Each step leaves every open socket with one owner. *)
LEMMA OwnedStep == IInv /\ [Next]_vars => Owned'
<1> SUFFICES ASSUME IInv, [Next]_vars PROVE Owned'
  OBVIOUS
<1>0. CallsTyped /\ IdleTyped /\ PairsTyped /\ Owned /\ ConnTyped
  BY DEF IInv, Typed
<1>n. None \notin Socks /\ None \notin Open /\ None \notin idle /\ \A p \in Pairs : p[1] # None
  BY <1>0, PoolConstants DEF ConnTyped, IdleTyped, PairsTyped, Pairs
<1>f. \A c \in Callers : call[c].sock # None <=> call[c].at \in {"send", "handOff"}
  BY <1>0, CallFacts
<1>1. ASSUME NEW c \in Callers, NEW s \in idle, Begin(c, "send", s), idle' = idle \ {s} PROVE Owned'
  <2>1. call' = [call EXCEPT ![c] = Place("send", call[c].n + 1, s)]
    BY <1>1 DEF Begin
  <2>2. call'[c].sock = s /\ \A d \in Callers : d # c => call'[d].sock = call[d].sock
    BY <1>0, <2>1 DEF CallsTyped, Place
  <2>3. call[c].sock = None
    BY <1>1, <1>f DEF Begin
  <2>4. Open' = Open /\ UNCHANGED <<regQueue, sel>> /\ Pairs' = Pairs
    BY <1>1 DEF Begin, Open, Pairs
  <2>5. Covered'
    BY <1>0, <1>1, <1>n, <2>2, <2>3, <2>4 DEF Owned, Covered
  <2>6. Disjoint'
    BY <1>0, <1>1, <1>n, <2>2, <2>3, <2>4 DEF Owned, Disjoint
  <2> QED
    BY <2>5, <2>6 DEF Owned
<1>2. ASSUME NEW c \in Callers, Begin(c, "connect", None), UNCHANGED idle PROVE Owned'
  <2>1. call' = [call EXCEPT ![c] = Place("connect", call[c].n + 1, None)]
    BY <1>2 DEF Begin
  <2>2. call[c].sock = None
    BY <1>2, <1>f DEF Begin
  <2>3. \A d \in Callers : call'[d].sock = call[d].sock
    BY <1>0, <2>1, <2>2 DEF CallsTyped, Place
  <2>4. Open' = Open /\ UNCHANGED <<regQueue, sel>> /\ Pairs' = Pairs
    BY <1>2 DEF Begin, Open, Pairs
  <2>5. \A p \in regQueue' : p \notin sel'
    BY <1>0, <2>4 DEF Owned, Disjoint
  <2> QED
    BY <1>0, <1>2, <2>3, <2>4, <2>5, SameOwners
<1>3. ASSUME NEW c \in Callers, NEW s \in Socks \ Open, call[c].at = "connect", conn' = Opened(s),
             Goto(c, "send", s), UNCHANGED <<idle, regQueue, sel>>
      PROVE  Owned'
  <2>1. call'[c].sock = s /\ \A d \in Callers : d # c => call'[d].sock = call[d].sock
    BY <1>0, <1>3, Goes
  <2>2. call[c].sock = None /\ s # None
    BY <1>3, <1>f, <1>n
  <2>3. Open' = Open \cup {s} /\ Pairs' = Pairs
    BY <1>3, OpenedFacts DEF Pairs
  <2>4. Covered'
    BY <1>0, <1>3, <1>n, <2>1, <2>2, <2>3 DEF Owned, Covered
  <2>5. Disjoint'
    BY <1>0, <1>3, <1>n, <2>1, <2>2, <2>3 DEF Owned, Disjoint
  <2> QED
    BY <2>4, <2>5 DEF Owned
<1>4. ASSUME NEW c \in Callers, NEW at, call[c].sock = None, Goto(c, at, None),
             UNCHANGED <<conn, idle, regQueue, sel>>
      PROVE  Owned'
  <2>1. \A d \in Callers : call'[d].sock = call[d].sock
    BY <1>0, <1>4, Goes, SameSocks
  <2>2. Open' = Open /\ Pairs' = Pairs
    BY <1>4 DEF Open, Pairs
  <2>3. \A p \in regQueue' : p \notin sel'
    BY <1>0, <1>4 DEF Owned, Disjoint
  <2> QED
    BY <1>0, <1>4, <2>1, <2>2, <2>3, SameOwners
<1>5. ASSUME NEW c \in Callers, Send(c) PROVE Owned'
  <2>1. Goto(c, "handOff", call[c].sock) /\ UNCHANGED <<idle, regQueue, sel>>
    BY <1>5 DEF Send
  <2>2. PICK s : s = call[c].sock
    OBVIOUS
  <2>3. call'[c].sock = s /\ \A d \in Callers : d # c => call'[d] = call[d]
    BY <1>0, <2>1, <2>2, Goes
  <2>4. \A d \in Callers : call'[d].sock = call[d].sock
    BY <2>2, <2>3
  <2>5. Open' = Open /\ Pairs' = Pairs
    BY <1>5, <2>1, SentFacts DEF Pairs
  <2>6. \A p \in regQueue' : p \notin sel'
    BY <1>0, <2>1 DEF Owned, Disjoint
  <2> QED
    BY <1>0, <2>1, <2>4, <2>5, <2>6, SameOwners
<1>6. ASSUME NEW c \in Callers, SendFails(c) PROVE Owned'
  <2>1. Goto(c, "ready", None) /\ UNCHANGED <<idle, regQueue, sel>> /\ Pairs' = Pairs
    BY <1>6 DEF SendFails, Pairs
  <2>2. call'[c].sock = None /\ \A d \in Callers : d # c => call'[d].sock = call[d].sock
    BY <1>0, <2>1, Goes
  <2>3. call[c].sock # None
    BY <1>6, <1>f DEF SendFails
  <2>4. PICK s : s = call[c].sock
    OBVIOUS
  <2>5. Open' = Open \ {s}
    BY <1>6, <2>4, ClosedFacts DEF SendFails
  <2>6. Covered'
    BY <1>0, <1>n, <2>1, <2>2, <2>4, <2>5 DEF Owned, Covered
  <2>7. Disjoint'
    BY <1>0, <1>n, <2>1, <2>2, <2>3, <2>4, <2>5 DEF Owned, Disjoint
  <2> QED
    BY <2>6, <2>7 DEF Owned
<1>7. ASSUME NEW c \in Callers, HandOff(c) PROVE Owned'
  <2>1. Goto(c, "wakeup", None) /\ UNCHANGED <<conn, idle, sel>>
    BY <1>7 DEF HandOff
  <2>2. call'[c].sock = None /\ \A d \in Callers : d # c => call'[d].sock = call[d].sock
    BY <1>0, <2>1, Goes
  <2>3. call[c].sock # None
    BY <1>7, <1>f DEF HandOff
  <2>4. PICK p : p = <<call[c].sock, Req(c)>>
    OBVIOUS
  <2>5. p[1] = call[c].sock /\ regQueue' = regQueue \cup {p} /\ Pairs' = Pairs \cup {p} /\ Open' = Open
    BY <1>7, <2>1, <2>4 DEF HandOff, Pairs, Open
  <2>6. \A q \in Pairs : q[1] # p[1]
    BY <1>0, <2>5 DEF Owned, Disjoint
  <2>7. Covered'
    BY <1>0, <2>1, <2>2, <2>5 DEF Owned, Covered
  <2>8. Disjoint'
    <3>1. \A q \in regQueue' : q \notin sel'
      BY <1>0, <2>1, <2>5, <2>6 DEF Owned, Disjoint, Pairs
    <3>2. \A q, r \in Pairs' : q[1] = r[1] => q = r
      BY <1>0, <2>5, <2>6 DEF Owned, Disjoint
    <3>3. \A d \in Callers, q \in Pairs' : call'[d].sock # q[1]
      BY <1>0, <1>n, <2>2, <2>3, <2>5, <2>6 DEF Owned, Disjoint
    <3>4. \A q \in Pairs' : q[1] \in Open' /\ q[1] \notin idle'
      BY <1>0, <2>1, <2>3, <2>5 DEF Owned, Disjoint
    <3>5. /\ \A x \in idle' : x \in Open'
          /\ \A d \in Callers : call'[d].sock # None => call'[d].sock \in Open' /\ call'[d].sock \notin idle'
          /\ \A d, e \in Callers : d # e /\ call'[d].sock # None => call'[d].sock # call'[e].sock
      BY <1>0, <2>1, <2>2, <2>5 DEF Owned, Disjoint
    <3> QED
      BY <3>1, <3>2, <3>3, <3>4, <3>5 DEF Disjoint
  <2> QED
    BY <2>7, <2>8 DEF Owned
<1>8. ASSUME UNCHANGED <<call, conn, idle>>, Pairs' = Pairs, \A p \in regQueue' : p \notin sel' PROVE Owned'
  BY <1>0, <1>8, SameOwners DEF Open
<1>9. CASE Register
  <2>1. UNCHANGED <<call, conn, idle>>
    BY <1>9 DEF Register
  <2>2. Pairs' = Pairs /\ \A p \in regQueue' : p \notin sel'
    BY <1>0, <1>9 DEF Register, Pairs, Owned, Disjoint
  <2> QED
    BY <1>8, <2>1, <2>2
<1>10. ASSUME NEW p \in sel, sel' = sel \ {<<p[1], p[2]>>}, UNCHANGED <<call, regQueue>>,
              \/ idle' = idle /\ Open' = Open \ {p[1]}
              \/ idle' = idle \cup {p[1]} /\ Open' = Open
       PROVE  Owned'
  <2>1. p = <<p[1], p[2]>> /\ p \in Pairs
    BY <1>0 DEF PairsTyped, Pairs
  <2>2. p \notin regQueue
    BY <1>0 DEF Owned, Disjoint
  <2>3. Pairs' = Pairs \ {p} /\ sel' = sel \ {p}
    BY <1>10, <2>1, <2>2 DEF Pairs
  <2>4. PICK s : s = p[1]
    OBVIOUS
  <2>5. /\ s \notin idle /\ s \in Open /\ s # None
        /\ \A d \in Callers : call[d].sock # s
        /\ \A q \in Pairs' : q[1] # s /\ q \in Pairs
    BY <1>0, <1>n, <2>1, <2>3, <2>4 DEF Owned, Disjoint
  <2>6. Covered'
    BY <1>0, <1>10, <2>3, <2>4, <2>5 DEF Owned, Covered
  <2>7. Disjoint'
    <3>1. \A q \in regQueue' : q \notin sel'
      BY <1>0, <1>10, <2>3 DEF Owned, Disjoint
    <3>2. CASE idle' = idle /\ Open' = Open \ {s}
      BY <1>0, <1>10, <2>5, <3>1, <3>2 DEF Owned, Disjoint
    <3>3. CASE idle' = idle \cup {s} /\ Open' = Open
      BY <1>0, <1>10, <2>5, <3>1, <3>3 DEF Owned, Disjoint
    <3> QED
      BY <1>10, <2>4, <3>2, <3>3
  <2> QED
    BY <2>6, <2>7 DEF Owned
<1>11. ASSUME NEW p \in sel, Read(p[1], p[2]) PROVE Owned'
  <2>1. CASE conn' = Closed({p[1]}) /\ UNCHANGED idle
    BY <1>10, <1>11, <2>1, ClosedFacts DEF Read
  <2>2. CASE conn' = [conn EXCEPT ![p[1]].inb = Tail(@)] /\ idle' = idle \cup {p[1]}
    <3>1. Open' = Open
      BY <1>0, <2>2 DEF Open, ConnTyped
    <3> QED
      BY <1>10, <1>11, <2>2, <3>1 DEF Read
  <2> QED
    BY <1>11, <2>1, <2>2 DEF Read
<1>12. ASSUME NEW p \in sel, Fail(p[1], p[2]) PROVE Owned'
  BY <1>10, <1>12, ClosedFacts DEF Fail
<1>13. CASE ClosePeer
  BY <1>0, <1>13, CloseIdle, ClosedFacts DEF ClosePeer
<1>14. CASE CloseRest
  <2>1. Open' = Open \ (idle \cup SocksOf(sel)) /\ idle' = {} /\ sel' = {} /\ UNCHANGED <<call, regQueue>>
    BY <1>14, ClosedFacts DEF CloseRest
  <2>2. Pairs' = regQueue
    BY <2>1 DEF Pairs
  <2>3. \A x \in SocksOf(sel) : \E q \in sel : x = q[1]
    BY DEF SocksOf
  <2>4. Covered'
    BY <1>0, <2>1, <2>2 DEF Owned, Covered, Pairs, SocksOf
  <2>5. Disjoint'
    <3>1. \A q \in regQueue : q[1] \notin SocksOf(sel)
      BY <1>0, <2>3 DEF Owned, Disjoint, Pairs
    <3>2. \A d \in Callers : call[d].sock \notin SocksOf(sel)
      BY <1>0, <2>3 DEF Owned, Disjoint, Pairs
    <3> QED
      BY <1>0, <2>1, <2>2, <3>1, <3>2 DEF Owned, Disjoint, Pairs
  <2> QED
    BY <2>4, <2>5 DEF Owned
<1>15. ASSUME NEW s \in Open, PeerAnswers(s) \/ PeerCloses(s) PROVE Owned'
  <2>1. Open' = Open /\ UNCHANGED <<call, idle, regQueue, sel>> /\ Pairs' = Pairs
    BY <1>15, PeerFacts DEF PeerAnswers, PeerCloses, Pairs
  <2>2. \A p \in regQueue' : p \notin sel'
    BY <1>0, <2>1 DEF Owned, Disjoint
  <2> QED
    BY <1>0, <2>1, <2>2, SameOwners
<1>16. CASE UNCHANGED <<call, conn, idle, regQueue, sel>>
  <2>1. Pairs' = Pairs /\ \A p \in regQueue' : p \notin sel'
    BY <1>0, <1>16 DEF Pairs, Owned, Disjoint
  <2> QED
    BY <1>8, <1>16, <2>1
<1>17. ASSUME DrainWakeup \/ Deliver \/ Exit \/ CloseAll PROVE UNCHANGED <<call, conn, idle, regQueue, sel>>
  BY <1>17 DEF DrainWakeup, Deliver, Exit, CloseAll
<1>18. UNCHANGED vars => UNCHANGED <<call, conn, idle, regQueue, sel>>
  BY DEF vars
<1>19. ASSUME NEW c \in Callers, Acquire(c) PROVE Owned'
  BY <1>19, <1>1, <1>2 DEF Acquire
<1>20. ASSUME NEW c \in Callers, Connect(c) PROVE Owned'
  <2>1. call[c].at = "connect" /\ call[c].sock = None /\ UNCHANGED <<idle, regQueue, sel>>
    BY <1>20, <1>f DEF Connect
  <2> QED
    BY <1>20, <1>3, <1>4, <2>1 DEF Connect
<1>21. ASSUME NEW c \in Callers, Wakeup(c) \/ Return(c) \/ GiveUp(c) PROVE Owned'
  <2>1. call[c].sock = None
    BY <1>21, <1>f DEF Wakeup, Return, GiveUp
  <2> QED
    BY <1>21, <1>4, <2>1 DEF Wakeup, Return, GiveUp
<1> QED
  BY <1>5, <1>6, <1>7, <1>9, <1>11, <1>12, <1>13, <1>14, <1>15, <1>16, <1>17, <1>18, <1>19, <1>20, <1>21
  DEF Next, Caller, IoLoop

-----------------------------------------------------------------------------
(* A connection that is not touched keeps what is on it. *)
LEMMA SameWire ==
  ASSUME NEW x, conn'[x] = conn[x]
  PROVE  (Empty(x) => Empty(x)') /\ \A r : Fits(x, r) => Fits(x, r)'
BY DEF Empty, Fits

(* A step that gives no socket to a new owner. *)
LEMMA CleanKept ==
  ASSUME Clean, Disjoint', CallsTyped',
         \A x \in Open' : (Empty(x) => Empty(x)') /\ \A r : Fits(x, r) => Fits(x, r)',
         \A x \in idle' : x \in idle,
         \A p \in Pairs' : p \in Pairs,
         \A c \in Callers : call'[c].at \in {"send", "handOff"} => call'[c] = call[c]
  PROVE  Clean'
<1>1. ASSUME NEW x \in idle' PROVE Empty(x)'
  BY <1>1 DEF Clean, Disjoint
<1>2. ASSUME NEW c \in Callers, call'[c].at \in {"send", "handOff"}
      PROVE  call'[c].sock \in Open' /\ call[c].sock = call'[c].sock /\ call[c].at = call'[c].at /\ Req(c)' = Req(c)
  <2>1. call'[c].sock # None
    BY <1>2 DEF CallsTyped, Consistent
  <2> QED
    BY <1>2, <2>1 DEF Disjoint, Req
<1>3. ASSUME NEW c \in Callers, call'[c].at = "send" PROVE Empty(call[c].sock)'
  <2>1. PICK x : x = call[c].sock
    OBVIOUS
  <2>2. x \in Open' /\ Empty(x) /\ x = call'[c].sock
    BY <1>2, <1>3, <2>1 DEF Clean
  <2>3. Empty(x)'
    BY <2>2
  <2> QED
    BY <2>2, <2>3 DEF Empty
<1>4. ASSUME NEW c \in Callers, call'[c].at = "handOff" PROVE Fits(call[c].sock, Req(c))'
  <2>1. PICK x, r : x = call[c].sock /\ r = Req(c)
    OBVIOUS
  <2>2. x \in Open' /\ Fits(x, r) /\ x = call'[c].sock /\ Req(c)' = r
    BY <1>2, <1>4, <2>1 DEF Clean
  <2>3. Fits(x, r)'
    BY <2>2
  <2> QED
    BY <2>2, <2>3 DEF Fits, Empty
<1>5. ASSUME NEW p \in Pairs' PROVE Fits(p[1], p[2])'
  BY <1>5 DEF Clean, Disjoint
<1> QED
  BY <1>1, <1>3, <1>4, <1>5 DEF Clean

(* A caller that stays at its handing over keeps its request on the wire. *)
LEMMA StaysFit ==
  ASSUME Clean, NEW d \in Callers, call[d].at = "handOff", call'[d] = call[d],
         conn'[call[d].sock] = conn[call[d].sock]
  PROVE  Fits(call[d].sock, Req(d))'
<1>1. Fits(call[d].sock, Req(d))
  BY DEF Clean
<1>2. Req(d)' = Req(d)
  BY DEF Req
<1> QED
  BY <1>1, <1>2 DEF Fits, Empty

(* Each step leaves on a connection only what its owner asked. *)
LEMMA CleanStep == IInv /\ [Next]_vars => Clean'
<1> SUFFICES ASSUME IInv, [Next]_vars PROVE Clean'
  OBVIOUS
<1>0. CallsTyped /\ IdleTyped /\ PairsTyped /\ ConnTyped /\ Disjoint /\ Clean
  BY DEF IInv, Typed, Owned
<1>p. Disjoint' /\ CallsTyped'
  BY OwnedStep, CallsStep DEF Owned
<1>k. ASSUME \A x \in Open' : conn'[x] = conn[x],
             \A x \in idle' : x \in idle,
             \A p \in Pairs' : p \in Pairs,
             \A c \in Callers : call'[c].at \in {"send", "handOff"} => call'[c] = call[c]
      PROVE  Clean'
  <2>1. \A x \in Open' : (Empty(x) => Empty(x)') /\ \A r : Fits(x, r) => Fits(x, r)'
    BY <1>k, SameWire
  <2> QED
    BY <1>0, <1>p, <1>k, <2>1, CleanKept
<1>g. ASSUME NEW c \in Callers, NEW at, Goto(c, at, None), at \notin {"send", "handOff"}
      PROVE  \A d \in Callers : call'[d].at \in {"send", "handOff"} => call'[d] = call[d]
  BY <1>0, <1>g, Goes
<1>u. ASSUME UNCHANGED <<idle, regQueue, sel>> PROVE (\A x \in idle' : x \in idle) /\ \A p \in Pairs' : p \in Pairs
  BY <1>u DEF Pairs
<1>1. ASSUME NEW c \in Callers, NEW s \in idle, Begin(c, "send", s), idle' = idle \ {s} PROVE Clean'
  <2>1. call' = [call EXCEPT ![c] = Place("send", call[c].n + 1, s)]
    BY <1>1 DEF Begin
  <2>2. call'[c].at = "send" /\ call'[c].sock = s /\ \A d \in Callers : d # c => call'[d] = call[d]
    BY <1>0, <2>1 DEF CallsTyped, Place
  <2>3. Pairs' = Pairs /\ UNCHANGED conn
    BY <1>1 DEF Begin, Pairs
  <2>4. \A x \in idle' : Empty(x)'
    BY <1>0, <1>1, <2>3 DEF Clean, Empty
  <2>5. \A d \in Callers : call'[d].at = "send" => Empty(call[d].sock)'
    BY <1>0, <1>1, <2>2, <2>3 DEF Clean, Empty
  <2>6. \A d \in Callers : call'[d].at = "handOff" => Fits(call[d].sock, Req(d))'
    BY <1>0, <2>2, <2>3 DEF Clean, Fits, Empty, Req
  <2>7. \A p \in Pairs' : Fits(p[1], p[2])'
    BY <1>0, <2>3 DEF Clean, Fits, Empty
  <2> QED
    BY <2>4, <2>5, <2>6, <2>7 DEF Clean
<1>2. ASSUME NEW c \in Callers, Begin(c, "connect", None), UNCHANGED idle PROVE Clean'
  <2>1. call' = [call EXCEPT ![c] = Place("connect", call[c].n + 1, None)]
    BY <1>2 DEF Begin
  <2>2. \A d \in Callers : call'[d].at \in {"send", "handOff"} => call'[d] = call[d]
    BY <1>0, <2>1 DEF CallsTyped, Place
  <2>3. UNCHANGED <<conn, idle, regQueue, sel>>
    BY <1>2 DEF Begin
  <2> QED
    BY <1>k, <1>u, <2>2, <2>3 DEF Open
<1>3. ASSUME NEW c \in Callers, NEW s \in Socks \ Open, conn' = Opened(s),
             Goto(c, "send", s), UNCHANGED <<idle, regQueue, sel>>
      PROVE  Clean'
  <2>1. call'[c].at = "send" /\ call'[c].sock = s /\ \A d \in Callers : d # c => call'[d] = call[d]
    BY <1>0, <1>3, Goes
  <2>2. conn'[s].out = <<>> /\ conn'[s].inb = <<>> /\ (\A x \in Open : conn'[x] = conn[x])
    BY <1>3, OpenedFacts
  <2>3. \A x \in Open : (Empty(x) => Empty(x)') /\ \A r : Fits(x, r) => Fits(x, r)'
    BY <2>2, SameWire
  <2>4. \A x \in idle' : Empty(x)'
    BY <1>0, <1>3, <2>3 DEF Clean, Disjoint
  <2>5. ASSUME NEW d \in Callers, d # c, call[d].at \in {"send", "handOff"} PROVE call[d].sock \in Open
    BY <1>0, <2>5, CallFacts DEF Disjoint
  <2>6. \A d \in Callers : call'[d].at = "send" => Empty(call[d].sock)'
    BY <1>0, <2>1, <2>2, <2>5 DEF Clean, Empty
  <2>7. \A d \in Callers : call'[d].at = "handOff" => Fits(call[d].sock, Req(d))'
    BY <1>0, <2>1, <2>2, <2>5, StaysFit
  <2>8. \A p \in Pairs' : Fits(p[1], p[2])'
    BY <1>0, <1>3, <2>3 DEF Clean, Disjoint, Pairs
  <2> QED
    BY <2>4, <2>6, <2>7, <2>8 DEF Clean
<1>4. ASSUME NEW c \in Callers, Send(c) PROVE Clean'
  <2>1. Goto(c, "handOff", call[c].sock) /\ UNCHANGED <<idle, regQueue, sel>>
    BY <1>4 DEF Send
  <2>2. PICK s, r : s = call[c].sock /\ r = Req(c)
    OBVIOUS
  <2>3. call'[c].at = "handOff" /\ call'[c].sock = s /\ Req(c)' = r /\ \A d \in Callers : d # c => call'[d] = call[d]
    BY <1>0, <2>1, <2>2, Goes DEF Req
  <2>4. /\ s \in Open /\ s # None /\ conn'[s].inb = <<>> /\ conn'[s].out \in {<<>>, <<r>>}
        /\ \A x \in Open : x # s => conn'[x] = conn[x]
    BY <1>4, <2>2, SentFacts
  <2>5. \A x \in Open : x # s => (Empty(x) => Empty(x)') /\ \A q : Fits(x, q) => Fits(x, q)'
    BY <2>4, SameWire
  <2>6. \A x \in idle' : Empty(x)'
    BY <1>0, <2>1, <2>2, <2>4, <2>5 DEF Clean, Disjoint
  <2>7. ASSUME NEW d \in Callers, d # c, call[d].at \in {"send", "handOff"} PROVE call[d].sock \in Open /\ call[d].sock # s
    BY <1>0, <2>2, <2>4, <2>7, CallFacts DEF Disjoint
  <2>8. \A d \in Callers : call'[d].at = "send" => Empty(call[d].sock)'
    BY <1>0, <2>3, <2>4, <2>7 DEF Clean, Empty
  <2>9. ASSUME NEW d \in Callers, call'[d].at = "handOff" PROVE Fits(call[d].sock, Req(d))'
    <3>1. CASE d = c
      BY <2>3, <2>4, <3>1 DEF Fits, Empty
    <3>2. CASE d # c
      BY <1>0, <2>3, <2>4, <2>7, <2>9, <3>2, StaysFit
    <3> QED
      BY <3>1, <3>2
  <2>10. \A p \in Pairs' : Fits(p[1], p[2])'
    BY <1>0, <2>1, <2>2, <2>5 DEF Clean, Disjoint, Pairs
  <2> QED
    BY <2>6, <2>8, <2>9, <2>10 DEF Clean
<1>5. ASSUME NEW c \in Callers, HandOff(c) PROVE Clean'
  <2>1. Goto(c, "wakeup", None) /\ UNCHANGED <<conn, idle, sel>>
    BY <1>5 DEF HandOff
  <2>2. \A d \in Callers : call'[d].at \in {"send", "handOff"} => call'[d] = call[d]
    BY <1>g, <2>1
  <2>3. PICK p : p = <<call[c].sock, Req(c)>>
    OBVIOUS
  <2>4. Fits(p[1], p[2]) /\ Pairs' = Pairs \cup {p}
    <3>1. p[1] = call[c].sock /\ p[2] = Req(c) /\ regQueue' = regQueue \cup {p} /\ call[c].at = "handOff"
      BY <1>5, <2>3 DEF HandOff
    <3>2. Fits(call[c].sock, Req(c))
      BY <1>0, <3>1 DEF Clean
    <3> QED
      BY <2>1, <3>1, <3>2 DEF Pairs
  <2>5. \A x \in idle' : Empty(x)'
    BY <1>0, <2>1 DEF Clean, Empty
  <2>6. \A d \in Callers : call'[d].at = "send" => Empty(call[d].sock)'
    BY <1>0, <2>1, <2>2 DEF Clean, Empty
  <2>7. \A d \in Callers : call'[d].at = "handOff" => Fits(call[d].sock, Req(d))'
    BY <1>0, <2>1, <2>2 DEF Clean, Fits, Empty, Req
  <2>8. \A q \in Pairs' : Fits(q[1], q[2])'
    BY <1>0, <2>1, <2>4 DEF Clean, Fits, Empty
  <2> QED
    BY <2>5, <2>6, <2>7, <2>8 DEF Clean
<1>6. ASSUME NEW p \in sel, sel' = sel \ {<<p[1], p[2]>>}, UNCHANGED <<call, regQueue>> PROVE \A q \in Pairs' : q \in Pairs
  BY <1>6 DEF Pairs
<1>7. ASSUME NEW p \in sel, Read(p[1], p[2]) PROVE Clean'
  <2>1. UNCHANGED <<call, regQueue>> /\ \A q \in Pairs' : q \in Pairs
    BY <1>6, <1>7 DEF Read
  <2>2. CASE conn' = Closed({p[1]}) /\ UNCHANGED idle
    BY <1>k, <2>1, <2>2, ClosedFacts
  <2>3. CASE conn' = [conn EXCEPT ![p[1]].inb = Tail(@)] /\ idle' = idle \cup {p[1]}
    <3>1. PICK s : s = p[1]
      OBVIOUS
    <3>2. s \in Open /\ conn' = [conn EXCEPT ![s].inb = <<>>] /\ conn[s].out = <<>>
      BY <1>7, <2>3, <3>1, ReadsOwn
    <3>3. Open' = Open /\ conn'[s].out = <<>> /\ conn'[s].inb = <<>> /\ \A x \in Open : x # s => conn'[x] = conn[x]
      <4>1. Open' = Open /\ \A x \in Open : x # s => conn'[x] = conn[x]
        BY <1>0, <3>2 DEF ConnTyped, Open
      <4>2. conn'[s] = [conn[s] EXCEPT !.inb = <<>>] /\ conn[s] \in Wires
        BY <1>0, <3>2 DEF ConnTyped, Open
      <4> QED
        BY <3>2, <4>1, <4>2 DEF Wires
    <3>4. Empty(s)' /\ \A r : Fits(s, r)'
      BY <3>3 DEF Empty, Fits
    <3>5. \A x \in Open : (Empty(x) => Empty(x)') /\ \A r : Fits(x, r) => Fits(x, r)'
      BY <3>3, <3>4, SameWire
    <3>6. \A x \in idle' : Empty(x)'
      BY <1>0, <2>3, <3>1, <3>4, <3>5 DEF Clean, Disjoint
    <3>7. ASSUME NEW d \in Callers, call[d].at \in {"send", "handOff"} PROVE call[d].sock \in Open
      BY <1>0, <3>7, CallFacts DEF Disjoint
    <3>8. \A d \in Callers : call'[d].at = "send" => Empty(call[d].sock)'
      BY <1>0, <2>1, <3>3, <3>7 DEF Clean, Empty
    <3>9. \A d \in Callers : call'[d].at = "handOff" => Fits(call[d].sock, Req(d))'
      BY <1>0, <2>1, <3>3, <3>7 DEF Clean, Fits, Empty, Req
    <3>10. \A q \in Pairs' : Fits(q[1], q[2])'
      BY <1>0, <2>1, <3>5 DEF Clean, Disjoint
    <3> QED
      BY <3>6, <3>8, <3>9, <3>10 DEF Clean
  <2> QED
    BY <1>7, <2>2, <2>3 DEF Read
<1>8. ASSUME NEW p \in sel, Fail(p[1], p[2]) PROVE Clean'
  <2>1. UNCHANGED <<call, idle>> /\ (\A q \in Pairs' : q \in Pairs)
    BY <1>6, <1>8 DEF Fail
  <2>2. \A x \in Open' : conn'[x] = conn[x]
    BY <1>8, ClosedFacts DEF Fail
  <2> QED
    BY <1>k, <2>1, <2>2
<1>9. CASE ClosePeer \/ CloseRest
  <2>1. (\A x \in idle' : x \in idle) /\ UNCHANGED call /\ \A q \in Pairs' : q \in Pairs
    BY <1>9 DEF ClosePeer, CloseRest, Pairs
  <2>2. \A x \in Open' : conn'[x] = conn[x]
    BY <1>9, ClosedFacts DEF ClosePeer, CloseRest
  <2> QED
    BY <1>k, <2>1, <2>2
<1>10. CASE Register
  <2>1. UNCHANGED <<call, conn, idle>> /\ \A q \in Pairs' : q \in Pairs
    BY <1>10 DEF Register, Pairs
  <2> QED
    BY <1>k, <2>1 DEF Open
<1>11. ASSUME NEW s \in Open, PeerAnswers(s) \/ PeerCloses(s) PROVE Clean'
  <2>1. UNCHANGED <<call, idle, regQueue, sel>>
    BY <1>11 DEF PeerAnswers, PeerCloses
  <2>2. Open' = Open /\ \A x \in Open : x # s => conn'[x] = conn[x]
    BY <1>11, PeerFacts
  <2>3. (Empty(s) => Empty(s)') /\ \A r : Fits(s, r) => Fits(s, r)'
    BY <1>11, PeerFacts
  <2>4. \A x \in Open' : (Empty(x) => Empty(x)') /\ \A r : Fits(x, r) => Fits(x, r)'
    BY <2>2, <2>3, SameWire
  <2> QED
    BY <1>0, <1>p, <1>u, <2>1, <2>4, CleanKept
<1>12. ASSUME NEW c \in Callers, SendFails(c) PROVE Clean'
  <2>1. \A x \in Open' : conn'[x] = conn[x]
    BY <1>12, ClosedFacts DEF SendFails
  <2> QED
    BY <1>12, <1>g, <1>k, <1>u, <2>1 DEF SendFails
<1>13. ASSUME NEW c \in Callers, NEW at, Goto(c, at, None), at \notin {"send", "handOff"},
              UNCHANGED <<conn, idle, regQueue, sel>>
       PROVE  Clean'
  BY <1>13, <1>g, <1>k, <1>u DEF Open
<1>14. ASSUME NEW c \in Callers, Wakeup(c) \/ Return(c) \/ GiveUp(c) PROVE Clean'
  BY <1>13, <1>14 DEF Wakeup, Return, GiveUp
<1>15. ASSUME NEW c \in Callers, Connect(c) PROVE Clean'
  <2>1. UNCHANGED <<idle, regQueue, sel>>
    BY <1>15 DEF Connect
  <2>2. CASE Goto(c, "ready", None) /\ UNCHANGED conn
    BY <1>13, <2>1, <2>2
  <2> QED
    BY <1>15, <1>3, <2>1, <2>2 DEF Connect
<1>16. ASSUME NEW c \in Callers, Acquire(c) PROVE Clean'
  BY <1>16, <1>1, <1>2 DEF Acquire
<1>17. CASE UNCHANGED <<call, conn, idle, regQueue, sel>>
  BY <1>17, <1>k, <1>u DEF Open
<1>18. ASSUME DrainWakeup \/ Deliver \/ Exit \/ CloseAll PROVE UNCHANGED <<call, conn, idle, regQueue, sel>>
  BY <1>18 DEF DrainWakeup, Deliver, Exit, CloseAll
<1>19. UNCHANGED vars => UNCHANGED <<call, conn, idle, regQueue, sel>>
  BY DEF vars
<1> QED
  BY <1>4, <1>5, <1>7, <1>8, <1>9, <1>10, <1>11, <1>12, <1>14, <1>15, <1>16, <1>17, <1>18, <1>19
  DEF Next, Caller, IoLoop

-----------------------------------------------------------------------------
THEOREM Invariance == Spec => []IInv
<1>1. IInv /\ [Next]_vars => IInv'
  BY CallsStep, ConnStep, PairsStep, IoStep, IdleStep, OwnedStep, CleanStep, OwnAnswerStep, WakeupStep
  DEF IInv, Typed
<1> QED
  BY <1>1, InitHolds, PTL DEF Spec

(* The state has its type; the idle pool never exceeds max_per_peer        *)
(* (mux.py:175-183), and a caller has a socket exactly while it sends on   *)
(* it and hands it over (mux.py:88-113).                                   *)
THEOREM TypeCorrect == Spec => []TypeOK
<1>1. IInv => TypeOK
  BY DEF IInv, Typed, CallsTyped, Places, Consistent, ConnTyped, PairsTyped, IoTyped, IdleTyped, TypeOK
<1> QED
  BY <1>1, Invariance, PTL

(* Every open socket has exactly one owner, for any number of callers,     *)
(* calls, sockets and disturbances: no two requests share a connection,    *)
(* the selector is never asked to register a socket twice or a closed one, *)
(* and no connection is lost (mux.py:101-113, :150-156, :175-183).         *)
THEOREM SocketsHaveOneOwner == Spec => []OneOwner
<1>1. ASSUME IInv PROVE OneOwner
  <2>0. CallsTyped /\ PairsTyped /\ Owned /\ ConnTyped
    BY <1>1 DEF IInv, Typed
  <2>1. \A x : x \in Held <=> x # None /\ \E c \in Callers : call[c].sock = x
    BY DEF Held
  <2>2. \A x : x \in SocksOf(regQueue) <=> \E p \in regQueue : p[1] = x
    BY DEF SocksOf
  <2>3. \A x : x \in SocksOf(sel) <=> \E p \in sel : p[1] = x
    BY DEF SocksOf
  <2>4. None \notin Open
    BY <2>0, PoolConstants DEF ConnTyped
  <2>5. Open = idle \cup Held \cup SocksOf(regQueue) \cup SocksOf(sel)
    <3>1. \A x \in Open : x \in idle \cup Held \cup SocksOf(regQueue) \cup SocksOf(sel)
      BY <2>0, <2>1, <2>2, <2>3, <2>4 DEF Owned, Covered, Pairs
    <3>2. \A x \in idle \cup Held \cup SocksOf(regQueue) \cup SocksOf(sel) : x \in Open
      BY <2>0, <2>1, <2>2, <2>3 DEF Owned, Disjoint, Pairs
    <3> QED
      BY <3>1, <3>2
  <2>6. \A c, d \in Callers : c # d /\ call[c].sock # None => call[c].sock # call[d].sock
    BY <2>0 DEF Owned, Disjoint
  <2>7. \A p, q \in regQueue \cup sel : p[1] = q[1] => p = q
    BY <2>0 DEF Owned, Disjoint, Pairs
  <2>8. idle \cap (Held \cup SocksOf(regQueue) \cup SocksOf(sel)) = {}
    BY <2>0, <2>1, <2>2, <2>3 DEF Owned, Disjoint, Pairs
  <2>9. Held \cap (SocksOf(regQueue) \cup SocksOf(sel)) = {}
    BY <2>0, <2>1, <2>2, <2>3 DEF Owned, Disjoint, Pairs
  <2>10. SocksOf(regQueue) \cap SocksOf(sel) = {}
    BY <2>0, <2>2, <2>3 DEF Owned, Disjoint, Pairs
  <2> QED
    BY <2>5, <2>6, <2>7, <2>8, <2>9, <2>10 DEF OneOwner
<1> QED
  BY <1>1, Invariance, PTL

(* execute() returns the answer to its own request or None (mux.py:117,    *)
(* :258-261), however late the answer of an earlier call on the socket is. *)
THEOREM AnswersDoNotCross == Spec => []OwnAnswer
BY Invariance, PTL DEF IInv

(* While the pool runs a queued socket is on its way into the selector     *)
(* (mux.py:113-114, :201-214).                                             *)
THEOREM WakeupsAreNotLost == Spec => []NoLostWakeup
BY Invariance, PTL DEF IInv
=============================================================================

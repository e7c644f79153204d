------------------------------ MODULE NodeProofs ----------------------------
(***************************************************************************)
(* The lives of the two kinds of node, for any number of peers, threads    *)
(* and connections: how the threads of a sync node leave its ring and its  *)
(* discovery (dlstorage/node/sync.py, peer_comm/gossip.py), and what       *)
(* stop() of an async node leaves behind (dlstorage/node/async_.py).       *)
(***************************************************************************)
EXTENDS ThreadedNode, AsyncStop, FiniteSetTheorems, SequenceTheorems,
        WellFoundedInduction, TLAPS

-----------------------------------------------------------------------------
(* The sync node. *)

(* The updates that some thread still has to make. *)
Pending == {x \in Updates : \E t \in Threads : x \in Range(job[t])}

(* Who changes the ring goes on to tell the discovery. *)
TellsAfter(j) ==
  \A i \in DOMAIN j : j[i].of = "ring" =>
    \E k \in DOMAIN j : k > i /\ j[k] = Update(j[i].kind, "discovery", j[i].peer)

(* Peer p, with the updates A pending on it, ring r and discovery d: all   *)
(* pending updates pull the same way; once none of the ring is left the    *)
(* ring is what they make of it, and once none is left the two sets agree. *)
Consistent(p, A, r, d) ==
  /\ \A x, y \in A : x.peer = p /\ y.peer = p => x.kind = y.kind
  /\ (\A x \in A : x.peer = p => x.of = "discovery") =>
       \A x \in A : x.peer = p => (p \in r <=> x.kind = "add")
  /\ (\A x \in A : x.peer # p) => (p \in r <=> p \in d)

(* Before start() there are no threads and nothing was learnt. *)
Fresh ==
  life = "new" =>
    /\ running = {} /\ conn = {} /\ ask = {}
    /\ \A t \in Threads : job[t] = <<>>
    /\ ~static => peers = {}

Agreeing ==
  life # "new" /\ ~static =>
    \A p \in Peers \ (contested \cup {seed}) : Consistent(p, Pending, ring, peers)

Telling == ~static => \A t \in Threads : TellsAfter(job[t])

IInv == TypeOK /\ Fresh /\ Telling /\ Agreeing

-----------------------------------------------------------------------------
(* Jobs as sequences of updates. *)

LEMMA RangeConcat ==
  ASSUME NEW U, NEW j \in Seq(U), NEW k \in Seq(U)
  PROVE  /\ j \o k \in Seq(U)
         /\ Range(j \o k) = Range(j) \cup Range(k)
<1>1. /\ j \o k \in Seq(U)
      /\ Len(j \o k) = Len(j) + Len(k)
      /\ \A i \in 1..(Len(j) + Len(k)) :
           (j \o k)[i] = IF i <= Len(j) THEN j[i] ELSE k[i - Len(j)]
  BY ConcatProperties
<1>2. PICK c : c = j \o k
  OBVIOUS
<1>3. DOMAIN c = 1..(Len(j) + Len(k)) /\ DOMAIN j = 1..Len(j) /\ DOMAIN k = 1..Len(k)
  BY <1>1, <1>2
<1>4. ASSUME NEW x \in Range(c) PROVE x \in Range(j) \cup Range(k)
  <2>1. PICK i \in DOMAIN c : x = c[i]
    BY DEF Range
  <2>2. CASE i <= Len(j)
    BY <1>1, <1>2, <1>3, <2>1, <2>2 DEF Range
  <2>3. CASE ~(i <= Len(j))
    <3>1. i - Len(j) \in DOMAIN k /\ x = k[i - Len(j)]
      BY <1>1, <1>2, <1>3, <2>1, <2>3
    <3> QED
      BY <3>1 DEF Range
  <2> QED
    BY <2>2, <2>3
<1>5. ASSUME NEW x \in Range(j) PROVE x \in Range(c)
  <2>1. PICK i \in DOMAIN j : x = j[i]
    BY DEF Range
  <2>2. i \in DOMAIN c /\ c[i] = x
    BY <1>1, <1>2, <1>3, <2>1
  <2> QED
    BY <2>2 DEF Range
<1>6. ASSUME NEW x \in Range(k) PROVE x \in Range(c)
  <2>1. PICK i \in DOMAIN k : x = k[i]
    BY DEF Range
  <2>2. i + Len(j) \in DOMAIN c /\ c[i + Len(j)] = x
    BY <1>1, <1>2, <1>3, <2>1
  <2> QED
    BY <2>2 DEF Range
<1> QED
  BY <1>1, <1>2, <1>4, <1>5, <1>6

LEMMA RangeTail ==
  ASSUME NEW U, NEW j \in Seq(U), j # <<>>
  PROVE  /\ Head(j) \in U /\ Tail(j) \in Seq(U)
         /\ Range(j) = {Head(j)} \cup Range(Tail(j))
<1>1. /\ Head(j) = j[1] /\ Tail(j) \in Seq(U) /\ Len(Tail(j)) = Len(j) - 1
      /\ Len(j) \in Nat /\ Len(j) > 0
      /\ \A i \in 1..(Len(j) - 1) : Tail(j)[i] = j[i + 1]
  OBVIOUS
<1>2. PICK c : c = Tail(j)
  OBVIOUS
<1>3. DOMAIN c = 1..(Len(j) - 1) /\ DOMAIN j = 1..Len(j)
  BY <1>1, <1>2
<1>4. ASSUME NEW x \in Range(j) PROVE x = j[1] \/ x \in Range(c)
  <2>1. PICK i \in DOMAIN j : x = j[i]
    BY DEF Range
  <2>2. i # 1 => i - 1 \in DOMAIN c /\ c[i - 1] = x
    BY <1>1, <1>2, <1>3, <2>1
  <2> QED
    BY <2>1, <2>2 DEF Range
<1>5. ASSUME NEW x \in Range(c) PROVE x \in Range(j)
  <2>1. PICK i \in DOMAIN c : x = c[i]
    BY DEF Range
  <2>2. i + 1 \in DOMAIN j /\ j[i + 1] = x
    BY <1>1, <1>2, <1>3, <2>1
  <2> QED
    BY <2>2 DEF Range
<1>6. j[1] \in Range(j)
  BY <1>1, <1>3 DEF Range
<1> QED
  BY <1>1, <1>2, <1>4, <1>5, <1>6

(* What is left of a job still tells the discovery. *)
LEMMA TellsTail ==
  ASSUME NEW j \in Seq(Updates), j # <<>>, TellsAfter(j)
  PROVE  /\ TellsAfter(Tail(j))
         /\ Head(j).of = "ring" =>
              \E x \in Range(Tail(j)) : x.of = "discovery" /\ x.peer = Head(j).peer
<1>1. /\ Head(j) = j[1] /\ Len(j) \in Nat /\ Len(j) > 0
      /\ \A i \in 1..(Len(j) - 1) : Tail(j)[i] = j[i + 1]
      /\ DOMAIN Tail(j) = 1..(Len(j) - 1) /\ DOMAIN j = 1..Len(j)
  OBVIOUS
<1>2. PICK c : c = Tail(j)
  OBVIOUS
<1>3. ASSUME NEW i \in DOMAIN j, j[i].of = "ring"
      PROVE  \E k \in DOMAIN c : k > i - 1 /\ c[k] = Update(j[i].kind, "discovery", j[i].peer)
  <2>1. PICK k \in DOMAIN j : k > i /\ j[k] = Update(j[i].kind, "discovery", j[i].peer)
    BY <1>3 DEF TellsAfter
  <2>2. k - 1 \in DOMAIN c /\ k - 1 > i - 1 /\ c[k - 1] = j[k]
    BY <1>1, <1>2, <1>3, <2>1
  <2> QED
    BY <2>1, <2>2
<1>4. TellsAfter(c)
  <2> SUFFICES ASSUME NEW i \in DOMAIN c, c[i].of = "ring"
               PROVE  \E k \in DOMAIN c : k > i /\ c[k] = Update(c[i].kind, "discovery", c[i].peer)
    BY DEF TellsAfter
  <2>1. i + 1 \in DOMAIN j /\ c[i] = j[i + 1] /\ (i + 1) - 1 = i
    BY <1>1, <1>2
  <2> QED
    BY <1>3, <2>1
<1>5. ASSUME j[1].of = "ring"
      PROVE  \E x \in Range(c) : x.of = "discovery" /\ x.peer = j[1].peer
  <2>1. 1 \in DOMAIN j
    BY <1>1
  <2>2. PICK k \in DOMAIN c : c[k] = Update(j[1].kind, "discovery", j[1].peer)
    BY <1>3, <1>5, <2>1
  <2> QED
    BY <2>2 DEF Range, Update
<1> QED
  BY <1>1, <1>2, <1>4, <1>5

LEMMA TellsConcat ==
  ASSUME NEW j \in Seq(Updates), NEW k \in Seq(Updates), TellsAfter(j), TellsAfter(k)
  PROVE  TellsAfter(j \o k)
<1>1. /\ Len(j \o k) = Len(j) + Len(k) /\ j \o k \in Seq(Updates)
      /\ \A i \in 1..(Len(j) + Len(k)) :
           (j \o k)[i] = IF i <= Len(j) THEN j[i] ELSE k[i - Len(j)]
  BY ConcatProperties
<1>2. PICK c : c = j \o k
  OBVIOUS
<1>3. /\ DOMAIN c = 1..(Len(j) + Len(k)) /\ DOMAIN j = 1..Len(j) /\ DOMAIN k = 1..Len(k)
      /\ Len(j) \in Nat /\ Len(k) \in Nat
  BY <1>1, <1>2
<1> SUFFICES ASSUME NEW i \in DOMAIN c, c[i].of = "ring"
             PROVE  \E n \in DOMAIN c : n > i /\ c[n] = Update(c[i].kind, "discovery", c[i].peer)
  BY <1>2 DEF TellsAfter
<1>4. CASE i <= Len(j)
  <2>1. i \in DOMAIN j /\ c[i] = j[i]
    BY <1>1, <1>2, <1>3, <1>4
  <2>2. PICK n \in DOMAIN j : n > i /\ j[n] = Update(j[i].kind, "discovery", j[i].peer)
    BY <2>1 DEF TellsAfter
  <2>3. n \in DOMAIN c /\ c[n] = j[n]
    BY <1>1, <1>2, <1>3, <2>2
  <2> QED
    BY <2>1, <2>2, <2>3
<1>5. CASE ~(i <= Len(j))
  <2>1. i - Len(j) \in DOMAIN k /\ c[i] = k[i - Len(j)]
    BY <1>1, <1>2, <1>3, <1>5
  <2>2. PICK n \in DOMAIN k : /\ n > i - Len(j)
                              /\ k[n] = Update(c[i].kind, "discovery", c[i].peer)
    BY <2>1 DEF TellsAfter
  <2>3. n + Len(j) \in DOMAIN c /\ n + Len(j) > i /\ c[n + Len(j)] = k[n]
    BY <1>1, <1>2, <1>3, <2>2
  <2> QED
    BY <2>2, <2>3
<1> QED
  BY <1>4, <1>5

-----------------------------------------------------------------------------
(* The jobs a thread begins. *)

(* A job of one kind on some of ps, which changes the ring for each peer   *)
(* it is about.                                                            *)
Task(j, kind, ps) ==
  /\ j \in Seq(Updates)
  /\ \A x \in Range(j) : /\ x.kind = kind /\ x.peer \in ps
                         /\ Update(kind, "ring", x.peer) \in Range(j)
  /\ ~static => TellsAfter(j)

LEMMA OneTask ==
  ASSUME NEW p \in Peers, NEW kind \in {"add", "drop"}, static \in BOOLEAN,
         NEW j, j = <<Update(kind, "ring", p)>> \o Told(kind, p)
  PROVE  Task(j, kind, {p}) /\ Update(kind, "ring", p) \in Range(j)
<1> DEFINE r == Update(kind, "ring", p)
           d == Update(kind, "discovery", p)
<1>1. r \in Updates /\ d \in Updates
  BY DEF Update, Updates
<1>2. /\ r.of = "ring" /\ r.kind = kind /\ r.peer = p
      /\ d.of = "discovery" /\ d.kind = kind /\ d.peer = p
      /\ r = Update(kind, "ring", p) /\ d = Update(kind, "discovery", p)
  BY DEF Update
<1>5. j = <<r>> \o Told(kind, p)
  OBVIOUS
<1> HIDE DEF r, d
<1>3. CASE static
  <2>1. j = <<r>> /\ j \in Seq(Updates)
    <3>1. Told(kind, p) = <<>>
      BY <1>3 DEF Told
    <3>2. <<r>> \o <<>> = <<r>>
      OBVIOUS
    <3> QED
      BY <1>1, <1>5, <3>1, <3>2
  <2>2. Range(j) = {r}
    BY <2>1 DEF Range
  <2> QED
    BY <1>1, <1>2, <1>3, <2>1, <2>2 DEF Task
<1>4. CASE ~static
  <2>1. j \in Seq(Updates) /\ DOMAIN j = {1, 2} /\ j[1] = r /\ j[2] = d
    <3>1. Told(kind, p) = <<d>>
      BY <1>4 DEF Told, d
    <3>2. PICK s1, s2 : s1 = <<r>> /\ s2 = <<d>>
      OBVIOUS
    <3>3. /\ s1 \in Seq(Updates) /\ Len(s1) = 1 /\ s1[1] = r
          /\ s2 \in Seq(Updates) /\ Len(s2) = 1 /\ s2[1] = d
      BY <1>1, <3>2
    <3>4. j = s1 \o s2
      BY <1>5, <3>1, <3>2
    <3>5. /\ s1 \o s2 \in Seq(Updates)
          /\ Len(s1 \o s2) = Len(s1) + Len(s2)
          /\ \A i \in 1..(Len(s1) + Len(s2)) :
               (s1 \o s2)[i] = IF i <= Len(s1) THEN s1[i] ELSE s2[i - Len(s1)]
      BY <3>3, ConcatProperties
    <3>6. PICK c : c = s1 \o s2
      OBVIOUS
    <3>7. c \in Seq(Updates) /\ Len(c) = 2 /\ c[1] = s1[1] /\ c[2] = s2[1]
      BY <3>3, <3>5, <3>6
    <3>8. DOMAIN c = {1, 2}
      BY <3>7
    <3> QED
      BY <3>3, <3>4, <3>6, <3>7, <3>8
  <2>2. Range(j) = {r, d}
    BY <2>1 DEF Range
  <2>3. TellsAfter(j)
    BY <1>2, <2>1 DEF TellsAfter
  <2> QED
    BY <1>1, <1>2, <2>1, <2>2, <2>3 DEF Task
<1> QED
  BY <1>3, <1>4

LEMMA TaskConcat ==
  ASSUME NEW ps, NEW kind, NEW j, NEW k, Task(j, kind, ps), Task(k, kind, ps)
  PROVE  Task(j \o k, kind, ps)
<1>1. j \in Seq(Updates) /\ k \in Seq(Updates)
  BY DEF Task
<1>2. j \o k \in Seq(Updates) /\ Range(j \o k) = Range(j) \cup Range(k)
  BY <1>1, RangeConcat
<1>3. ~static => TellsAfter(j \o k)
  BY <1>1, TellsConcat DEF Task
<1> QED
  BY <1>2, <1>3 DEF Task

(* A set of natural numbers has a least element. *)
LEMMA LeastNat ==
  ASSUME NEW T \in SUBSET Nat, T # {}
  PROVE  \E m \in T : \A k \in T : m <= k
<1>1. PICK m \in T : \A k \in T : ~(<<k, m>> \in OpToRel(<, Nat))
  BY NatLessThanWellFounded, WFMin
<1>2. \A k \in T : ~(k < m)
  BY <1>1 DEF OpToRel
<1> QED
  BY <1>2

(* FlattenSeq adds one sequence after the other. *)
IsFlat(f, ss, n) ==
  f = [i \in 1..n |-> IF i = 1 THEN ss[i] ELSE f[i - 1] \o ss[i]]

LEMMA FlatExists ==
  ASSUME NEW ss, NEW n \in Nat
  PROVE  \E f : IsFlat(f, ss, n)
<1> DEFINE T == {k \in Nat : ~\E f : IsFlat(f, ss, k)}
<1>1. CASE T = {}
  BY <1>1
<1>2. CASE T # {}
  <2>1. PICK m \in T : \A k \in T : m <= k
    BY <1>2, LeastNat
  <2>2. m \in Nat /\ ~\E f : IsFlat(f, ss, m)
    BY <2>1
  <2>3. CASE m = 0
    <3> DEFINE f == [i \in 1..0 |-> <<>>]
    <3>1. f = [i \in 1..0 |-> IF i = 1 THEN ss[i] ELSE f[i - 1] \o ss[i]]
      OBVIOUS
    <3> QED
      BY <2>2, <2>3, <3>1 DEF IsFlat
  <2>4. CASE m # 0
    <3>1. m - 1 \in Nat /\ m - 1 \notin T
      BY <2>1, <2>2, <2>4
    <3>2. PICK f : IsFlat(f, ss, m - 1)
      BY <3>1
    <3> DEFINE last == IF m = 1 THEN ss[m] ELSE f[m - 1] \o ss[m]
               g == [i \in 1..m |-> IF i = m THEN last ELSE f[i]]
               h == [i \in 1..m |-> IF i = 1 THEN ss[i] ELSE g[i - 1] \o ss[i]]
    <3>3. ASSUME NEW i \in 1..m PROVE g[i] = h[i]
      <4>1. CASE i = m
        <5>1. i # 1 => g[i - 1] = f[m - 1]
          BY <2>2, <2>4, <4>1
        <5> QED
          BY <4>1, <5>1
      <4>2. CASE i # m
        <5>1. i \in 1..(m - 1) /\ g[i] = f[i]
          BY <2>2, <4>2
        <5>2. i # 1 => g[i - 1] = f[i - 1]
          BY <2>2, <5>1
        <5>3. f[i] = IF i = 1 THEN ss[i] ELSE f[i - 1] \o ss[i]
          BY <3>2, <5>1 DEF IsFlat
        <5> QED
          BY <5>1, <5>2, <5>3
      <4> QED
        BY <4>1, <4>2
    <3>4. g = h
      BY <3>3
    <3>5. IsFlat(g, ss, m)
      BY <3>4 DEF IsFlat
    <3> QED
      BY <2>2, <3>5
  <2> QED
    BY <2>3, <2>4
<1> QED
  BY <1>1, <1>2

(* A set of sequences that holds the empty one and is closed under the     *)
(* addition of each part holds the whole.                                  *)
LEMMA FlattenIn ==
  ASSUME NEW U, NEW ss \in Seq(Seq(U)), NEW G \in SUBSET Seq(U), <<>> \in G,
         \A g \in G, i \in 1..Len(ss) : g \o ss[i] \in G
  PROVE  FlattenSeq(ss) \in G
<1> DEFINE L == Len(ss)
<1>0. L \in Nat
  OBVIOUS
<1>1. CASE L = 0
  <2>1. ss = <<>> /\ FlattenSeq(ss) = ss
    BY <1>1 DEF FlattenSeq
  <2> QED
    BY <2>1
<1>2. CASE L # 0
  <2>1. PICK f : IsFlat(f, ss, L) /\ FlattenSeq(ss) = f[L]
    <3> DEFINE s == CHOOSE g : IsFlat(g, ss, L)
    <3>1. IsFlat(s, ss, L)
      BY <1>0, FlatExists
    <3>2. FlattenSeq(ss) = s[L]
      BY <1>2 DEF FlattenSeq, IsFlat
    <3> QED
      BY <3>1, <3>2
  <2> DEFINE T == {n \in 1..L : f[n] \notin G}
  <2>2. CASE T = {}
    <3>0. L \in 1..L
      <4> HIDE DEF L
      <4> QED
        BY <1>0, <1>2
    <3>1. L \in 1..L /\ L \notin T
      <4> HIDE DEF T
      <4> QED
        BY <3>0, <2>2
    <3>2. f[L] \in G
      BY <3>1
    <3> QED
      BY <2>1, <3>2
  <2>3. CASE T # {}
    <3>0. T \subseteq Nat
      OBVIOUS
    <3>1. PICK m \in T : \A k \in T : m <= k
      <4> HIDE DEF T
      <4> QED
        BY <2>3, <3>0, LeastNat
    <3>2. m \in 1..L /\ f[m] \notin G
      BY <3>1
    <3>3. f[m] = IF m = 1 THEN ss[m] ELSE f[m - 1] \o ss[m]
      BY <2>1, <3>2 DEF IsFlat
    <3>4. CASE m = 1
      <4>1. ss[m] \in Seq(U)
        BY <3>2
      <4>2. <<>> \o ss[m] = ss[m]
        BY <4>1, ConcatEmptySeq
      <4> QED
        BY <3>2, <3>3, <3>4, <4>2
    <3>5. CASE m # 1
      <4>1. m - 1 \in 1..L /\ ~(m <= m - 1)
        <5> HIDE DEF L, T
        <5> QED
          BY <1>0, <3>2, <3>5
      <4>2. m - 1 \notin T
        <5> HIDE DEF T
        <5> QED
          BY <3>1, <4>1
      <4>3. f[m - 1] \in G
        BY <4>1, <4>2
      <4> QED
        BY <3>2, <3>3, <3>5, <4>3
    <3> QED
      BY <3>4, <3>5
  <2> QED
    BY <2>2, <2>3
<1> QED
  BY <1>1, <1>2

(* The additions an answer leads to, for any number of new peers. *)
LEMMA AddAllTask ==
  ASSUME NEW ps \in SUBSET Peers, static \in BOOLEAN
  PROVE  Task(AddAll(ps), "add", ps)
<1>1. IsFiniteSet(ps)
  BY ThreadedConstants, FS_Subset
<1>2. Cardinality(ps) \in Nat /\ ExistsBijection(1..Cardinality(ps), ps)
  BY <1>1, FS_CardinalityType
<1>3. SetToSeq(ps) \in [1..Cardinality(ps) -> ps]
  <2>1. \E f \in [1..Cardinality(ps) -> ps] : IsInjective(f)
    BY <1>2 DEF ExistsBijection, Bijection, Injection, IsInjective
  <2> QED
    BY <2>1 DEF SetToSeq
<1> DEFINE ss == [i \in 1..Cardinality(ps) |-> Add(SetToSeq(ps)[i])]
<1>4. ASSUME NEW i \in 1..Cardinality(ps) PROVE Task(ss[i], "add", ps)
  <2>1. PICK p \in ps : p = SetToSeq(ps)[i]
    BY <1>3
  <2>2. Task(Add(p), "add", {p})
    BY OneTask DEF Add
  <2>3. Task(Add(p), "add", ps)
    BY <2>2 DEF Task
  <2> QED
    BY <2>1, <2>3
<1>5. ss \in Seq(Seq(Updates)) /\ Len(ss) = Cardinality(ps)
  <2>1. \A i \in 1..Cardinality(ps) : ss[i] \in Seq(Updates)
    BY <1>4 DEF Task
  <2> QED
    BY <1>2, <2>1
<1> DEFINE G == {g \in Seq(Updates) : Task(g, "add", ps)}
<1>6. <<>> \in G
  BY DEF Task, TellsAfter, Range
<1>7. \A g \in G, i \in 1..Len(ss) : g \o ss[i] \in G
  <2> TAKE g \in G, i \in 1..Len(ss)
  <2> HIDE DEF ss
  <2>1. Task(g \o ss[i], "add", ps)
    BY <1>4, <1>5, TaskConcat
  <2> QED
    BY <2>1 DEF Task
<1>8. AddAll(ps) = FlattenSeq(ss)
  BY DEF AddAll
<1>9. FlattenSeq(ss) \in G
  <2> HIDE DEF ss, G
  <2>1. G \subseteq Seq(Updates)
    BY DEF G
  <2> QED
    BY <1>5, <1>6, <1>7, <2>1, FlattenIn
<1> QED
  BY <1>8, <1>9

-----------------------------------------------------------------------------
(* What is pending on a peer. *)

(* One update is made, and the discovery is told of a change of the ring. *)
LEMMA ConsistentStep ==
  ASSUME NEW A \in SUBSET Updates, NEW B, NEW u \in Updates, A = B \cup {u},
         u.of = "ring" => \E x \in B : x.of = "discovery" /\ x.peer = u.peer,
         NEW p, NEW r, NEW d, Consistent(p, A, r, d),
         NEW r1, r1 = (IF u.of = "ring" THEN Apply(u, r) ELSE r),
         NEW d1, d1 = (IF u.of = "discovery" THEN Apply(u, d) ELSE d)
  PROVE  Consistent(p, B, r1, d1)
<1>1. u.kind \in {"add", "drop"} /\ u.of \in {"ring", "discovery"}
  BY DEF Updates
<1>2. \A x \in B : x \in A
  OBVIOUS
<1>3. CASE u.peer # p
  <2>1. (p \in r1 <=> p \in r) /\ (p \in d1 <=> p \in d)
    BY <1>3 DEF Apply
  <2> QED
    BY <1>2, <1>3, <2>1 DEF Consistent
<1>4. CASE u.peer = p /\ u.of = "ring"
  <2>1. p \in r1 <=> u.kind = "add"
    BY <1>1, <1>4 DEF Apply
  <2>2. \A x \in B : x.peer = p => x.kind = u.kind
    BY <1>2, <1>4 DEF Consistent
  <2>3. \E x \in B : x.peer = p
    BY <1>4
  <2> QED
    BY <1>2, <2>1, <2>2, <2>3 DEF Consistent
<1>5. CASE u.peer = p /\ u.of = "discovery"
  <2>1. p \in d1 <=> u.kind = "add"
    BY <1>1, <1>5 DEF Apply
  <2>2. r1 = r /\ u \in A
    BY <1>5
  <2>3. ASSUME \A x \in B : x.peer = p => x.of = "discovery"
        PROVE  \A x \in A : x.peer = p => (p \in r <=> x.kind = "add")
    BY <1>5, <2>3 DEF Consistent
  <2>4. (\A x \in B : x.peer # p) => (p \in r <=> u.kind = "add")
    BY <1>5, <2>2, <2>3
  <2> QED
    BY <1>2, <2>1, <2>2, <2>3, <2>4 DEF Consistent
<1> QED
  BY <1>1, <1>3, <1>4, <1>5

(* A thread begins a job that meets no contrary one. *)
LEMMA ConsistentBegin ==
  ASSUME NEW A \in SUBSET Updates, NEW j, NEW kind, NEW ps, Task(j, kind, ps),
         NEW p, NEW r, NEW d,
         p \in ps => \A x \in A : x.peer = p => x.kind = kind,
         \/ Consistent(p, A, r, d)
         \/ p \in ps /\ Update(kind, "ring", p) \in Range(j)
  PROVE  Consistent(p, A \cup Range(j), r, d)
<1>1. CASE \E x \in Range(j) : x.peer = p
  <2>1. p \in ps /\ Update(kind, "ring", p) \in Range(j)
    BY <1>1 DEF Task
  <2>2. \A x \in A \cup Range(j) : x.peer = p => x.kind = kind
    BY <2>1 DEF Task
  <2>3. Update(kind, "ring", p).of = "ring" /\ Update(kind, "ring", p).peer = p
    BY DEF Update
  <2> QED
    BY <2>1, <2>2, <2>3 DEF Consistent
<1>2. CASE ~\E x \in Range(j) : x.peer = p
  <2>1. Update(kind, "ring", p) \notin Range(j)
    BY <1>2 DEF Update
  <2> QED
    BY <1>2, <2>1 DEF Consistent
<1> QED
  BY <1>1, <1>2

LEMMA PendingStep ==
  ASSUME job \in [Threads -> Seq(Updates)], NEW t \in Threads, job[t] # <<>>,
         job' = [job EXCEPT ![t] = Tail(@)]
  PROVE  /\ Head(job[t]) \in Updates
         /\ Pending = Pending' \cup {Head(job[t])}
         /\ Range(Tail(job[t])) \subseteq Pending'
<1>1. PICK j \in Seq(Updates) : j = job[t]
  OBVIOUS
<1>2. Head(j) \in Updates /\ Tail(j) \in Seq(Updates) /\ Range(j) = {Head(j)} \cup Range(Tail(j))
  BY <1>1, RangeTail
<1>3. job'[t] = Tail(j) /\ \A u \in Threads : u # t => job'[u] = job[u]
  BY <1>1
<1>4. Range(Tail(j)) \subseteq Updates
  BY <1>2 DEF Range
<1> QED
  BY <1>1, <1>2, <1>3, <1>4 DEF Pending

LEMMA PendingBegin ==
  ASSUME job \in [Threads -> Seq(Updates)], NEW t \in Threads, job[t] = <<>>,
         NEW j \in Seq(Updates), job' = [job EXCEPT ![t] = j]
  PROVE  Pending' = Pending \cup Range(j)
<1>1. job'[t] = j /\ \A u \in Threads : u # t => job'[u] = job[u]
  OBVIOUS
<1>2. Range(j) \subseteq Updates /\ Range(job[t]) = {}
  BY DEF Range
<1> QED
  BY <1>1, <1>2 DEF Pending

(* Nobody is at work against a job that meets nobody. *)
LEMMA MeetsNobody ==
  ASSUME NEW t \in Threads, job[t] = <<>>, NEW kind, NEW p, ~Meets(t, kind, p)
  PROVE  \A x \in Pending : x.peer = p => x.kind = kind
<1> TAKE x \in Pending
<1>1. PICK u \in Threads : x \in Range(job[u])
  BY DEF Pending
<1>2. PICK i \in DOMAIN job[u] : x = job[u][i]
  BY <1>1 DEF Range
<1>3. u # t
  BY <1>2
<1> QED
  BY <1>2, <1>3 DEF Meets

(* A thread that has no job begins one. *)
LEMMA BeginKeeps ==
  ASSUME IInv, life # "new", NEW t \in Threads, job[t] = <<>>,
         NEW kind \in {"add", "drop"}, NEW ps \in SUBSET Peers, NEW j, Task(j, kind, ps),
         kind = "drop" => \A p \in ps : Update(kind, "ring", p) \in Range(j),
         Begin(t, kind, ps, j),
         UNCHANGED <<static, seed, life, ring, peers>>
  PROVE  /\ job' \in [Threads -> Seq(Updates)]
         /\ \A u \in Threads : u # t => job'[u] = job[u]
         /\ contested' \subseteq Peers
         /\ Telling' /\ Agreeing'
<1>1. job \in [Threads -> Seq(Updates)] /\ contested \subseteq Peers /\ static \in BOOLEAN
  BY DEF IInv, TypeOK
<1>2. j \in Seq(Updates) /\ job' = [job EXCEPT ![t] = j]
  BY DEF Task, Begin
<1>3. job' \in [Threads -> Seq(Updates)] /\ job'[t] = j /\ \A u \in Threads : u # t => job'[u] = job[u]
  BY <1>1, <1>2
<1>4. contested' \subseteq Peers
  BY <1>1 DEF Begin
<1>5. Telling'
  <2> SUFFICES ASSUME ~static, NEW u \in Threads PROVE TellsAfter(job'[u])
    BY DEF Telling
  <2> QED
    BY <1>3 DEF Task, IInv, Telling
<1>6. Agreeing'
  <2> SUFFICES ASSUME ~static, NEW p \in Peers, p \notin contested', p # seed
               PROVE  Consistent(p, Pending', ring, peers)
    BY DEF Agreeing
  <2>1. Pending' = Pending \cup Range(j) /\ Pending \subseteq Updates
    BY <1>1, <1>2, PendingBegin DEF Pending
  <2>2. p \in ps => ~Meets(t, kind, p)
    BY DEF Begin
  <2>3. p \in ps => \A x \in Pending : x.peer = p => x.kind = kind
    BY <2>2, MeetsNobody
  <2>4. p \notin contested \/ (p \in ps /\ kind = "drop")
    BY DEF Begin
  <2>5. p \notin contested => Consistent(p, Pending, ring, peers)
    BY DEF IInv, Agreeing
  <2>6. \/ Consistent(p, Pending, ring, peers)
        \/ p \in ps /\ Update(kind, "ring", p) \in Range(j)
    BY <2>4, <2>5
  <2>7. Consistent(p, Pending \cup Range(j), ring, peers)
    BY <2>1, <2>3, <2>6, ConsistentBegin
  <2> QED
    BY <2>1, <2>7
<1> QED
  BY <1>3, <1>4, <1>5, <1>6

-----------------------------------------------------------------------------
(* The invariant. *)

LEMMA InitHolds == Init => IInv
<1> SUFFICES ASSUME Init PROVE IInv
  OBVIOUS
<1>1. TypeOK
  <2>1. seed \in Peers \cup {Self} /\ peers \subseteq Peers
    BY ThreadedConstants DEF Init
  <2>2. job \in [Threads -> Seq(Updates)] /\ \A t \in Threads : job[t] = <<>>
    BY DEF Init
  <2>3. \A h \in Handlers \ conn : job[h] = <<>>
    BY <2>2 DEF Threads
  <2> QED
    BY <2>1, <2>2, <2>3, ThreadedConstants DEF Init, TypeOK
<1>2. Fresh
  BY DEF Init, Fresh
<1>3. Telling
  BY DEF Init, Telling, TellsAfter
<1> QED
  BY <1>1, <1>2, <1>3 DEF Init, IInv, Agreeing

(* One thread makes one update. *)
LEMMA UpdateStep ==
  ASSUME IInv, NEW t \in Threads, Step(t)
  PROVE  IInv'
<1>1. /\ job \in [Threads -> Seq(Updates)] /\ static \in BOOLEAN
      /\ ring \subseteq Peers \cup {Self} /\ peers \subseteq Peers
  BY DEF IInv, TypeOK
<1>2. PICK j \in Seq(Updates) : j = job[t]
  BY <1>1
<1>3. j # <<>> /\ job' = [job EXCEPT ![t] = Tail(@)]
  BY <1>2 DEF Step
<1>4. PICK u : u = Head(j)
  OBVIOUS
<1>5. /\ ring' = (IF u.of = "ring" THEN Apply(u, ring) ELSE ring)
      /\ peers' = (IF u.of = "discovery" THEN Apply(u, peers) ELSE peers)
  BY <1>2, <1>4 DEF Step
<1>6. UNCHANGED <<static, seed, life, running, conn, ask, alive, heard, mail, changes, contested>>
  BY DEF Step, node, world
<1>7. u \in Updates /\ Pending = Pending' \cup {u} /\ Range(Tail(j)) \subseteq Pending'
  BY <1>1, <1>2, <1>3, <1>4, PendingStep
<1>8. Tail(j) \in Seq(Updates)
  BY <1>3, RangeTail
<1>9. job'[t] = Tail(j) /\ \A v \in Threads : v # t => job'[v] = job[v]
  BY <1>1, <1>2, <1>3
<1>10. life # "new"
  BY <1>2, <1>3 DEF IInv, Fresh
<1>11. TypeOK'
  <2>1. job' \in [Threads -> Seq(Updates)]
    BY <1>1, <1>2, <1>3, <1>8
  <2>2. u.peer \in Peers /\ u.peer # Self
    BY <1>7, ThreadedConstants DEF Updates
  <2>3. ring' \subseteq Peers \cup {Self} /\ peers' \subseteq Peers /\ Self \in ring'
    BY <1>1, <1>5, <1>10, <2>2 DEF Apply, IInv, TypeOK
  <2>4. ASSUME NEW h \in Handlers \ conn PROVE job'[h] = <<>>
    <3>1. h \in Threads /\ job[h] = <<>>
      BY DEF Threads, IInv, TypeOK
    <3> QED
      BY <1>2, <1>3, <1>9, <3>1
  <2> QED
    BY <1>6, <2>1, <2>3, <2>4 DEF IInv, TypeOK
<1>12. Fresh'
  BY <1>6, <1>10 DEF Fresh
<1>13. Telling'
  <2> SUFFICES ASSUME ~static, NEW v \in Threads PROVE TellsAfter(job'[v])
    BY <1>6 DEF Telling
  <2>1. TellsAfter(j) /\ TellsAfter(job[v])
    BY <1>2 DEF IInv, Telling
  <2>2. TellsAfter(Tail(j))
    BY <1>3, <2>1, TellsTail
  <2> QED
    BY <1>9, <2>1, <2>2
<1>14. Agreeing'
  <2> SUFFICES ASSUME ~static, NEW p \in Peers \ (contested \cup {seed})
               PROVE  Consistent(p, Pending', ring', peers')
    BY <1>6 DEF Agreeing
  <2>1. Consistent(p, Pending, ring, peers) /\ Pending \subseteq Updates
    BY <1>10 DEF IInv, Agreeing, Pending
  <2>2. TellsAfter(j)
    BY <1>2 DEF IInv, Telling
  <2>3. u.of = "ring" => \E x \in Pending' : x.of = "discovery" /\ x.peer = u.peer
    BY <1>3, <1>4, <1>7, <2>2, TellsTail
  <2> QED
    BY <1>5, <1>7, <2>1, <2>3, ConsistentStep
<1> QED
  BY <1>11, <1>12, <1>13, <1>14 DEF IInv

(* A step that touches no set, job or contest. *)
LEMMA OtherStep ==
  ASSUME IInv, UNCHANGED <<static, seed, ring, peers, job, contested>>,
         life = "new" <=> life' = "new"
  PROVE  Telling' /\ Agreeing'
<1>1. Pending' = Pending
  BY DEF Pending
<1> QED
  BY <1>1 DEF IInv, Telling, Agreeing

LEMMA GossipStep ==
  ASSUME IInv, GossipThread
  PROVE  IInv'
<1>0. Gossiper \in Threads /\ Gossiper \notin Handlers
  BY ThreadedConstants DEF Threads, Gossiper
<1>1. CASE Round
  <2>1. UNCHANGED <<static, seed, life, running, conn, ring, peers, job, alive, heard, mail, changes, contested>>
    BY <1>1 DEF Round, node, world
  <2>2. ask' \subseteq GetPeers /\ life # "new"
    BY <1>1 DEF Round, Samples, IInv, Fresh
  <2>3. GetPeers \subseteq Peers
    BY DEF GetPeers, IInv, TypeOK
  <2>4. Telling' /\ Agreeing'
    BY <2>1, OtherStep
  <2> QED
    BY <2>1, <2>2, <2>3, <2>4 DEF IInv, TypeOK, Fresh
<1>2. ASSUME NEW p \in Peers, Answered(p) PROVE IInv'
  <2>1. /\ job[Gossiper] = <<>> /\ p \in ask /\ ask' = ask \ {p}
        /\ UNCHANGED <<static, seed, life, running, conn, ring, peers, alive, heard, mail, changes>>
    BY <1>2 DEF Answered, node, world
  <2>2. life # "new"
    BY <2>1 DEF IInv, Fresh
  <2>3. PICK ps \in SUBSET Peers : Begin(Gossiper, "add", ps, AddAll(ps))
    <3>1. PICK named \in SUBSET (heard \ {p}) :
            Begin(Gossiper, "add", named \ ({Self} \cup ring), AddAll(named \ ({Self} \cup ring)))
      BY <1>2 DEF Answered
    <3>2. named \ ({Self} \cup ring) \subseteq Peers
      BY DEF IInv, TypeOK
    <3> QED
      BY <3>1, <3>2
  <2>4. Task(AddAll(ps), "add", ps)
    BY AddAllTask DEF IInv, TypeOK
  <2>5. /\ job' \in [Threads -> Seq(Updates)]
        /\ \A u \in Threads : u # Gossiper => job'[u] = job[u]
        /\ contested' \subseteq Peers
        /\ Telling' /\ Agreeing'
    BY <1>0, <2>1, <2>2, <2>3, <2>4, BeginKeeps
  <2> QED
    BY <1>0, <2>1, <2>2, <2>5 DEF IInv, TypeOK, Fresh, Threads
<1>3. ASSUME NEW p \in Peers, Unanswered(p) PROVE IInv'
  <2>1. /\ job[Gossiper] = <<>> /\ p \in ask /\ ask' = ask \ {p}
        /\ UNCHANGED <<static, seed, life, running, conn, ring, peers, alive, heard, mail>>
        /\ Begin(Gossiper, "drop", {p}, Drop(p))
    BY <1>3 DEF Unanswered, node
  <2>2. life # "new"
    BY <2>1 DEF IInv, Fresh
  <2>3. changes' \in 0..MaxChanges
    BY <1>3, ThreadedConstants DEF Unanswered, Changed, IInv, TypeOK
  <2>4. Task(Drop(p), "drop", {p}) /\ Update("drop", "ring", p) \in Range(Drop(p))
    BY OneTask DEF IInv, TypeOK, Drop
  <2>5. /\ job' \in [Threads -> Seq(Updates)]
        /\ \A u \in Threads : u # Gossiper => job'[u] = job[u]
        /\ contested' \subseteq Peers
        /\ Telling' /\ Agreeing'
    BY <1>0, <2>1, <2>2, <2>4, BeginKeeps
  <2> QED
    BY <1>0, <2>1, <2>2, <2>3, <2>5 DEF IInv, TypeOK, Fresh, Threads
<1> QED
  BY <1>0, <1>1, <1>2, <1>3, UpdateStep DEF GossipThread

(* A handler thread takes an announcement. *)
LEMMA HandleStep ==
  ASSUME IInv, NEW h \in Handlers, NEW m \in mail, Handle(h, m)
  PROVE  IInv'
<1>1. /\ h \in conn /\ job[h] = <<>> /\ mail' \subseteq mail
      /\ UNCHANGED <<static, seed, life, running, conn, ring, peers, ask, alive, heard, changes>>
      /\ HandleAnnounce(h, m) \/ HandleLeave(h, m)
  BY DEF Handle, node
<1>2. life # "new" /\ h \in Threads /\ m.peer \in Peers
  BY <1>1 DEF IInv, Fresh, TypeOK, Threads
<1>3. ASSUME /\ job' \in [Threads -> Seq(Updates)]
             /\ \A u \in Threads : u # h => job'[u] = job[u]
             /\ contested' \subseteq Peers
             /\ Telling' /\ Agreeing'
      PROVE  IInv'
  <2>1. \A g \in Handlers \ conn : job'[g] = <<>>
    BY <1>1, <1>3 DEF IInv, TypeOK, Threads
  <2> QED
    BY <1>1, <1>2, <1>3, <2>1 DEF IInv, TypeOK, Fresh
<1>4. CASE UNCHANGED <<job, contested>>
  <2>1. Telling' /\ Agreeing'
    BY <1>1, <1>4, OtherStep
  <2> QED
    BY <1>3, <1>4, <2>1 DEF IInv, TypeOK
<1>5. CASE Begin(h, "add", {m.peer}, Add(m.peer))
  <2>1. Task(Add(m.peer), "add", {m.peer})
    BY <1>2, OneTask DEF IInv, TypeOK, Add
  <2> QED
    BY <1>1, <1>2, <1>3, <1>5, <2>1, BeginKeeps
<1>6. CASE Begin(h, "drop", {m.peer}, Drop(m.peer))
  <2>1. Task(Drop(m.peer), "drop", {m.peer}) /\ Update("drop", "ring", m.peer) \in Range(Drop(m.peer))
    BY <1>2, OneTask DEF IInv, TypeOK, Drop
  <2> QED
    BY <1>1, <1>2, <1>3, <1>6, <2>1, BeginKeeps
<1> QED
  BY <1>1, <1>4, <1>5, <1>6 DEF HandleAnnounce, HandleLeave

(* start() fills the ring with the seed and the node itself. *)
LEMMA StartStep ==
  ASSUME IInv, Start
  PROVE  IInv'
<1>1. /\ life = "new" /\ life' = "up" /\ ring' = GetPeers \cup {Self} /\ running' = Background
      /\ UNCHANGED <<static, seed, peers, conn, ask, job, alive, heard, mail, changes, contested>>
  BY DEF Start, world
<1>2. \A t \in Threads : job[t] = <<>>
  BY <1>1 DEF IInv, Fresh
<1>3. TypeOK'
  BY <1>1 DEF IInv, TypeOK, GetPeers
<1>4. Telling'
  BY <1>1 DEF IInv, Telling
<1>5. Agreeing'
  <2> SUFFICES ASSUME ~static, NEW p \in Peers \ (contested \cup {seed})
               PROVE  Consistent(p, Pending', ring', peers')
    BY <1>1 DEF Agreeing
  <2>1. Pending' = {}
    BY <1>1, <1>2 DEF Pending, Range
  <2>2. p \notin ring' /\ p \notin peers'
    BY <1>1, ThreadedConstants DEF GetPeers, IInv, Fresh
  <2> QED
    BY <2>1, <2>2 DEF Consistent
<1> QED
  BY <1>1, <1>3, <1>4, <1>5 DEF IInv, Fresh

(* The rest of the lifecycle, and the environment. *)
LEMMA QuietStep ==
  ASSUME IInv,
         \/ Stop \/ JoinFlagged \/ Stopped
         \/ \E h \in Handlers : Accept(h)
         \/ \E p \in Peers : PeerStarts(p) \/ PeerEnds(p) \/ Forgotten(p)
         \/ UNCHANGED vars
  PROVE  IInv'
<1>1. UNCHANGED <<static, seed, ring, peers, job, contested, ask>>
  BY DEF Stop, JoinFlagged, Stopped, Accept, PeerStarts, PeerEnds, Forgotten, vars, node
<1>2. /\ life' \in {"new", "up", "joining", "stopped"}
      /\ life = "new" <=> life' = "new"
      /\ life = "new" => running' = running /\ conn' = conn
      /\ running' \subseteq Background /\ conn' \subseteq Handlers /\ conn \subseteq conn'
  BY DEF Stop, JoinFlagged, Stopped, Accept, PeerStarts, PeerEnds, Forgotten, vars, node,
         IInv, TypeOK, Background
<1>3. /\ alive' \subseteq Peers /\ heard' \subseteq Peers \cup {Self}
      /\ mail' \subseteq [kind : {"announce", "leave"}, peer : Peers]
      /\ changes' \in 0..MaxChanges
  <2>1. CASE UNCHANGED <<alive, heard, mail, changes>>
    BY <2>1 DEF IInv, TypeOK
  <2>2. ASSUME NEW p \in Peers, PeerStarts(p) \/ PeerEnds(p) \/ Forgotten(p)
        PROVE  /\ alive' \subseteq Peers /\ heard' \subseteq Peers \cup {Self}
               /\ mail' \subseteq [kind : {"announce", "leave"}, peer : Peers]
               /\ changes' \in 0..MaxChanges
    BY <2>2, ThreadedConstants
       DEF PeerStarts, PeerEnds, Forgotten, Letter, Changed, IInv, TypeOK
  <2> QED
    BY <2>1, <2>2 DEF Stop, JoinFlagged, Stopped, Accept, vars, node, world
<1>4. Telling' /\ Agreeing'
  BY <1>1, <1>2, OtherStep
<1> QED
  BY <1>1, <1>2, <1>3, <1>4 DEF IInv, TypeOK, Fresh

LEMMA StepHolds == IInv /\ [Next]_vars => IInv'
<1>1. ASSUME IInv, NEW h \in Handlers, Step(h) PROVE IInv'
  BY <1>1, UpdateStep DEF Threads
<1> QED
  BY <1>1, StartStep, GossipStep, HandleStep, QuietStep DEF Next

LEMMA NodeInvariant == Spec => []IInv
<1>1. Init /\ [][Next]_vars => []IInv
  BY InitHolds, StepHolds, PTL
<1> QED
  BY <1>1, PTL DEF Spec

-----------------------------------------------------------------------------
(* The state of a sync node keeps its type; in particular a started node   *)
(* stays in its own ring, and only a thread that has a connection is at    *)
(* work (sync.py:170-216, gossip.py:54-94).                                *)
THEOREM TypeCorrect == Spec => []TypeOK
<1>1. IInv => TypeOK
  BY DEF IInv
<1> QED
  BY <1>1, NodeInvariant, PTL

(* However many threads interleave their updates, the ring and the         *)
(* discovery of a sync node name the same peers whenever nobody is at work *)
(* on the peer, unless one thread added it while another dropped it        *)
(* (gossip.py:81-83, :91-93, :198-200, :206-208).                          *)
THEOREM AgreeUnlessContestedAlways == Spec => []AgreeUnlessContested
<1>1. ASSUME IInv PROVE AgreeUnlessContested
  <2> SUFFICES ASSUME life # "new", ~static, NEW p \in Peers \ (contested \cup {seed}),
                      \A t \in Threads : ~WorksOn(t, p)
               PROVE  p \in ring <=> p \in peers
    BY DEF AgreeUnlessContested
  <2>1. Consistent(p, Pending, ring, peers)
    BY <1>1 DEF IInv, Agreeing
  <2>2. \A x \in Pending : x.peer # p
    BY DEF Pending, WorksOn, Range
  <2> QED
    BY <2>1, <2>2 DEF Consistent
<1>2. IInv => AgreeUnlessContested
  BY <1>1
<1> QED
  BY <1>2, NodeInvariant, PTL

-----------------------------------------------------------------------------
(* The async nodes. *)

(* The order of stop(): the tasks have ended before the handlers are       *)
(* cancelled, a task that has ended holds no connection, and what a node   *)
(* has open when it stops has no queue to return to.                       *)
StopInOrder ==
  /\ \A n \in Nodes : phase[n] \in {"gathering", "closing", "stopped"} => ~tasks[n]
  /\ \A l \in Links : ~tasks[l[1]] => client[l] # "gossip"
  /\ \A l \in Links : phase[l[1]] = "stopped" /\ queued[l] => l \in after
  /\ \A l \in Links : phase[l[2]] = "stopped" => server[l] = "closed"

StopInv == StopTypeOK /\ StopInOrder

(* Both ends of a connection are nodes. *)
LEMMA EndsAreNodes == \A l \in Links : l[1] \in Nodes /\ l[2] \in Nodes
BY StopConstants

(* Nothing of stop() has happened in the initial state. *)
LEMMA StopInitHolds == StopInit => StopInv
BY EndsAreNodes DEF StopInit, StopInv, StopTypeOK, StopInOrder, Users

(* Every step of the calls, the handlers and stop() keeps the order. *)
LEMMA StopStepHolds == StopInv /\ [StopNext]_stopVars => StopInv'
<1> SUFFICES ASSUME StopInv, [StopNext]_stopVars PROVE StopInv'
  OBVIOUS
<1> USE EndsAreNodes
<1>1. ASSUME NEW l \in Links, NEW user \in Users, Open(l, user) PROVE StopInv'
  BY <1>1 DEF
      StopInv, StopTypeOK, StopInOrder, Open, MayCall, Listening,
      Users
<1>2. ASSUME NEW l \in Links, NEW user \in Users, Reuse(l, user) PROVE StopInv'
  BY <1>2 DEF StopInv, StopTypeOK, StopInOrder, Reuse, MayCall, Users
<1>3. ASSUME NEW l \in Links, Handler(l) \/ GiveUp(l) PROVE StopInv'
  <2>1. CASE Run(l)
    BY <2>1 DEF StopInv, StopTypeOK, StopInOrder, Run
  <2>2. CASE Serve(l)
    BY <2>2 DEF StopInv, StopTypeOK, StopInOrder, Serve, InUse, Users
  <2>3. CASE SeeEnd(l)
    BY <2>3 DEF StopInv, StopTypeOK, StopInOrder, SeeEnd
  <2>4. CASE EndHandler(l)
    BY <2>4 DEF StopInv, StopTypeOK, StopInOrder, EndHandler
  <2>5. CASE GiveUp(l)
    BY <2>5 DEF StopInv, StopTypeOK, StopInOrder, GiveUp, InUse, Users
  <2> QED
    BY <1>3, <2>1, <2>2, <2>3, <2>4, <2>5 DEF Handler
<1>4. ASSUME NEW n \in Nodes, NEW p \in Nodes, Evict(n, p) PROVE StopInv'
  BY <1>4 DEF
      StopInv, StopTypeOK, StopInOrder, Evict, CloseLinks, From, To,
      Users
<1>5. ASSUME NEW n \in Nodes, Leave(n) PROVE StopInv'
  BY <1>5 DEF StopInv, StopTypeOK, StopInOrder, Leave, Advance
<1>6. ASSUME NEW n \in Nodes, StopRunsOn(n) PROVE StopInv'
  <2>1. CASE CancelTasks(n)
    <3>1. PICK ls : CloseLinks(ls)
      BY <2>1 DEF CancelTasks
    <3> QED
      BY <2>1, <3>1 DEF
          StopInv, StopTypeOK, StopInOrder, CancelTasks, CloseLinks,
          Advance, Users
  <2>2. CASE EndTasks(n)
    BY <2>2 DEF StopInv, StopTypeOK, StopInOrder, EndTasks, From, Users
  <2>3. CASE CancelHandlers(n)
    BY <2>3 DEF
        StopInv, StopTypeOK, StopInOrder, CancelHandlers, Registered,
        Advance, To
  <2>4. CASE CloseServer(n)
    BY <2>4 DEF StopInv, StopTypeOK, StopInOrder, CloseServer, Advance, To
  <2>5. CASE Finish(n)
    BY <2>5 DEF
        StopInv, StopTypeOK, StopInOrder, Finish, CloseLinks, Advance,
        From, To, Users
  <2> QED
    BY <1>6, <2>1, <2>2, <2>3, <2>4, <2>5 DEF StopRunsOn
<1>7. CASE UNCHANGED stopVars
  BY <1>7 DEF StopInv, StopTypeOK, StopInOrder, stopVars
<1> QED
  BY <1>1, <1>2, <1>3, <1>4, <1>5, <1>6, <1>7 DEF StopNext

(* The inductive invariant of stop(). *)
LEMMA StopAlways == StopSpec => []StopInv
<1>1. StopInit /\ [][StopNext]_stopVars => []StopInv
  BY StopInitHolds, StopStepHolds, PTL
<1> QED
  BY <1>1, PTL DEF StopSpec

(* The state of the nodes, connections and tasks keeps its type; in        *)
(* particular a handler is under cancellation only while stop() of its     *)
(* node waits for it (async_.py:191-194).                                  *)
THEOREM StopTypeCorrect == StopSpec => []StopTypeOK
<1>1. StopInv => StopTypeOK
  BY DEF StopInv
<1> QED
  BY <1>1, StopAlways, PTL

(* When stop() has returned no task of the node is left, none of its       *)
(* handlers serves and its pool holds no connection that was open before   *)
(* close_all() (async_.py:184-199), for any number of nodes that call,     *)
(* evict and stop at the same time.                                        *)
THEOREM StoppedCleanAlways == StopSpec => []StoppedClean
<1>1. StopInv => StoppedClean
  BY EndsAreNodes DEF
      StopInv, StopTypeOK, StopInOrder, StoppedClean, From, To
<1> QED
  BY <1>1, StopAlways, PTL
=============================================================================

--------------------------- MODULE ReadPathProofs ---------------------------
(***************************************************************************)
(* Proofs about RendezvousRing and ReadPath, for every set of nodes, every *)
(* score function and replication factor, every set of values and any      *)
(* timestamps: what the ring returns and what the read policies make of    *)
(* any sequence of answers.                                                *)
(***************************************************************************)
EXTENDS ReadPath, RoutingLemmas

-----------------------------------------------------------------------------
(* A node that ranks among the first n of a ring does so in every smaller  *)
(* ring that still holds it: removing nodes promotes, never demotes        *)
(* (rendezvous.py, get_nodes()).                                           *)
LEMMA TopNShrinks ==
  ASSUME NEW S, NEW T \in SUBSET S, IsFiniteSet(S), NEW sc, NEW n \in Nat,
         NEW x \in T, x \in TopN(S, sc, n)
  PROVE  x \in TopN(T, sc, n)
<1>1. Beats(T, sc, x) \subseteq Beats(S, sc, x)
  BY DEF Beats
<1>2. IsFiniteSet(Beats(S, sc, x))
  BY FS_Subset DEF Beats
<1>3. /\ Cardinality(Beats(T, sc, x)) \in Nat /\ Cardinality(Beats(S, sc, x)) \in Nat
      /\ Cardinality(Beats(T, sc, x)) <= Cardinality(Beats(S, sc, x))
  BY <1>1, <1>2, FS_Subset, FS_CardinalityType
<1> QED
  BY <1>3 DEF TopN

-----------------------------------------------------------------------------
(* The ring only holds nodes, and their scores are natural and distinct. *)
RingInv == TypeOK /\ \A x, y \in Nodes : score[x] = score[y] => x = y

THEOREM RingAlways == Spec => []RingInv
<1>1. Init => RingInv
  <2>1. Cardinality(Nodes) \in Nat
    BY RingConstants, FS_CardinalityType
  <2> QED
    BY <2>1 DEF Init, RingInv, TypeOK, Scores
<1>2. RingInv /\ [Next]_vars => RingInv'
  BY DEF RingInv, TypeOK, Next, AddNode, RemoveNode, vars
<1> QED
  BY <1>1, <1>2, PTL DEF Spec

(* The ring only ever holds nodes, and the scores of a key do not change. *)
THEOREM TypeCorrect == Spec => []TypeOK
BY RingAlways, PTL DEF RingInv

(* "Minimal key remapping when nodes join/leave" (rendezvous.py:19), for   *)
(* any number of nodes and replicas.                                       *)
THEOREM RemapIsMinimal == Spec => MinimalRemap
<1> DEFINE Minimal ==
      /\ members \subseteq members' => Replicas' \subseteq Replicas \cup (members' \ members)
      /\ members' \subseteq members => Replicas \cap members' \subseteq Replicas'
<1>1. RingInv /\ RingInv' /\ [Next]_vars => [Minimal]_vars
  <2> SUFFICES ASSUME RingInv, RingInv', [Next]_vars PROVE Minimal
    BY Zenon
  <2>1. score' = score
    BY DEF Next, AddNode, RemoveNode, vars
  <2>2. IsFiniteSet(members) /\ IsFiniteSet(members')
    BY FS_Subset, RingConstants DEF RingInv, TypeOK
  <2>3. Replication \in Nat
    BY RingConstants
  <2>4. ASSUME members \subseteq members', NEW x \in Replicas', x \in members
        PROVE  x \in Replicas
    <3>1. x \in TopN(members', score, Replication)
      BY <2>1, <2>4 DEF Replicas
    <3> QED
      BY <3>1, <2>2, <2>3, <2>4, TopNShrinks DEF Replicas
  <2>5. ASSUME members' \subseteq members, NEW x \in Replicas, x \in members'
        PROVE  x \in Replicas'
    <3>1. x \in TopN(members', score, Replication)
      BY <2>2, <2>3, <2>5, TopNShrinks DEF Replicas
    <3> QED
      BY <3>1, <2>1 DEF Replicas
  <2>6. Replicas' \subseteq members'
    BY DEF Replicas, TopN
  <2> QED
    BY <2>4, <2>5, <2>6
<1> QED
  BY <1>1, RingAlways, PTL DEF Spec, MinimalRemap

(* get_nodes() returns the replicas of the key, all of them, each once and *)
(* in descending order of score, and get_node() is the first of them       *)
(* (rendezvous.py:39-50).                                                  *)
THEOREM RankingIsRight == Spec => []RankedIsTopN
<1>1. ASSUME RingInv PROVE RankedIsTopN
  <2>1. Ranked(members, score) /\ Replication \in Nat /\ Replication # 0
    BY <1>1, RingConstants, FS_Subset DEF RingInv, TypeOK, Ranked
  <2>2. PICK g : g = GetNodes(members, score, Replication)
    OBVIOUS
  <2>a. Len(g) = IF Replication < Cardinality(members) THEN Replication ELSE Cardinality(members)
    BY <2>1, <2>2, GetNodesIs
  <2>b. /\ Len(g) \in Nat /\ g \in [1..Len(g) -> members]
        /\ \A i, j \in 1..Len(g) : i < j => score[g[i]] > score[g[j]]
        /\ \A x : x \in TopN(members, score, Replication) <=> \E i \in 1..Len(g) : x = g[i]
    BY <2>1, <2>2, GetNodesIs
  <2> DEFINE k == Len(g)
  <2>3. /\ k \in Nat
        /\ g \in [1..k -> members] /\ Len(g) = k
        /\ \A i, j \in 1..k : i < j => score[g[i]] > score[g[j]]
        /\ \A x : x \in TopN(members, score, Replication) <=> \E i \in 1..k : x = g[i]
    BY <2>b
  <2>c. k = IF Replication < Cardinality(members) THEN Replication ELSE Cardinality(members)
    BY <2>a
  <2> HIDE DEF k
  <2>4. DOMAIN g = 1..k
    BY <2>3
  <2>5. Range(g) = Replicas
    BY <2>3, <2>4 DEF Range, Replicas
  <2>6. Cardinality(members) \in Nat
    BY <2>1, FS_CardinalityType DEF Ranked
  <2>7. Len(g) = Min({Replication, Cardinality(members)})
    BY <2>1, <2>3, <2>6, <2>c DEF Min
  <2>8. GetNode(members, score, NoNode) = IF g = <<>> THEN NoNode ELSE g[1]
    <3>1. CASE members = {}
      <4>1. Cardinality(members) = 0
        BY <3>1, FS_EmptySet
      <4>2. g = <<>>
        BY <2>1, <2>3, <2>6, <2>c, <4>1
      <4> QED
        BY <3>1, <4>2 DEF GetNode
    <3>2. CASE members # {}
      <4>1. Cardinality(members) # 0
        BY <2>1, <3>2, FS_EmptySet DEF Ranked
      <4>2. 1 \in 1..k /\ g # <<>> /\ g[1] \in members
        BY <2>1, <2>3, <2>6, <2>c, <4>1
      <4>3. PICK f : f = Ranking(members, score)
        OBVIOUS
      <4>4. /\ \A i, j \in 1..Cardinality(members) : i < j => score[f[i]] > score[f[j]]
            /\ \A x \in members : \E i \in 1..Cardinality(members) : x = f[i]
            /\ f \in [1..Cardinality(members) -> members]
        BY <2>1, <4>3, RankingIs DEF Sorted
      <4>5. g[1] = f[1]
        <5>1. \A i \in 1..k : f[i] \in members
          BY <2>1, <2>6, <2>c, <4>4
        <5>2. g = SubSeq(f, 1, k)
          BY <2>2, <2>c, <4>3 DEF GetNodes
        <5>3. \A i \in 1..(k - 1 + 1) : SubSeq(f, 1, k)[i] = f[1 + i - 1]
          BY <2>3, <5>1, SubSeqProperties
        <5> QED
          BY <2>3, <4>2, <5>2, <5>3
      <4>6. \A y \in members : score[y] <= score[g[1]]
        <5> TAKE y \in members
        <5>1. PICK i \in 1..Cardinality(members) : y = f[i]
          BY <4>4
        <5>2. score[y] \in Nat /\ score[g[1]] \in Nat
          BY <2>1, <4>2 DEF Ranked
        <5>3. i = 1 \/ score[f[1]] > score[f[i]]
          BY <2>6, <4>4
        <5> QED
          BY <4>5, <5>1, <5>2, <5>3
      <4>7. \A x \in members : (\A y \in members : score[y] <= score[x]) => x = g[1]
        <5> SUFFICES ASSUME NEW x \in members, \A y \in members : score[y] <= score[x] PROVE x = g[1]
          OBVIOUS
        <5>1. score[x] \in Nat /\ score[g[1]] \in Nat /\ score[g[1]] <= score[x] /\ score[x] <= score[g[1]]
          BY <2>1, <4>2, <4>6 DEF Ranked
        <5>2. score[x] = score[g[1]]
          BY <5>1
        <5> QED
          BY <2>1, <4>2, <5>2 DEF Ranked
      <4> QED
        BY <3>2, <4>2, <4>6, <4>7 DEF GetNode
    <3> QED
      BY <3>1, <3>2
  <2> QED
    BY <2>2, <2>3, <2>4, <2>5, <2>7, <2>8 DEF RankedIsTopN
<1> QED
  BY <1>1, RingAlways, PTL

-----------------------------------------------------------------------------
(* A read in progress does not disturb the ring: what is proved of Spec    *)
(* holds of ReadSpec.                                                      *)
THEOREM ReadKeepsRing == ReadSpec => Spec
<1>1. ReadInit => Init
  BY DEF ReadInit
<1>2. [ReadNext]_readVars => [Next]_vars
  BY DEF ReadNext, BeginRead, EndRead, Answer, readVars, vars
<1> QED
  BY <1>1, <1>2, PTL DEF ReadSpec, Spec

(* The answers of a read are what replica handles return. *)
ReadOK == read \in [order : Seq(Nodes), results : Seq(Result)]

LEMMA ReadAlways == ReadSpec => []ReadOK
<1>1. ReadInit => ReadOK
  BY DEF ReadInit, ReadOK, NoRead
<1>2. RingInv /\ ReadOK /\ [ReadNext]_readVars => ReadOK'
  <2> SUFFICES ASSUME RingInv, ReadOK, [ReadNext]_readVars PROVE ReadOK'
    OBVIOUS
  <2>1. CASE BeginRead
    <3>1. Ranked(members, score) /\ Replication \in Nat /\ members \subseteq Nodes
      BY RingConstants, FS_Subset DEF RingInv, TypeOK, Ranked
    <3>2. GetNodes(members, score, Replication) \in Seq(members)
      BY <3>1, GetNodesIs
    <3>3. GetNodes(members, score, Replication) \in Seq(Nodes)
      BY <3>1, <3>2
    <3> QED
      BY <2>1, <3>3 DEF BeginRead, ReadOK
  <2>2. ASSUME NEW r \in Result, Answer(r) PROVE ReadOK'
    <3>1. Append(read.results, r) \in Seq(Result)
      BY DEF ReadOK
    <3> QED
      BY <2>2, <3>1 DEF Answer, ReadOK
  <2>3. CASE EndRead
    BY <2>3 DEF EndRead, ReadOK, NoRead
  <2>4. CASE UNCHANGED read
    BY <2>4 DEF ReadOK
  <2> QED
    BY <2>1, <2>2, <2>3, <2>4 DEF ReadNext, readVars
<1> QED
  BY <1>1, <1>2, RingAlways, ReadKeepsRing, PTL DEF ReadSpec

(* What the scan of the answers has found. *)
LEMMA ReadBest ==
  ASSUME ReadOK
  PROVE  /\ Len(read.results) \in Nat
         /\ \A i \in 1..Len(read.results) : read.results[i] # None => read.results[i].ts \in Nat
         /\ \/ /\ Best(read.results) = Nothing
               /\ \A i \in 1..Len(read.results) : read.results[i] = None
            \/ \E k : /\ FirstNewest(read.results, Len(read.results), k)
                      /\ Best(read.results) = read.results[k]
<1>1. PICK rs : rs = read.results
  OBVIOUS
<1>2. rs \in Seq(Result) /\ Len(rs) \in Nat
  BY <1>1 DEF ReadOK
<1>3. ASSUME NEW r \in Result, r # None PROVE r.ts \in Nat
  <2>1. r.ts \in 1..MaxTs
    BY <1>3 DEF Result
  <2> QED
    BY <2>1, ReadConstants
<1>4. \A i \in 1..Len(rs) : rs[i] # None => rs[i].ts \in Nat
  BY <1>2, <1>3
<1> QED
  BY <1>1, <1>2, <1>4, BestIs

LEMMA AnswersAre ==
  ASSUME ReadOK, NEW x
  PROVE  x \in Answers <=> x # None /\ \E i \in 1..Len(read.results) : x = read.results[i]
BY DEF ReadOK, Answers, Range

(* LWW returns the value of the first newest answer in ring order, or      *)
(* nothing when all answers are None or that one is a tombstone            *)
(* (lww.py:47-55), for any number of replicas and any answers.             *)
THEOREM LWWIsRight == ReadSpec => []LWWReturnsNewest
<1>1. ASSUME ReadOK PROVE LWWReturnsNewest
  <2>1. PICK rs : rs = read.results
    OBVIOUS
  <2>2. Len(rs) \in Nat /\ \A i \in 1..Len(rs) : rs[i] # None => rs[i].ts \in Nat
    BY <1>1, <2>1, ReadBest
  <2>3. \A x : x \in Newest <=> x \in Answers /\ \A s \in Answers : s.ts <= x.ts
    BY DEF Newest
  <2>4. \A x : x \in Answers <=> x # None /\ \E i \in 1..Len(rs) : x = rs[i]
    BY <1>1, <2>1, AnswersAre
  <2> DEFINE I == {i \in 1..Len(rs) : rs[i] \in Newest}
             first == IF I # {} THEN Min(I) ELSE 0
  <2>5. LWWReturnsNewest <=>
          LWWResolve(rs) = IF first = 0 \/ rs[first].tombstone THEN None ELSE rs[first].value
    BY <2>1 DEF LWWReturnsNewest, SelectInSeq
  <2>6. CASE Best(rs) = Nothing /\ \A i \in 1..Len(rs) : rs[i] = None
    <3>1. I = {}
      BY <2>3, <2>4, <2>6
    <3>2. LWWResolve(rs) = None
      BY <2>6 DEF LWWResolve, Nothing
    <3> QED
      BY <2>5, <3>1, <3>2
  <2>7. ASSUME NEW k, FirstNewest(rs, Len(rs), k), Best(rs) = rs[k] PROVE LWWReturnsNewest
    <3>1. k \in 1..Len(rs) /\ rs[k] # None /\ rs[k].ts \in Nat
      BY <2>2, <2>7 DEF FirstNewest
    <3>2. rs[k] \in Newest
      BY <2>3, <2>4, <2>7, <3>1 DEF FirstNewest
    <3>3. ASSUME NEW j \in 1..Len(rs), j < k PROVE rs[j] \notin Newest
      <4>1. rs[j] # None => rs[j].ts < rs[k].ts /\ rs[j].ts \in Nat
        BY <2>2, <2>7, <3>1, <3>3 DEF FirstNewest
      <4>2. rs[k] \in Answers
        BY <2>3, <3>2
      <4>3. rs[j] \in Newest => rs[k].ts <= rs[j].ts /\ rs[j] # None
        BY <2>3, <2>4, <4>2
      <4> QED
        BY <3>1, <4>1, <4>3
    <3>4. k \in I /\ \A j \in I : k <= j
      BY <2>2, <3>1, <3>2, <3>3
    <3>5. I \subseteq Nat
      OBVIOUS
    <3> HIDE DEF I
    <3>6. Min(I) = k
      BY <3>4, <3>5, MinIs
    <3>7. first = k /\ k # 0
      BY <3>1, <3>4, <3>6
    <3>8. LWWResolve(rs) = IF rs[k].tombstone THEN None ELSE rs[k].value
      BY <2>7, <3>1 DEF LWWResolve
    <3> HIDE DEF first
    <3> QED
      BY <2>5, <3>7, <3>8
  <2> QED
    BY <1>1, <2>1, <2>6, <2>7, ReadBest
<1> QED
  BY <1>1, ReadAlways, PTL

(* FHW and LWW give the same value whenever the answers agree (fhw.py:27): *)
(* where they do not, a write is in progress or was lost.                  *)
THEOREM FHWIsLWWOnAgreement == ReadSpec => []FHWAgreesWithLWW
<1>1. ASSUME ReadOK, \A r, s \in Answers : r = s PROVE FHWResolve(read.results) = LWWResolve(read.results)
  <2>1. PICK rs : rs = read.results
    OBVIOUS
  <2>2. Len(rs) \in Nat /\ \A i \in 1..Len(rs) : rs[i] # None => rs[i].ts \in Nat
    BY <1>1, <2>1, ReadBest
  <2>3. \A x : x \in Answers <=> x # None /\ \E i \in 1..Len(rs) : x = rs[i]
    BY <1>1, <2>1, AnswersAre
  <2> DEFINE I == {i \in 1..Len(rs) : IsHit(rs[i])}
             first == IF I # {} THEN Min(I) ELSE 0
  <2>4. FHWResolve(rs) = IF first = 0 THEN None ELSE rs[first].value
    BY DEF FHWResolve, SelectInSeq
  <2>5. CASE Best(rs) = Nothing /\ \A i \in 1..Len(rs) : rs[i] = None
    <3>1. I = {}
      BY <2>5 DEF IsHit
    <3>2. LWWResolve(rs) = None
      BY <2>5 DEF LWWResolve, Nothing
    <3> QED
      BY <2>1, <2>4, <3>1, <3>2
  <2>6. ASSUME NEW k, FirstNewest(rs, Len(rs), k), Best(rs) = rs[k] PROVE FHWResolve(rs) = LWWResolve(rs)
    <3>1. k \in 1..Len(rs) /\ rs[k] # None /\ rs[k].ts \in Nat
      BY <2>2, <2>6 DEF FirstNewest
    <3>2. LWWResolve(rs) = IF rs[k].tombstone THEN None ELSE rs[k].value
      BY <2>6, <3>1 DEF LWWResolve
    <3>3. \A i \in 1..Len(rs) : rs[i] # None => rs[i] = rs[k]
      BY <1>1, <2>3, <3>1
    <3>4. CASE rs[k].tombstone
      <4>1. I = {}
        BY <3>3, <3>4 DEF IsHit
      <4> QED
        BY <2>4, <3>2, <3>4, <4>1
    <3>5. CASE ~rs[k].tombstone
      <4>1. k \in I /\ I \subseteq Nat
        BY <3>1, <3>5 DEF IsHit
      <4>2. \A i \in I : i \in 1..Len(rs) /\ rs[i] = rs[k]
        BY <3>3 DEF IsHit
      <4> HIDE DEF I
      <4>3. PICK m \in I : \A i \in I : m <= i
        BY <4>1, LeastNat
      <4>4. Min(I) = m
        BY <4>1, <4>3, MinIs
      <4>5. first = m /\ m # 0 /\ rs[m] = rs[k]
        BY <4>1, <4>2, <4>4
      <4> HIDE DEF first
      <4> QED
        BY <2>4, <3>2, <3>5, <4>5
    <3> QED
      BY <3>4, <3>5
  <2> QED
    BY <1>1, <2>1, <2>5, <2>6, ReadBest
<1>2. ReadOK => FHWAgreesWithLWW
  BY <1>1 DEF FHWAgreesWithLWW
<1> QED
  BY <1>2, ReadAlways, PTL
=============================================================================

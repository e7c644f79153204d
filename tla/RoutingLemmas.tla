---------------------------- MODULE RoutingLemmas ---------------------------
(***************************************************************************)
(* What the two pure algorithms of a read compute, for every input: the    *)
(* ranking of a ring (dlstorage/ring/rendezvous.py) and the scan of the    *)
(* LWW policy (dlstorage/consistency/lww.py).                              *)
(***************************************************************************)
EXTENDS Rendezvous, MergeResolver, FiniteSetTheorems, SequenceTheorems,
        WellFoundedInduction, TLAPS

(* A finite ring of nodes with natural scores, no two alike. *)
Ranked(S, sc) ==
  /\ IsFiniteSet(S)
  /\ \A x \in S : sc[x] \in Nat
  /\ \A x, y \in S : sc[x] = sc[y] => x = y

-----------------------------------------------------------------------------
(* A set of natural numbers has a least element. *)
LEMMA LeastNat ==
  ASSUME NEW T \in SUBSET Nat, T # {}
  PROVE  \E m \in T : \A k \in T : m <= k
<1>1. PICK m \in T : \A k \in T : ~(<<k, m>> \in OpToRel(<, Nat))
  BY NatLessThanWellFounded, WFMin
<1>2. \A k \in T : ~(k < m)
  BY <1>1 DEF OpToRel
<1> QED
  BY <1>2

LEMMA MinIs ==
  ASSUME NEW T \in SUBSET Nat, NEW m \in T, \A k \in T : m <= k
  PROVE  Min(T) = m
<1>1. \A x \in T : (\A y \in T : x <= y) => x = m
  OBVIOUS
<1> QED
  BY <1>1 DEF Min

(* How many nodes beat a node. *)
LEMMA BeatsCard ==
  ASSUME NEW S, NEW sc, Ranked(S, sc), NEW x \in S
  PROVE  /\ IsFiniteSet(Beats(S, sc, x))
         /\ Cardinality(S) \in Nat
         /\ Cardinality(Beats(S, sc, x)) \in 0..(Cardinality(S) - 1)
<1>1. Beats(S, sc, x) \subseteq S /\ x \notin Beats(S, sc, x)
  BY DEF Beats, Ranked
<1>2. IsFiniteSet(S) /\ Cardinality(S) \in Nat
  BY FS_CardinalityType DEF Ranked
<1>3. IsFiniteSet(Beats(S, sc, x)) /\ Cardinality(Beats(S, sc, x)) <= Cardinality(S)
  BY <1>1, <1>2, FS_Subset
<1>4. Cardinality(Beats(S, sc, x)) \in Nat
  BY <1>3, FS_CardinalityType
<1>5. Cardinality(Beats(S, sc, x)) # Cardinality(S)
  BY <1>1, <1>2, FS_Subset
<1> QED
  BY <1>2, <1>3, <1>4, <1>5

(* The higher the score, the fewer the nodes that beat it. *)
LEMMA BeatsOrder ==
  ASSUME NEW S, NEW sc, Ranked(S, sc), NEW x \in S, NEW y \in S, sc[x] > sc[y]
  PROVE  Cardinality(Beats(S, sc, x)) < Cardinality(Beats(S, sc, y))
<1>1. Beats(S, sc, x) \subseteq Beats(S, sc, y)
  BY DEF Beats, Ranked
<1>2. x \in Beats(S, sc, y) /\ x \notin Beats(S, sc, x)
  BY DEF Beats, Ranked
<1>3. IsFiniteSet(Beats(S, sc, y)) /\ Cardinality(Beats(S, sc, y)) \in Nat
  BY BeatsCard
<1>4. Cardinality(Beats(S, sc, x)) \in Nat
  BY BeatsCard
<1>5. /\ Cardinality(Beats(S, sc, x)) <= Cardinality(Beats(S, sc, y))
      /\ Cardinality(Beats(S, sc, x)) # Cardinality(Beats(S, sc, y))
  BY <1>1, <1>2, <1>3, FS_Subset
<1> QED
  BY <1>3, <1>4, <1>5

(* A ring can be ranked: the rank of a node is one more than the number of *)
(* nodes that beat it.                                                     *)
LEMMA RankingExists ==
  ASSUME NEW S, NEW sc, Ranked(S, sc)
  PROVE  \E f \in [1..Cardinality(S) -> S] : \A i, j \in DOMAIN f : i < j => sc[f[i]] > sc[f[j]]
<1> DEFINE N == Cardinality(S)
           rank == [x \in S |-> Cardinality(Beats(S, sc, x)) + 1]
<1>1. IsFiniteSet(S) /\ N \in Nat
  BY FS_CardinalityType DEF Ranked
<1>2. \A x \in S : rank[x] \in 1..N
  BY BeatsCard
<1>3. \A x, y \in S : sc[x] > sc[y] => rank[x] < rank[y]
  <2> TAKE x \in S, y \in S
  <2> HAVE sc[x] > sc[y]
  <2>1. Cardinality(Beats(S, sc, x)) < Cardinality(Beats(S, sc, y))
    BY BeatsOrder
  <2>2. Cardinality(Beats(S, sc, x)) \in Nat /\ Cardinality(Beats(S, sc, y)) \in Nat
    BY BeatsCard
  <2> QED
    BY <2>1, <2>2
<1>4. \A x, y \in S : rank[x] = rank[y] => x = y
  <2> TAKE x \in S, y \in S
  <2>1. sc[x] \in Nat /\ sc[y] \in Nat /\ rank[x] \in Nat /\ rank[y] \in Nat
    BY <1>2 DEF Ranked
  <2>2. sc[x] > sc[y] => rank[x] < rank[y]
    BY <1>3
  <2>3. sc[y] > sc[x] => rank[y] < rank[x]
    BY <1>3
  <2>4. sc[x] = sc[y] => x = y
    BY DEF Ranked
  <2> HIDE DEF rank
  <2> QED
    BY <2>1, <2>2, <2>3, <2>4
<1>5. rank \in [S -> 1..N]
  BY <1>2
<1> HIDE DEF rank
<1>6. rank \in Injection(S, 1..N)
  BY <1>4, <1>5 DEF Injection, IsInjective
<1>7. IsFiniteSet(1..N) /\ Cardinality(1..N) = N
  BY <1>1, FS_Interval
<1>8. rank \in Surjection(S, 1..N)
  BY <1>6, <1>7, FS_Injection
<1>9. \A i \in 1..N : \E x \in S : rank[x] = i
  BY <1>8 DEF Surjection
<1> DEFINE f == [i \in 1..N |-> CHOOSE x \in S : rank[x] = i]
<1>10. \A i \in 1..N : f[i] \in S /\ rank[f[i]] = i
  BY <1>9
<1>11. f \in [1..N -> S]
  BY <1>10
<1> HIDE DEF f
<1>12. ASSUME NEW i \in 1..N, NEW j \in 1..N, i < j PROVE sc[f[i]] > sc[f[j]]
  <2>1. f[i] \in S /\ f[j] \in S /\ rank[f[i]] = i /\ rank[f[j]] = j
    BY <1>10
  <2>2. sc[f[i]] \in Nat /\ sc[f[j]] \in Nat
    BY <2>1 DEF Ranked
  <2>3. sc[f[i]] # sc[f[j]]
    BY <1>12, <2>1 DEF Ranked
  <2>4. ~(sc[f[j]] > sc[f[i]])
    BY <1>12, <1>3, <2>1
  <2> QED
    BY <2>2, <2>3, <2>4
<1> QED
  BY <1>11, <1>12

(* What sorted() returns: every node of the ring, in descending order; the *)
(* i-th is beaten by exactly i - 1 others.                                 *)
Sorted(f, S, sc) ==
  /\ Cardinality(S) \in Nat
  /\ f \in [1..Cardinality(S) -> S]
  /\ \A i, j \in 1..Cardinality(S) : i < j => sc[f[i]] > sc[f[j]]
  /\ \A x \in S : \E i \in 1..Cardinality(S) : x = f[i]
  /\ \A i \in 1..Cardinality(S) : Cardinality(Beats(S, sc, f[i])) = i - 1

LEMMA RankingIs ==
  ASSUME NEW S, NEW sc, Ranked(S, sc), NEW f, f = Ranking(S, sc)
  PROVE  Sorted(f, S, sc)
<1> DEFINE N == Cardinality(S)
<1>1. IsFiniteSet(S) /\ N \in Nat
  BY FS_CardinalityType DEF Ranked
<1>3. f \in [1..N -> S] /\ \A i, j \in DOMAIN f : i < j => sc[f[i]] > sc[f[j]]
  BY RankingExists DEF Ranking
<1>4. \A i, j \in 1..N : i < j => sc[f[i]] > sc[f[j]]
  BY <1>3
<1>5. \A i \in 1..N : f[i] \in S /\ sc[f[i]] \in Nat
  BY <1>3 DEF Ranked
<1>6. \A i, j \in 1..N : f[i] = f[j] => i = j
  BY <1>1, <1>4, <1>5
<1>7. f \in Injection(1..N, S)
  BY <1>3, <1>6 DEF Injection, IsInjective
<1>8. IsFiniteSet(1..N) /\ Cardinality(1..N) = N
  BY <1>1, FS_Interval
<1>9. f \in Surjection(1..N, S)
  BY <1>1, <1>7, <1>8, FS_Injection
<1>10. \A x \in S : \E i \in 1..N : x = f[i]
  BY <1>9 DEF Surjection
<1>11. ASSUME NEW i \in 1..N PROVE Cardinality(Beats(S, sc, f[i])) = i - 1
  <2> DEFINE g == [j \in 1..(i - 1) |-> f[j]]
             B == Beats(S, sc, f[i])
  <2>1. \A x : x \in B <=> x \in S /\ sc[x] > sc[f[i]]
    BY DEF Beats
  <2>2. \A j \in 1..(i - 1) : f[j] \in B
    BY <1>1, <1>4, <1>5, <2>1
  <2>3. \A x \in B : \E j \in 1..(i - 1) : x = f[j]
    <3> TAKE x \in B
    <3>1. PICK j \in 1..N : x = f[j]
      BY <1>10, <2>1
    <3>2. ~(i < j) /\ i # j
      BY <1>4, <1>5, <2>1, <3>1
    <3> QED
      BY <1>1, <3>1, <3>2
  <2>4. g \in [1..(i - 1) -> B]
    BY <2>2
  <2>5. \A j, k \in 1..(i - 1) : g[j] = g[k] => j = k
    BY <1>1, <1>6
  <2>6. \A x \in B : \E j \in 1..(i - 1) : g[j] = x
    BY <2>3
  <2> HIDE DEF g, B
  <2>7. g \in Bijection(1..(i - 1), B)
    BY <2>4, <2>5, <2>6 DEF Bijection, Injection, Surjection, IsInjective
  <2>8. ExistsBijection(1..(i - 1), B)
    BY <2>7 DEF ExistsBijection
  <2> QED
    BY <2>8, <1>1, FS_CountingElements DEF B
<1> QED
  BY <1>1, <1>3, <1>4, <1>10, <1>11 DEF Sorted

(* get_nodes(): the first n nodes of the ranking, which are the nodes that *)
(* fewer than n others beat.                                               *)
LEMMA GetNodesIs ==
  ASSUME NEW S, NEW sc, Ranked(S, sc), NEW n \in Nat,
         NEW g, g = GetNodes(S, sc, n)
  PROVE  /\ Len(g) = IF n < Cardinality(S) THEN n ELSE Cardinality(S)
         /\ Len(g) \in Nat /\ g \in [1..Len(g) -> S] /\ g \in Seq(S)
         /\ \A i, j \in 1..Len(g) : i < j => sc[g[i]] > sc[g[j]]
         /\ \A x : x \in TopN(S, sc, n) <=> \E i \in 1..Len(g) : x = g[i]
<1> DEFINE N == Cardinality(S)
           k == IF n < N THEN n ELSE N
<1>1. N \in Nat
  BY FS_CardinalityType DEF Ranked
<1>2. PICK f : f = Ranking(S, sc)
  OBVIOUS
<1>3. /\ f \in [1..N -> S]
      /\ \A i, j \in 1..N : i < j => sc[f[i]] > sc[f[j]]
      /\ \A x \in S : \E i \in 1..N : x = f[i]
      /\ \A i \in 1..N : Cardinality(Beats(S, sc, f[i])) = i - 1
  <2>1. Sorted(f, S, sc)
    BY <1>2, RankingIs
  <2> QED
    BY <2>1 DEF Sorted
<1>4. k \in Nat /\ k <= N /\ k <= n /\ (n < k + 1 \/ N < k + 1)
  BY <1>1
<1> HIDE DEF k
<1>5. g = SubSeq(f, 1, k)
  BY <1>2 DEF GetNodes, k
<1>7. \A i \in 1..k : f[i] \in S
  BY <1>1, <1>3, <1>4
<1>8. g \in Seq(S) /\ Len(g) = k /\ \A i \in 1..k : g[i] = f[i]
  BY <1>4, <1>5, <1>7, SubSeqProperties
<1>9. g \in [1..k -> S]
  BY <1>8
<1>10. ASSUME NEW i \in 1..k, NEW j \in 1..k, i < j PROVE sc[g[i]] > sc[g[j]]
  <2>1. i \in 1..N /\ j \in 1..N /\ g[i] = f[i] /\ g[j] = f[j]
    BY <1>1, <1>4, <1>8
  <2> QED
    BY <1>3, <1>10, <2>1
<1>11. ASSUME NEW x \in TopN(S, sc, n) PROVE \E i \in 1..k : x = g[i]
  <2>1. x \in S /\ Cardinality(Beats(S, sc, x)) < n
    BY <1>11 DEF TopN
  <2>2. PICK i \in 1..N : x = f[i]
    BY <1>3, <2>1
  <2>3. i - 1 < n
    BY <1>3, <2>1, <2>2
  <2>4. i \in 1..k
    BY <1>1, <1>4, <2>2, <2>3
  <2> QED
    BY <1>8, <2>2, <2>4
<1>12. ASSUME NEW i \in 1..k PROVE g[i] \in TopN(S, sc, n)
  <2>1. i \in 1..N /\ g[i] = f[i] /\ g[i] \in S /\ i - 1 < n
    BY <1>1, <1>4, <1>8, <1>9
  <2>2. Cardinality(Beats(S, sc, g[i])) = i - 1
    BY <1>3, <2>1
  <2> QED
    BY <2>1, <2>2 DEF TopN
<1> QED
  BY <1>4, <1>8, <1>9, <1>10, <1>11, <1>12 DEF k

-----------------------------------------------------------------------------
(* The scan of LWW.read_resolve as a step from one result to the next. *)
IsScan(f, results, n) ==
  f = [i \in 0..n |-> IF i = 0 THEN Nothing
                      ELSE IF Newer(results[i], f[i - 1]) THEN results[i] ELSE f[i - 1]]

(* Such a scan exists for every number of results: there is no least       *)
(* number that has none.                                                   *)
LEMMA ScanExists ==
  ASSUME NEW results, NEW n \in Nat
  PROVE  \E f : IsScan(f, results, n)
<1> DEFINE T == {k \in Nat : ~\E f : IsScan(f, results, k)}
<1>1. CASE T = {}
  BY <1>1
<1>2. CASE T # {}
  <2>1. PICK m \in T : \A k \in T : m <= k
    BY <1>2, LeastNat
  <2>2. m \in Nat /\ ~\E f : IsScan(f, results, m)
    BY <2>1
  <2>3. CASE m = 0
    <3> DEFINE f == [i \in 0..0 |-> Nothing]
    <3>1. f = [i \in 0..0 |-> IF i = 0 THEN Nothing
                              ELSE IF Newer(results[i], f[i - 1]) THEN results[i] ELSE f[i - 1]]
      OBVIOUS
    <3> QED
      BY <2>2, <2>3, <3>1 DEF IsScan
  <2>4. CASE m # 0
    <3>1. m - 1 \in Nat /\ m - 1 \notin T
      BY <2>1, <2>2, <2>4
    <3>2. PICK f : IsScan(f, results, m - 1)
      BY <3>1
    <3> DEFINE last == IF Newer(results[m], f[m - 1]) THEN results[m] ELSE f[m - 1]
               g == [i \in 0..m |-> IF i = m THEN last ELSE f[i]]
               h == [i \in 0..m |-> IF i = 0 THEN Nothing
                                    ELSE IF Newer(results[i], g[i - 1]) THEN results[i] ELSE g[i - 1]]
    <3>3. ASSUME NEW i \in 0..m PROVE g[i] = h[i]
      <4>1. CASE i = m
        <5>1. g[i - 1] = f[m - 1] /\ i # 0
          BY <2>2, <2>4, <4>1
        <5> QED
          BY <4>1, <5>1
      <4>2. CASE i # m
        <5>1. i \in 0..(m - 1) /\ g[i] = f[i]
          BY <2>2, <4>2
        <5>2. i # 0 => g[i - 1] = f[i - 1]
          BY <2>2, <5>1
        <5>3. f[i] = IF i = 0 THEN Nothing
                     ELSE IF Newer(results[i], f[i - 1]) THEN results[i] ELSE f[i - 1]
          BY <3>2, <5>1 DEF IsScan
        <5> QED
          BY <5>1, <5>2, <5>3
      <4> QED
        BY <4>1, <4>2
    <3>4. g = h
      BY <3>3
    <3>5. IsScan(g, results, m)
      BY <3>4 DEF IsScan
    <3> QED
      BY <2>2, <3>5
  <2> QED
    BY <2>3, <2>4
<1> QED
  BY <1>1, <1>2

(* The answer r at k is the newest of the first n results, and the first   *)
(* of those that are as new.                                               *)
FirstNewest(results, n, k) ==
  /\ k \in 1..n
  /\ results[k] # None
  /\ \A j \in 1..n : results[j] # None => results[j].ts <= results[k].ts
  /\ \A j \in 1..(k - 1) : results[j] # None => results[j].ts < results[k].ts

(* What LWW.read_resolve has found when it has gone through the results:   *)
(* nothing if all of them are None, otherwise the first of the newest.     *)
LEMMA BestIs ==
  ASSUME NEW results, Len(results) \in Nat,
         \A i \in 1..Len(results) : results[i] # None => results[i].ts \in Nat
  PROVE  \/ /\ Best(results) = Nothing
            /\ \A i \in 1..Len(results) : results[i] = None
         \/ \E k : /\ FirstNewest(results, Len(results), k)
                   /\ Best(results) = results[k]
<1> DEFINE L == Len(results)
           Found(f, n) == \/ f[n] = Nothing /\ \A i \in 1..n : results[i] = None
                          \/ \E k : FirstNewest(results, n, k) /\ f[n] = results[k]
<1>1. PICK f : IsScan(f, results, L) /\ Best(results) = f[L]
  <2> DEFINE s == CHOOSE g : IsScan(g, results, L)
  <2>1. IsScan(s, results, L)
    BY ScanExists
  <2>2. Best(results) = s[L]
    BY DEF Best, IsScan
  <2> QED
    BY <2>1, <2>2
<1> DEFINE T == {n \in 0..L : ~Found(f, n)}
<1>2. CASE T = {}
  BY <1>1, <1>2
<1>3. CASE T # {}
  <2>0. T \subseteq Nat
    OBVIOUS
  <2>1. PICK m \in T : \A k \in T : m <= k
    <3> HIDE DEF T
    <3> QED
      BY <1>3, <2>0, LeastNat
  <2>2. m \in 0..L /\ ~Found(f, m)
    BY <2>1
  <2>3. m # 0
    <3>1. f[0] = Nothing
      BY <1>1 DEF IsScan
    <3> QED
      BY <2>2, <3>1
  <2>4. m - 1 \in 0..L /\ Found(f, m - 1) /\ m \in 1..L
    BY <2>1, <2>2, <2>3
  <2>5. f[m] = IF Newer(results[m], f[m - 1]) THEN results[m] ELSE f[m - 1]
    BY <1>1, <2>4 DEF IsScan
  <2>6. results[m] # None => results[m].ts \in Nat
    BY <2>4
  <2>7. CASE f[m - 1] = Nothing /\ \A i \in 1..(m - 1) : results[i] = None
    <3>1. f[m - 1].ts = -1
      BY <2>7 DEF Nothing
    <3>2. CASE results[m] = None
      <4>1. f[m] = Nothing
        BY <2>5, <2>7, <3>2 DEF Newer
      <4>2. \A i \in 1..m : results[i] = None
        BY <2>4, <2>7, <3>2
      <4> QED
        BY <2>2, <4>1, <4>2
    <3>3. CASE results[m] # None
      <4>1. f[m] = results[m]
        BY <2>5, <2>6, <3>1, <3>3 DEF Newer
      <4>2. FirstNewest(results, m, m)
        BY <2>4, <2>6, <2>7, <3>3 DEF FirstNewest
      <4> QED
        BY <2>2, <4>1, <4>2
    <3> QED
      BY <3>2, <3>3
  <2>8. ASSUME NEW k, FirstNewest(results, m - 1, k), f[m - 1] = results[k] PROVE FALSE
    <3>1. k \in 1..(m - 1) /\ k \in 1..m /\ results[k] # None /\ results[k].ts \in Nat
      BY <2>4, <2>8 DEF FirstNewest
    <3>2. \A j \in 1..(m - 1) : results[j] # None => results[j].ts <= results[k].ts /\ results[j].ts \in Nat
      BY <2>4, <2>8 DEF FirstNewest
    <3>3. CASE Newer(results[m], results[k])
      <4>1. f[m] = results[m] /\ results[m] # None /\ results[m].ts > results[k].ts
        BY <2>5, <2>8, <3>3 DEF Newer
      <4>2. \A j \in 1..(m - 1) : results[j] # None => results[j].ts < results[m].ts
        BY <2>6, <3>1, <3>2, <4>1
      <4>3. \A j \in 1..m : results[j] # None => results[j].ts <= results[m].ts
        BY <2>4, <2>6, <3>2, <4>1, <4>2
      <4>4. FirstNewest(results, m, m)
        BY <2>4, <4>1, <4>2, <4>3 DEF FirstNewest
      <4> QED
        BY <2>2, <4>1, <4>4
    <3>4. CASE ~Newer(results[m], results[k])
      <4>1. f[m] = results[k]
        BY <2>5, <2>8, <3>4
      <4>2. results[m] # None => results[m].ts <= results[k].ts
        BY <2>6, <3>1, <3>4 DEF Newer
      <4>3. \A j \in 1..m : results[j] # None => results[j].ts <= results[k].ts
        BY <2>4, <3>2, <4>2
      <4>4. FirstNewest(results, m, k)
        BY <2>8, <3>1, <4>3 DEF FirstNewest
      <4> QED
        BY <2>2, <4>1, <4>4
    <3> QED
      BY <3>3, <3>4
  <2> QED
    BY <2>4, <2>7, <2>8
<1> QED
  BY <1>2, <1>3
=============================================================================

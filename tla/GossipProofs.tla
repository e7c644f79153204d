---------------------------- MODULE GossipProofs ----------------------------
(***************************************************************************)
(* Proofs about Gossip, for every set of nodes, seed, fan-out and any      *)
(* number of lost messages, timeouts, crashes and departures.              *)
(***************************************************************************)
EXTENDS Gossip, TLAPS

-----------------------------------------------------------------------------
(* A round is a function from the nodes asked to their answers. *)
LEMMA RoundForm ==
  ASSUME NEW f
  PROVE  f \in Rounds <=> /\ f = [q \in DOMAIN f |-> f[q]]
                          /\ DOMAIN f \subseteq Nodes
                          /\ \A q \in DOMAIN f : f[q] \in Answers
<1>1. ASSUME f \in Rounds
      PROVE  f = [q \in DOMAIN f |-> f[q]] /\ DOMAIN f \subseteq Nodes
               /\ \A q \in DOMAIN f : f[q] \in Answers
  <2>1. PICK S \in SUBSET Nodes : f \in [S -> Answers]
    BY <1>1 DEF Rounds
  <2> QED
    BY <2>1
<1>2. ASSUME f = [q \in DOMAIN f |-> f[q]], DOMAIN f \subseteq Nodes,
             \A q \in DOMAIN f : f[q] \in Answers
      PROVE  f \in Rounds
  <2>1. f \in [DOMAIN f -> Answers]
    BY <1>2
  <2>2. DOMAIN f \in SUBSET Nodes
    BY <1>2
  <2> QED
    BY <2>1, <2>2 DEF Rounds
<1> QED
  BY <1>1, <1>2

(* The empty round, a new round, a round with one more answer and a round  *)
(* with one peer less are rounds.                                          *)
LEMMA RoundSteps ==
  /\ Idle \in Rounds
  /\ \A S \in SUBSET Nodes : [p \in S |-> NoAnswer] \in Rounds
  /\ \A f \in Rounds, p \in Nodes, r \in Answers : [f EXCEPT ![p] = r] \in Rounds
  /\ \A f \in Rounds, p \in Nodes : [q \in DOMAIN f \ {p} |-> f[q]] \in Rounds
<1>1. ASSUME NEW S \in SUBSET Nodes PROVE [p \in S |-> NoAnswer] \in Rounds
  BY RoundForm DEF Answers
<1>2. Idle \in Rounds
  BY <1>1 DEF Idle
<1>3. ASSUME NEW f \in Rounds, NEW p \in Nodes, NEW r \in Answers
      PROVE  [f EXCEPT ![p] = r] \in Rounds
  BY RoundForm
<1>4. ASSUME NEW f \in Rounds, NEW p \in Nodes PROVE [q \in DOMAIN f \ {p} |-> f[q]] \in Rounds
  BY RoundForm
<1> QED
  BY <1>1, <1>2, <1>3, <1>4

-----------------------------------------------------------------------------
(* What an announcement on the wire looks like. *)
LEMMA BroadcastType ==
  ASSUME TypeOK, NEW n \in Nodes, NEW kind \in {"announce", "leave"},
         NEW members \in SUBSET Nodes, Broadcast(n, kind, members)
  PROVE  /\ msgs' \subseteq [kind : {"announce", "leave"}, src : Nodes, dst : Nodes]
         /\ (\A m \in msgs : m.src # m.dst) => (\A m \in msgs' : m.src # m.dst)
  BY DEF Broadcast, TypeOK

(* Every step keeps the types of the membership state. *)
THEOREM TypeCorrect == Spec => []TypeOK
<1>1. Init => TypeOK
  BY GossipConstants, RoundSteps DEF Init, TypeOK, Idle
<1>2. TypeOK /\ [Next]_vars => TypeOK'
  <2> SUFFICES ASSUME TypeOK, [Next]_vars PROVE TypeOK'
    OBVIOUS
  <2> USE GossipConstants DEF TypeOK, Disturb
  <2>1. ASSUME NEW n \in Nodes, Start(n) PROVE TypeOK'
    BY <2>1, BroadcastType DEF Start
  <2>2. ASSUME NEW n \in Nodes, Crash(n) PROVE TypeOK'
    BY <2>2, RoundSteps DEF Crash, GoDown, Idle
  <2>3. ASSUME NEW n \in Nodes, Leave(n) PROVE TypeOK'
    BY <2>3, BroadcastType DEF Leave
  <2>4. ASSUME NEW n \in Nodes, Stopped(n) PROVE TypeOK'
    BY <2>4, RoundSteps DEF Stopped, GoDown, Idle
  <2>5. ASSUME NEW n \in Nodes, GossipRound(n) PROVE TypeOK'
    <3>1. PICK S \in Samples(n) : asked' = [asked EXCEPT ![n] = [p \in S |-> NoAnswer]]
      BY <2>5 DEF GossipRound
    <3>2. S \in SUBSET (Nodes \ {n})
      BY DEF Samples, GetPeers
    <3> QED
      BY <2>5, <3>1, <3>2, RoundSteps DEF GossipRound
  <2>6. ASSUME NEW n \in Nodes, NEW p \in Nodes, ServePeerList(n, p) PROVE TypeOK'
    <3>1. Reply(TRUE, PeerList(p)) \in Answers
      BY DEF Reply, PeerList, Answers
    <3>2. [asked[n] EXCEPT ![p] = Reply(TRUE, PeerList(p))] \in Rounds
      BY <3>1, RoundSteps
    <3>3. asked' \in [Nodes -> Rounds]
      BY <2>6, <3>2 DEF ServePeerList
    <3> QED
      BY <2>6, <3>3 DEF ServePeerList
  <2>7. ASSUME NEW n \in Nodes, NEW p \in Nodes, NoPeerList(n, p) PROVE TypeOK'
    <3>1. Failed \in Answers
      BY DEF Failed, Reply, Answers
    <3>2. [asked[n] EXCEPT ![p] = Failed] \in Rounds
      BY <3>1, RoundSteps
    <3>3. asked' \in [Nodes -> Rounds]
      BY <2>7, <3>2 DEF NoPeerList
    <3> QED
      BY <2>7, <3>3 DEF NoPeerList
  <2>8. ASSUME NEW n \in Nodes, NEW p \in Nodes, Apply(n, p) PROVE TypeOK'
    <3>1. asked[n][p].peers \in SUBSET Nodes
      BY <2>8, RoundForm DEF Apply, Waiting, Answers
    <3>2. Unknown(n, asked[n][p].peers) \in SUBSET Nodes
      BY <3>1 DEF Unknown
    <3>3. asked' \in [Nodes -> Rounds]
      BY <2>8, RoundSteps DEF Apply
    <3> QED
      BY <2>8, <3>2, <3>3 DEF Apply, Learn, Evict
  <2>9. ASSUME NEW m \in msgs, Deliver(m) PROVE TypeOK'
    BY <2>9 DEF Deliver, HandleAnnounce, HandleLeave, Learn, Evict
  <2>10. ASSUME NEW m \in msgs, Lose(m) PROVE TypeOK'
    BY <2>10 DEF Lose
  <2>11. CASE UNCHANGED vars
    BY <2>11 DEF vars
  <2> QED
    BY <2>1, <2>2, <2>3, <2>4, <2>5, <2>6, <2>7, <2>8, <2>9, <2>10, <2>11 DEF Next
<1> QED
  BY <1>1, <1>2, PTL DEF Spec

(* A node never announces to itself, and a node that is down has  *)
(* no exchange going and starts again with an empty discovery.             *)
NeverToItself ==
  /\ \A m \in msgs : m.src # m.dst
  /\ \A n \in Nodes : ~Serving(n) => peers[n] = {} /\ DOMAIN asked[n] = {}

(* Nobody tells itself, and no discovery outlives its process: the *)
(* strengthening that makes RingDiscoveryAgree inductive.                  *)
LEMMA NeverToItselfAlways == Spec => []NeverToItself
<1>1. Init => NeverToItself
  BY DEF Init, NeverToItself, Idle, Serving
<1>2. TypeOK /\ NeverToItself /\ [Next]_vars => NeverToItself'
  <2> SUFFICES ASSUME TypeOK, NeverToItself, [Next]_vars PROVE NeverToItself'
    OBVIOUS
  <2> USE GossipConstants DEF TypeOK, NeverToItself, Serving
  <2>1. ASSUME NEW n \in Nodes, Start(n) PROVE NeverToItself'
    BY <2>1, BroadcastType DEF Start
  <2>2. ASSUME NEW n \in Nodes, Crash(n) PROVE NeverToItself'
    BY <2>2 DEF Crash, GoDown, Idle
  <2>3. ASSUME NEW n \in Nodes, Leave(n) PROVE NeverToItself'
    BY <2>3, BroadcastType DEF Leave
  <2>4. ASSUME NEW n \in Nodes, Stopped(n) PROVE NeverToItself'
    BY <2>4 DEF Stopped, GoDown, Idle
  <2>5. ASSUME NEW n \in Nodes, GossipRound(n) PROVE NeverToItself'
    BY <2>5 DEF GossipRound, Samples, GetPeers
  <2>6. ASSUME NEW n \in Nodes, NEW p \in Nodes, ServePeerList(n, p) \/ NoPeerList(n, p)
        PROVE  NeverToItself'
    BY <2>6, RoundForm DEF ServePeerList, NoPeerList, Waiting
  <2>7. ASSUME NEW n \in Nodes, NEW p \in Nodes, Apply(n, p) PROVE NeverToItself'
    BY <2>7 DEF Apply, Learn, Evict
  <2>8. ASSUME NEW m \in msgs, Deliver(m) PROVE NeverToItself'
    BY <2>8 DEF Deliver, HandleAnnounce, HandleLeave, Learn, Evict
  <2>9. ASSUME NEW m \in msgs, Lose(m) PROVE NeverToItself'
    BY <2>9 DEF Lose
  <2>10. CASE UNCHANGED vars
    BY <2>10 DEF vars
  <2> QED
    BY <2>1, <2>2, <2>3, <2>4, <2>5, <2>6, <2>7, <2>8, <2>9, <2>10 DEF Next
<1> QED
  BY <1>1, <1>2, TypeCorrect, PTL DEF Spec

-----------------------------------------------------------------------------
(* The ring a node routes by and the peers it checks for failure are the   *)
(* same nodes, in every interleaving of handlers and failures.             *)
THEOREM RingDiscoveryAgreeAlways == Spec => []RingDiscoveryAgree
<1>1. Init => RingDiscoveryAgree
  BY DEF Init, RingDiscoveryAgree, Serving
<1>2. TypeOK /\ NeverToItself /\ RingDiscoveryAgree /\ [Next]_vars => RingDiscoveryAgree'
  <2> SUFFICES ASSUME TypeOK, NeverToItself, RingDiscoveryAgree, [Next]_vars
               PROVE  RingDiscoveryAgree'
    OBVIOUS
  <2> USE GossipConstants DEF TypeOK, RingDiscoveryAgree, Serving
  <2>1. ASSUME NEW n \in Nodes, Start(n) PROVE RingDiscoveryAgree'
    BY <2>1 DEF Start, NeverToItself
  <2>2. ASSUME NEW n \in Nodes, GoDown(n) PROVE RingDiscoveryAgree'
    BY <2>2 DEF GoDown
  <2>3. ASSUME NEW n \in Nodes, Leave(n) PROVE RingDiscoveryAgree'
    BY <2>3 DEF Leave
  <2>4. ASSUME NEW n \in Nodes, NEW ps, n \notin ps, Serving(n), Learn(n, ps), UNCHANGED status
        PROVE  RingDiscoveryAgree'
    BY <2>4 DEF Learn
  <2>5. ASSUME NEW n \in Nodes, NEW p, p # n, Serving(n), Evict(n, p), UNCHANGED status
        PROVE  RingDiscoveryAgree'
    BY <2>5 DEF Evict
  <2>6. ASSUME UNCHANGED <<status, ring, peers>> PROVE RingDiscoveryAgree'
    BY <2>6
  <2>7. ASSUME NEW n \in Nodes, NEW p \in Nodes, Apply(n, p) PROVE RingDiscoveryAgree'
    <3>1. CASE ~Serving(n)
      BY <2>7, <3>1 DEF Apply, Learn, Evict
    <3>2. CASE Serving(n) /\ asked[n][p].ok
      <4>1. n \notin Unknown(n, asked[n][p].peers)
        BY DEF Unknown
      <4> QED
        BY <4>1, <3>2, <2>7, <2>4 DEF Apply
    <3>3. CASE Serving(n) /\ ~asked[n][p].ok
      BY <3>3, <2>7, <2>5 DEF Apply, NeverToItself
    <3> QED
      BY <3>1, <3>2, <3>3
  <2>8. ASSUME NEW m \in msgs, Deliver(m) PROVE RingDiscoveryAgree'
    <3>1. m.src # m.dst /\ m.dst \in Nodes
      BY DEF NeverToItself
    <3>2. CASE HandleAnnounce(m.dst, m)
      BY <2>8, <3>1, <3>2, <2>4, <2>6 DEF Deliver, HandleAnnounce
    <3>3. CASE HandleLeave(m.dst, m)
      BY <2>8, <3>1, <3>3, <2>5 DEF Deliver, HandleLeave
    <3> QED
      BY <2>8, <3>2, <3>3 DEF Deliver
  <2> QED
    BY <2>1, <2>2, <2>3, <2>6, <2>7, <2>8
       DEF Next, Crash, Stopped, GossipRound, ServePeerList, NoPeerList, Lose, vars
<1> QED
  BY <1>1, <1>2, TypeCorrect, NeverToItselfAlways, PTL DEF Spec
=============================================================================

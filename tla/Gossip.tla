------------------------------- MODULE Gossip -------------------------------
(***************************************************************************)
(* Membership: AsyncGossip and handle_message (dlstorage/peer_comm/        *)
(* gossip.py) with GossipDiscovery (dlstorage/discovery/gossip.py), and    *)
(* the parts of AsyncStorageNode.start() and stop() that drive them.  Each *)
(* node keeps the ring it routes by and, in its discovery, the peers it    *)
(* gossips with.  Between two awaits the event loop runs one handler, so   *)
(* every handler is one step; a gossip exchange is three: the request is   *)
(* out, the peer answers with its ring of that moment, the answer is       *)
(* applied.                                                                *)
(***************************************************************************)
EXTENDS Integers, FiniteSets

CONSTANTS
  Nodes,
  Seed,           \* GossipDiscovery.seed
  FanOut,         \* _GOSSIP_FANOUT
  InitUp,         \* the nodes up at first, who all know each other
  NoAnswer,       \* execute() is still waiting
  Disturbances,   \* the kinds of disturbance a run allows
  MaxDisturbed    \* bound on their number

ASSUME GossipConstants ==
  /\ IsFiniteSet(Nodes)
  /\ Seed \in Nodes
  /\ FanOut \in Nat \ {0}
  /\ InitUp \subseteq Nodes
  /\ Disturbances \subseteq {"loss", "timeout", "late", "crash", "leave"}
  /\ MaxDisturbed \in Nat

VARIABLES
  status,     \* "down", "up", or "leaving" while stop() waits for its broadcast
  ring,       \* _ring of each node
  peers,      \* _discovery._peers of each node
  asked,      \* the gossip round of each node: peer -> answer
  msgs,       \* announcements on the wire
  disturbed   \* how many disturbances happened

vars == <<status, ring, peers, asked, msgs, disturbed>>

Serving(n) == status[n] # "down"

(* An answer to PEER_LIST: None for a failure, or the peers in the reply. *)
Reply(ok, ps) == [ok |-> ok, peers |-> ps]
Failed == Reply(FALSE, {})

(* No round in progress. *)
Idle == [p \in {} |-> NoAnswer]

Init ==
  /\ status = [n \in Nodes |-> IF n \in InitUp THEN "up" ELSE "down"]
  /\ ring = [n \in Nodes |-> IF n \in InitUp THEN InitUp ELSE {}]
  /\ peers = [n \in Nodes |-> IF n \in InitUp THEN InitUp \ {n, Seed} ELSE {}]
  /\ asked = [n \in Nodes |-> Idle]
  /\ msgs = {}
  /\ disturbed = 0

Disturb(kind) ==
  /\ kind \in Disturbances
  /\ disturbed < MaxDisturbed
  /\ disturbed' = disturbed + 1

-----------------------------------------------------------------------------
(* Learning of and dropping peers, in the ring and in the discovery. *)
Learn_RingOnly(n, ps) ==
  /\ ring' = [ring EXCEPT ![n] = @ \cup ps]
  /\ peers' = peers

Learn(n, ps) ==
  /\ ring' = [ring EXCEPT ![n] = @ \cup ps]
  /\ peers' = [peers EXCEPT ![n] = @ \cup ps]

(* _evict() and PEER_LEAVE *)
Evict(n, p) ==
  /\ ring' = [ring EXCEPT ![n] = @ \ {p}]
  /\ peers' = [peers EXCEPT ![n] = @ \ {p}]

(* _broadcast() to every ring member but the node itself. *)
Broadcast(n, kind, members) ==
  msgs' = msgs \cup {[kind |-> kind, src |-> n, dst |-> p] : p \in members \ {n}}

Leaving(n) == {m \in msgs : m.src = n /\ m.kind = "leave"}

-----------------------------------------------------------------------------
(* start(): bootstrap from the discovery, add the node itself, announce. *)
Start(n) ==
  /\ status[n] = "down"
  /\ status' = [status EXCEPT ![n] = "up"]
  /\ ring' = [ring EXCEPT ![n] = {Seed, n}]
  /\ Broadcast(n, "announce", {Seed, n})
  /\ UNCHANGED <<peers, asked, disturbed>>

(* The process is gone; the next one starts from nothing. *)
GoDown(n) ==
  /\ status' = [status EXCEPT ![n] = "down"]
  /\ ring' = [ring EXCEPT ![n] = {}]
  /\ peers' = [peers EXCEPT ![n] = {}]
  /\ asked' = [asked EXCEPT ![n] = Idle]

Crash(n) ==
  /\ Disturb("crash")
  /\ Serving(n)
  /\ GoDown(n)
  /\ msgs' = {m \in msgs : m.dst # n}

(* stop(): the broadcast, and the rest once every execute() has returned.  *)
(* An announcement of start() may still be on its way.                     *)
Leave(n) ==
  /\ Disturb("leave")
  /\ status[n] = "up"
  /\ status' = [status EXCEPT ![n] = "leaving"]
  /\ Broadcast(n, "leave", ring[n])
  /\ UNCHANGED <<ring, peers, asked>>

(* An execute() that timed out leaves its message behind, still to arrive. *)
Stopped(n) ==
  /\ status[n] = "leaving"
  /\ \/ Leaving(n) = {} /\ UNCHANGED disturbed
     \/ Leaving(n) # {} /\ Disturb("late")
  /\ GoDown(n)
  /\ msgs' = {m \in msgs : m.dst # n}

-----------------------------------------------------------------------------
(* handle_message(), PEER_ANNOUNCE: a member already in the ring is not    *)
(* told to the discovery again.                                            *)
HandleAnnounce(n, m) ==
  /\ m.kind = "announce"
  /\ IF m.src \in ring[n] THEN UNCHANGED <<ring, peers>> ELSE Learn(n, {m.src})

(* handle_message(), PEER_LEAVE *)
HandleLeave(n, m) ==
  /\ m.kind = "leave"
  /\ Evict(n, m.src)

Deliver(m) ==
  /\ Serving(m.dst)
  /\ HandleAnnounce(m.dst, m) \/ HandleLeave(m.dst, m)
  /\ msgs' = msgs \ {m}
  /\ UNCHANGED <<status, asked, disturbed>>

(* Nobody listens there, or the connection fails: the broadcast ignores it. *)
Lose(m) ==
  /\ \/ ~Serving(m.dst) /\ UNCHANGED disturbed
     \/ Serving(m.dst) /\ Disturb("loss")
  /\ msgs' = msgs \ {m}
  /\ UNCHANGED <<status, ring, peers, asked>>

Handle(n) ==
  \E m \in msgs :
    /\ m.dst = n
    /\ Deliver(m) \/ (~Serving(n) /\ Lose(m))

-----------------------------------------------------------------------------
(* get_peers() but the node itself.  The list holds the seed twice once    *)
(* the seed is in _peers too, and the sample is drawn from the list.       *)
GetPeers_Self(n) == peers[n] \cup {Seed}

GetPeers(n) == (peers[n] \cup {Seed}) \ {n}

Listed(n) == Cardinality(peers[n] \ {n}) + (IF n = Seed THEN 0 ELSE 1)

Samples(n) ==
  LET k == IF Listed(n) < FanOut THEN Listed(n) ELSE FanOut
  IN  {S \in SUBSET GetPeers(n) :
         \/ Cardinality(S) = k
         \/ Seed \in S \cap peers[n] /\ Cardinality(S) = k - 1}

(* gossip_loop(): a round asks the whole sample at once, and the next      *)
(* round begins when every exchange of this one is over.                   *)
GossipRound(n) ==
  /\ Serving(n) /\ DOMAIN asked[n] = {}
  /\ \E S \in Samples(n) : S # {} /\ asked' = [asked EXCEPT ![n] = [p \in S |-> NoAnswer]]
  /\ UNCHANGED <<status, ring, peers, msgs, disturbed>>

Waiting(n, p) == p \in DOMAIN asked[n] /\ asked[n][p] = NoAnswer

(* handle_message(), PEER_LIST: the ring of the peer, without the peer. *)
PeerList_Self(p) == {p}

PeerList(p) == ring[p] \ {p}

ServePeerList(n, p) ==
  /\ Waiting(n, p) /\ Serving(p)
  /\ asked' = [asked EXCEPT ![n][p] = Reply(TRUE, PeerList(p))]
  /\ UNCHANGED <<status, ring, peers, msgs, disturbed>>

NoPeerList(n, p) ==
  /\ Waiting(n, p)
  /\ \/ ~Serving(p) /\ UNCHANGED disturbed
     \/ Serving(p) /\ Disturb("timeout")
  /\ asked' = [asked EXCEPT ![n][p] = Failed]
  /\ UNCHANGED <<status, ring, peers, msgs>>

(* _gossip_with(), after the await: evict the peer or learn its peers. *)
Unknown(n, ps) == ps \ ({n} \cup ring[n])

Apply(n, p) ==
  /\ p \in DOMAIN asked[n] /\ ~Waiting(n, p)
  /\ IF asked[n][p].ok THEN Learn(n, Unknown(n, asked[n][p].peers)) ELSE Evict(n, p)
  /\ asked' = [asked EXCEPT ![n] = [q \in DOMAIN @ \ {p} |-> @[q]]]
  /\ UNCHANGED <<status, msgs, disturbed>>

Round(n) ==
  \/ GossipRound(n)
  \/ \E p \in Nodes :
       ServePeerList(n, p) \/ (~Serving(p) /\ NoPeerList(n, p)) \/ Apply(n, p)

-----------------------------------------------------------------------------
Next ==
  \/ \E n \in Nodes :
       \/ Start(n) \/ Crash(n) \/ Leave(n) \/ Stopped(n)
       \/ GossipRound(n)
       \/ \E p \in Nodes : ServePeerList(n, p) \/ NoPeerList(n, p) \/ Apply(n, p)
  \/ \E m \in msgs : Deliver(m) \/ Lose(m)

Spec == Init /\ [][Next]_vars

(* The event loop runs every ready task, a peer that is up answers and one *)
(* that is down is found out by the pool.                                  *)
FairSpec == Spec /\ \A n \in Nodes : WF_vars(Round(n)) /\ WF_vars(Handle(n))

-----------------------------------------------------------------------------
Answers == [ok : BOOLEAN, peers : SUBSET Nodes] \cup {NoAnswer}

Rounds == UNION {[S -> Answers] : S \in SUBSET Nodes}

TypeOK ==
  /\ status \in [Nodes -> {"down", "up", "leaving"}]
  /\ ring \in [Nodes -> SUBSET Nodes]
  /\ peers \in [Nodes -> SUBSET Nodes]
  /\ asked \in [Nodes -> Rounds]
  /\ \A n \in Nodes : n \notin DOMAIN asked[n]
  /\ msgs \subseteq [kind : {"announce", "leave"}, src : Nodes, dst : Nodes]
  /\ disturbed \in 0..MaxDisturbed

(* A running node gossips with exactly the members of its ring (the seed,  *)
(* which get_peers() always adds, aside): nobody it routes keys to escapes *)
(* the failure check of gossip_loop(), and nobody it has dropped is asked. *)
(* The ring and the discovery are two collections, updated side by side in *)
(* three handlers (gossip.py:163-165, :173-175, :197-200, :206-208), one   *)
(* of them conditionally.                                                  *)
RingDiscoveryAgree ==
  \A n \in Nodes : Serving(n) =>
    /\ n \in ring[n]
    /\ ring[n] \ {n, Seed} = peers[n] \ {Seed}

(* "Nodes exchange peer lists on a regular interval, nodes announce their  *)
(* join, so new nodes are discovered quickly" (discovery/gossip.py:12):    *)
(* when every node is up for good and nothing was lost, slow or down on    *)
(* the way, every node ends up in every ring for good.                     *)
RingsConverge ==
  /\ <>[](\A n \in Nodes : status[n] = "up")
  /\ [](disturbed = 0)
  => <>[](\A n \in Nodes : ring[n] = Nodes)

(* "failed nodes are removed after a short timeout"                        *)
(* (discovery/gossip.py:12): a node that is down for good is, in the end,  *)
(* in nobody's ring.                                                       *)
FailedRemoved ==
  \A x \in Nodes \ {Seed} :
    <>[](status[x] = "down") => <>[](\A n \in Nodes : x \notin ring[n])
=============================================================================

---------------------------- MODULE ThreadedNode ----------------------------
(***************************************************************************)
(* One threaded StorageNode (dlstorage/node/sync.py): its life from        *)
(* start() to stop(), its accept, purge and gossip threads, the handler    *)
(* threads of its connections, and class Gossip with handle_message        *)
(* (dlstorage/peer_comm/gossip.py), over GossipDiscovery or                *)
(* StaticDiscovery.  No lock covers the ring and the discovery together:   *)
(* each is a set whose single updates are atomic, so a handler is a check  *)
(* followed by a job of single updates, and the jobs of several threads    *)
(* interleave.  The other nodes are the environment.                       *)
(***************************************************************************)
EXTENDS Integers, Sequences, FiniteSets, SequencesExt

CONSTANTS
  Self,         \* self.info
  Peers,        \* the other nodes
  Seeds,        \* the possible seeds, the node itself among them or not
  Handlers,     \* threads for _handle_client()
  FanOut,       \* _GOSSIP_FANOUT
  MaxChanges    \* bound on what the environment does

ASSUME ThreadedConstants ==
  /\ IsFiniteSet(Peers) /\ Self \notin Peers
  /\ Seeds \subseteq Peers \cup {Self}
  /\ "gossip" \notin Handlers
  /\ FanOut \in Nat \ {0} /\ MaxChanges \in Nat

VARIABLES
  static,     \* StaticDiscovery instead of GossipDiscovery
  seed,       \* GossipDiscovery.seed
  ring,       \* self._ring
  peers,      \* self._discovery._peers
  life,       \* where start() and stop() are
  running,    \* the threads of self._threads that have not ended
  conn,       \* the handler threads that have a connection
  ask,        \* what is left of the round's sample
  job,        \* thread -> the updates it still has to make
  alive,      \* the peers that answer
  heard,      \* the nodes that an answer may name
  mail,       \* announcements on their way to this node
  changes,    \* how often the environment acted
  contested   \* history: peers that one thread added while another dropped them

node    == <<static, seed, life, running, conn>>
world   == <<alive, heard, mail, changes>>
vars    == <<node, ring, peers, ask, job, world, contested>>

Gossiper == "gossip"
Background == {"accept", "purge", Gossiper}
Threads == Handlers \cup {Gossiper}

-----------------------------------------------------------------------------
(* The updates of a job.  Only a GossipDiscovery is told. *)
Update(kind, of, p) == [kind |-> kind, of |-> of, peer |-> p]

Told(kind, p) == IF static THEN <<>> ELSE <<Update(kind, "discovery", p)>>

Add(p) == <<Update("add", "ring", p)>> \o Told("add", p)

Drop_RingOnly(p) == <<Update("drop", "ring", p)>>

(* _evict() and PEER_LEAVE *)
Drop(p) == <<Update("drop", "ring", p)>> \o Told("drop", p)

(* The new peers of an answer, one after the other. *)
AddAll(ps) == FlattenSeq([i \in 1..Cardinality(ps) |-> Add(SetToSeq(ps)[i])])

WorksOn(t, p) == \E i \in DOMAIN job[t] : job[t][i].peer = p

(* Two threads meet on a peer when one starts to drop it while the other   *)
(* adds it, or the reverse.  A drop that met nobody sets things right.     *)
Meets(t, kind, p) ==
  \E u \in Threads \ {t} : \E i \in DOMAIN job[u] : job[u][i].peer = p /\ job[u][i].kind # kind

Begin(t, kind, ps, updates) ==
  /\ job' = [job EXCEPT ![t] = updates]
  /\ contested' = (IF kind = "drop" THEN contested \ ps ELSE contested)
                    \cup {p \in ps : Meets(t, kind, p)}

Apply(update, set) ==
  IF update.kind = "add" THEN set \cup {update.peer} ELSE set \ {update.peer}

(* One update of one container. *)
Step(t) ==
  /\ job[t] # <<>>
  /\ LET u == Head(job[t])
     IN  /\ ring'  = IF u.of = "ring" THEN Apply(u, ring) ELSE ring
         /\ peers' = IF u.of = "discovery" THEN Apply(u, peers) ELSE peers
  /\ job' = [job EXCEPT ![t] = Tail(@)]
  /\ UNCHANGED <<node, ask, world, contested>>

-----------------------------------------------------------------------------
(* get_peers() but the node itself. *)
GetPeers_Self == peers \cup (IF static THEN {} ELSE {seed})

GetPeers == (peers \cup (IF static THEN {} ELSE {seed})) \ {Self}

Init ==
  /\ static \in BOOLEAN
  /\ seed \in IF static THEN {Self} ELSE Seeds
  /\ peers \in IF static THEN SUBSET Peers ELSE {{}}
  /\ ring = {}
  /\ life = "new"
  /\ running = {}
  /\ conn = {}
  /\ ask = {}
  /\ job = [t \in Threads |-> <<>>]
  /\ alive \in SUBSET Peers
  /\ heard = alive \cup {Self}
  /\ mail = {}
  /\ changes = 0
  /\ contested = {}

(* start(): bootstrap, bind, start the threads; announce_join() changes    *)
(* nothing here.                                                           *)
Start ==
  /\ life = "new"
  /\ life' = "up"
  /\ ring' = GetPeers \cup {Self}
  /\ running' = Background
  /\ UNCHANGED <<static, seed, peers, conn, ask, job, world, contested>>

(* random.sample() draws from a list in which _peers may repeat the seed;  *)
(* asking a peer twice in a round is as good as asking it in the next.     *)
Listed == Cardinality(peers \ {Self}) + (IF static \/ seed = Self THEN 0 ELSE 1)

Samples ==
  LET k == Min({Listed, FanOut})
  IN  {S \in SUBSET GetPeers :
         \/ Cardinality(S) = k
         \/ seed \in S \cap peers /\ Cardinality(S) = k - 1}

(* gossip_loop(): one round *)
Round ==
  /\ Gossiper \in running
  /\ ask = {} /\ job[Gossiper] = <<>>
  /\ \E S \in Samples : S # {} /\ ask' = S
  /\ UNCHANGED <<node, ring, peers, job, world, contested>>

(* _gossip_with() gets an answer, names it and the ring of this moment,    *)
(* and begins to add what the ring does not have.  stop() may have closed  *)
(* the pool: the plain one gets answers all the same.                      *)
Answered(p) ==
  /\ p \in ask /\ job[Gossiper] = <<>>
  /\ p \in alive
  /\ \E named \in SUBSET (heard \ {p}) :
       LET new == named \ ({Self} \cup ring)
       IN  Begin(Gossiper, "add", new, AddAll(new))
  /\ ask' = ask \ {p}
  /\ UNCHANGED <<node, ring, peers, world>>

Changed ==
  /\ changes < MaxChanges
  /\ changes' = changes + 1

Unanswered_Ignored(p) ==
  /\ p \in ask /\ job[Gossiper] = <<>>
  /\ p \notin alive
  /\ ask' = ask \ {p}
  /\ UNCHANGED <<node, ring, peers, job, world, contested>>

(* _gossip_with() gets None: the peer is down or slow, or the mux pool,    *)
(* once closed, hands on no answer any more.                               *)
Unanswered(p) ==
  /\ p \in ask /\ job[Gossiper] = <<>>
  /\ \/ (p \notin alive \/ life = "stopped") /\ UNCHANGED changes
     \/ p \in alive /\ life # "stopped" /\ Changed
  /\ Begin(Gossiper, "drop", {p}, Drop(p))
  /\ ask' = ask \ {p}
  /\ UNCHANGED <<node, ring, peers, alive, heard, mail>>

-----------------------------------------------------------------------------
(* _accept_loop().  A client that hangs up is one that sends no more. *)
Accept(h) ==
  /\ life = "up"
  /\ h \notin conn
  /\ conn' = conn \cup {h}
  /\ UNCHANGED <<static, seed, life, running, ring, peers, ask, job, world, contested>>

(* _handle_client() on an announcement.  A peer already in the ring is not *)
(* added, and the discovery not told.                                      *)
HandleAnnounce(h, m) ==
  /\ m.kind = "announce"
  /\ IF m.peer \in ring
     THEN UNCHANGED <<job, contested>>
     ELSE Begin(h, "add", {m.peer}, Add(m.peer))

HandleLeave(h, m) ==
  /\ m.kind = "leave"
  /\ Begin(h, "drop", {m.peer}, Drop(m.peer))

Handle(h, m) ==
  /\ h \in conn /\ job[h] = <<>> /\ m \in mail
  /\ HandleAnnounce(h, m) \/ HandleLeave(h, m)
  /\ mail' = mail \ {m}
  /\ UNCHANGED <<node, ring, peers, ask, alive, heard, changes>>

-----------------------------------------------------------------------------
(* stop(): announce_leave() changes nothing here (an exception out of it   *)
(* ends stop() with nothing done), so its first step is the flag and the   *)
(* end of the server socket.                                               *)
Stop ==
  /\ life = "up"
  /\ life' = "joining"
  /\ UNCHANGED <<static, seed, running, conn, ring, peers, ask, job, world, contested>>

(* _accept_loop() and _purge_loop() look at the flag, end and are joined;  *)
(* gossip_loop() never looks.                                              *)
JoinFlagged ==
  /\ life = "joining" /\ running = Background
  /\ running' = {Gossiper}
  /\ UNCHANGED <<static, seed, life, conn, ring, peers, ask, job, world, contested>>

Stopped_JoinsAll ==
  /\ life = "joining" /\ running = {}
  /\ life' = "stopped"
  /\ UNCHANGED <<static, seed, running, conn, ring, peers, ask, job, world, contested>>

(* join(timeout=3.0) gives up on the gossip thread; then close_all(). *)
Stopped ==
  /\ life = "joining" /\ running = {Gossiper}
  /\ life' = "stopped"
  /\ UNCHANGED <<static, seed, running, conn, ring, peers, ask, job, world, contested>>

-----------------------------------------------------------------------------
(* The environment.  A peer that starts announces itself, one that stops   *)
(* says so, one that crashes does not.  A letter nobody handles is lost.   *)
Letter(kind, p) == [kind |-> kind, peer |-> p]

PeerStarts(p) ==
  /\ Changed /\ p \notin alive
  /\ alive' = alive \cup {p} /\ heard' = heard \cup {p}
  /\ mail' = mail \cup {Letter("announce", p)}
  /\ UNCHANGED <<node, ring, peers, ask, job, contested>>

PeerEnds(p) ==
  /\ Changed /\ p \in alive
  /\ alive' = alive \ {p} /\ UNCHANGED heard
  /\ \E farewell \in SUBSET {Letter("leave", p)} : mail' = mail \cup farewell
  /\ UNCHANGED <<node, ring, peers, ask, job, contested>>

(* The last other node that knew a dead peer has dropped it. *)
Forgotten(p) ==
  /\ p \in heard \ alive
  /\ heard' = heard \ {p}
  /\ UNCHANGED <<node, ring, peers, ask, job, alive, mail, changes, contested>>

-----------------------------------------------------------------------------
GossipThread ==
  \/ Round
  \/ \E p \in Peers : Answered(p) \/ Unanswered(p)
  \/ Step(Gossiper)

Next ==
  \/ Start \/ Stop \/ JoinFlagged \/ Stopped
  \/ GossipThread
  \/ \E h \in Handlers :
       \/ Accept(h) \/ Step(h)
       \/ \E m \in mail : Handle(h, m)
  \/ \E p \in Peers : PeerStarts(p) \/ PeerEnds(p) \/ Forgotten(p)

(* Every thread runs on: a job that began ends, the gossip thread goes     *)
(* from round to round, and stop() from one line to the next.              *)
Spec ==
  /\ Init /\ [][Next]_vars
  /\ WF_vars(GossipThread)
  /\ \A h \in Handlers : WF_vars(Step(h))
  /\ WF_vars(JoinFlagged \/ Stopped)

-----------------------------------------------------------------------------
Updates == [kind : {"add", "drop"}, of : {"ring", "discovery"}, peer : Peers]

TypeOK ==
  /\ static \in BOOLEAN /\ seed \in Peers \cup {Self}
  /\ life \in {"new", "up", "joining", "stopped"}
  /\ running \subseteq Background
  /\ conn \subseteq Handlers
  /\ ring \subseteq Peers \cup {Self} /\ peers \subseteq Peers
  /\ life # "new" => Self \in ring
  /\ ask \subseteq Peers
  /\ job \in [Threads -> Seq(Updates)]
  /\ \A h \in Handlers \ conn : job[h] = <<>>
  /\ alive \subseteq Peers /\ heard \subseteq Peers \cup {Self}
  /\ mail \subseteq [kind : {"announce", "leave"}, peer : Peers]
  /\ changes \in 0..MaxChanges
  /\ contested \subseteq Peers

(* The ring and the discovery, two sets under no common lock               *)
(* (gossip.py:81-83, :91-93, :198-200, :206-208), name the same peers      *)
(* whenever nobody is at work on the peer, although handler threads and    *)
(* the gossip thread interleave their updates.  The one thing that pulls   *)
(* them apart is a thread that adds a peer while another drops it.         *)
AgreeUnlessContested ==
  life # "new" /\ ~static =>
    \A p \in Peers \ (contested \cup {seed}) :
      (\A t \in Threads : ~WorksOn(t, p)) => (p \in ring <=> p \in peers)

(* "Periodically exchange peer lists and evict unresponsive nodes"         *)
(* (gossip.py:54): a peer that is down for good, that no answer names any  *)
(* more and that the discovery lists, leaves the ring for good, whatever   *)
(* announcements of it still arrive and whether or not stop() was called   *)
(* meanwhile.  A round asks everybody while the cluster is no larger than  *)
(* the fan-out; beyond, it is left to chance.                              *)
DeadEvicted ==
  Cardinality(Peers) < FanOut => \A p \in Peers :
    /\ <>(life # "new")
    /\ <>[](p \notin alive /\ p \notin heard /\ p \notin contested)
    /\ [](static => p \in peers)
    => <>[](p \notin ring)

(* stop() comes back (sync.py:204-216), although gossip_loop() is an       *)
(* endless loop that knows no stop flag.                                   *)
StopReturns == life = "joining" ~> life = "stopped"
=============================================================================

SPECIFICATION FairSpec
CONSTANTS
  TOMBSTONE = TOMBSTONE
  None = None
  n1 = n1
  n2 = n2
  n3 = n3
  Values = {v1}
  Nodes <- TwoNodes
  Peers <- TwoNodes
  InitRing <- AllKnown
  Score <- RankedScore
  Clients = {c1}
  Replication = 2
  Concurrent = {n1}
  FirstHit = {}
  Skew = 0
  MaxTs = 3
  Disturbances = {"timeout", "reply", "retry", "raise", "crash", "join", "evict"}
  MaxDisturbed = 2
INVARIANTS TypeOK AckedWriteHeld
PROPERTY CallsFinishUnlessStuck

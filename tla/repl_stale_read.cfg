SPECIFICATION Spec
CONSTANTS
  TOMBSTONE = TOMBSTONE
  None = None
  n1 = n1
  n2 = n2
  n3 = n3
  Values = {v1}
  Nodes <- ThreeNodes
  Peers <- ThreeNodes
  InitRing <- AllKnown
  Score <- RankedScore
  Clients = {c1}
  Replication = 2
  Concurrent = {}
  FirstHit = {}
  Skew = 0
  MaxTs = 2
  Disturbances = {"timeout"}
  MaxDisturbed = 2
INVARIANT FreshRead

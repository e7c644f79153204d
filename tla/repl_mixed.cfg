SPECIFICATION Spec
CONSTANTS
  TOMBSTONE = TOMBSTONE
  None = None
  n1 = n1
  n2 = n2
  n3 = n3
  Values = {v1}
  Nodes <- ThreeNodes
  Peers <- ThreeNodes
  InitRing <- AllKnown
  Score <- RankedScore
  Clients = {c1, c2}
  Replication = 2
  Concurrent = {n2}
  FirstHit = {n3}
  Skew = 1
  MaxTs = 3
  Disturbances = {}
  MaxDisturbed = 0
INVARIANTS FreshRead ReplicasConverge

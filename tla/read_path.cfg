SPECIFICATION ReadSpec
CONSTANTS
  n1 = n1
  n2 = n2
  n3 = n3
  n4 = n4
  v1 = v1
  v2 = v2
  Nodes <- FourNodes
  Replication = 3
  NoNode = NoNode
  None = None
  TOMBSTONE = TOMBSTONE
  Values <- TwoValues
  MaxTs = 3
SYMMETRY Symmetry
INVARIANTS RankedIsTopN LWWReturnsNewest FHWAgreesWithLWW
PROPERTY MinimalRemap

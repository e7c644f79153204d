SPECIFICATION PairSpec
CONSTANTS
  TOMBSTONE = TOMBSTONE
  None = None
  k1 = k1
  v1 = v1
  v2 = v2
  t1 = t1
  t2 = t2
  Values <- TwoValues
  Keys <- OneKey
  Threads <- TwoThreads
  Stamps = {1, 2, 3}
  TTLs = {None, 1}
  Patterns <- MatchesAll
  MaxTime = 2
SYMMETRY Symmetry
VIEW WithoutBurials
INVARIANTS TypeOK NewestWins ExpiryOrdered SameAsPlain
PROPERTY VersionsOnlyAdvance

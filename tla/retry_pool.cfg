SPECIFICATION Spec
CONSTANTS
  None = None
  KeyError = KeyError
  c1 = c1
  c2 = c2
  x1 = x1
  x2 = x2
  x3 = x3
  Callers <- TwoCallers
  Conns <- ThreeConns
  MaxPerPeer = 1
  MaxCalls = 2
  MaxQueues = 3
  MaxDisturbed = 2
SYMMETRY Symmetry
INVARIANTS TypeOK OneOwner OwnAnswer
PROPERTY KeepsPromise
CHECK_DEADLOCK FALSE

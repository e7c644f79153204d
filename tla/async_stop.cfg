SPECIFICATION StopSpec
CONSTANTS
  a = a
  b = b
  Nodes <- TwoNodes
  Links <- ThreeLinks
INVARIANTS StopTypeOK StoppedClean
PROPERTY StopReturnsUnlessLate
CHECK_DEADLOCK FALSE

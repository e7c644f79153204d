SPECIFICATION FairSpec
CONSTANTS
  s = s
  a = a
  b = b
  NoAnswer = NoAnswer
  Seed = s
  FanOut = 2
  Nodes <- ThreeNodes
  InitUp = {s}
  Disturbances = {"loss", "timeout", "late", "crash", "leave"}
  MaxDisturbed = 1
INVARIANTS TypeOK RingDiscoveryAgree
PROPERTY RingsConverge

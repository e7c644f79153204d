SPECIFICATION FairSpec
CONSTANTS
  s = s
  a = a
  b = b
  NoAnswer = NoAnswer
  Seed = s
  FanOut = 3
  Nodes <- ThreeNodes
  InitUp <- ThreeNodes
  Disturbances = {"crash"}
  MaxDisturbed = 1
PROPERTY FailedRemoved

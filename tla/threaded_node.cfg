SPECIFICATION Spec
CONSTANTS
  self = self
  a = a
  b = b
  h1 = h1
  h2 = h2
  Self = self
  Peers <- TwoPeers
  Seeds = {self, a}
  Handlers <- TwoHandlers
  FanOut = 3
  MaxChanges = 2
INVARIANTS TypeOK AgreeUnlessContested
PROPERTIES DeadEvicted StopReturns
CHECK_DEADLOCK FALSE

SPECIFICATION FairSpec
CONSTANTS
  None = None
  Callers = {c1, c2}
  Socks = {s1, s2, s3}
  MaxPerPeer = 1
  MaxCalls = 2
  MaxDisturbed = 1
INVARIANTS TypeOK OneOwner OwnAnswer NoLostWakeup
PROPERTY CallsReturn

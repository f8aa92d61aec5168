CONSTANTS
  Goroutine = {g1, g2}
  Digest = {d1}
  None = None
  MaxCalls = 2
\* Every goroutine has made its calls.
CHECK_DEADLOCK FALSE
SPECIFICATION FairSpec
INVARIANTS EvidenceBindsCall AnchorMatches KeyCleared
PROPERTY CallsReturn

CONSTANTS
  Goroutine = {g1, g2, g3}
  None = None
  IsServer = TRUE
SPECIFICATION FairSpec
INVARIANTS RunsOnce OneVerdict CiphersInstalled HandshakeDeadlineCleared
PROPERTY CallsReturn

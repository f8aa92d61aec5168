CONSTANTS
  Body <- MCBody
  K = 2
  Base = 3
  MaxPlaintextLength = 4
  maxHandshakeBufferSize = 7
  Cap = 2
\* The handshake is over.
CHECK_DEADLOCK FALSE
SPECIFICATION FairSpec
INVARIANTS TypeOK HandoffClean
PROPERTIES ImplementsMessages FittingDelivered

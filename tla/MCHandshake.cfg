CONSTANTS
  Config <- MCConfig
  Cap = 1
  MaxFaults = 2
  TimedOut = {"client", "server"}
\* Both ends have returned and closed.
CHECK_DEADLOCK FALSE
SPECIFICATION FairSpec
INVARIANTS ServerDoneMeansAgreement ClientDoneMeansAgreement MutualHonoured
PROPERTIES HandshakeTerminates ServerReturns CompatibleEndsComplete

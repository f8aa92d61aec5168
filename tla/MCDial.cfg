CONSTANTS
  IO = 4
  Flight = 2
\* DialContext returns and nothing follows.
CHECK_DEADLOCK FALSE
SPECIFICATION DialFairSpec
INVARIANTS HandedBackClean FailureReleases
PROPERTIES CancelReturns DialReturns

CONSTANTS
  Caller = {g1, g2}
  TTL = 2
  Life = 3
  Margin = 1
  MaxTime = 4
  MaxCalls = 2
\* Every caller has made its calls.
CHECK_DEADLOCK FALSE
SPECIFICATION FairSpec
INVARIANT PairMatches
PROPERTIES ValidNotReplaced CallsReturn RetrievalCancellable

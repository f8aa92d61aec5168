CHECK_DEADLOCK FALSE
CONSTANTS
  Writer = {w1}
  Reader = {r1}
  Closer = {c1}
  AtServer = {w1, c1}
  EndOf <- MCEndOf
  None = None
  WriteLen = {3}
  ReadLen = {2}
  MaxCalls = 1
  MaxPlaintextLength = 2
  SeqMax = 3
  BufCap = 1
  Unreliable = {}
  ReadDeadlines = {}
  WriteDeadlines = {}
SPECIFICATION FairSpec
PROPERTY CloseReturns

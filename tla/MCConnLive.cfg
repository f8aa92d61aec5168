CONSTANTS
  Writer = {w1}
  Reader = {r1, r2}
  Closer = {c1, c2}
  AtServer = {w1, r2, c1, c2}
  EndOf <- MCEndOf
  None = None
  WriteLen = {3}
  ReadLen = {2}
  MaxCalls = 1
  MaxPlaintextLength = 2
  SeqMax = 3
  BufCap = 2
  Unreliable = {}
  ReadDeadlines = {}
  WriteDeadlines = {}
SPECIFICATION FairSpec
PROPERTIES AckedIsDelivered WriteAndCloseReturn CallsReturnAfterClose

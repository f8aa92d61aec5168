CONSTANTS
  Writer = {w1, w2}
  Reader = {r1, r2}
  Closer = {c1}
  AtServer = {w1, w2, c1}
  EndOf <- MCEndOf
  None = None
  WriteLen = {3}
  ReadLen = {1}
  MaxCalls = 1
  MaxPlaintextLength = 2
  SeqMax = 3
  BufCap = 3
  Unreliable = {"server"}
  ReadDeadlines = {"client"}
  WriteDeadlines = {"server"}
SYMMETRY Symmetry
SPECIFICATION Spec
INVARIANTS TypeOK WritesContiguous CloseBetweenWrites
PROPERTY ImplementsStream

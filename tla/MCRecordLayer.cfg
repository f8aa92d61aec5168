CONSTANTS
  Sealer = {s1, s2}
  Opener = {o1}
  None = None
  SeqBits = 2
  BaseIV <- MCBaseIV
  SealType = {20, 23}
  Plaintext <- MCPlaintext
  Padding <- MCPadding
  MaxPlaintextLength = 2
  MaxCiphertextLength = 6
  GCMTagSize = 1
SPECIFICATION FairSpec
INVARIANT NonceUnique
PROPERTIES ImplementsChannel CallsReturn

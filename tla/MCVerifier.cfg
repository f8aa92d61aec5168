CONSTANTS
  Root <- MCRoot
  Word = {0, 1}
  Zero = 0
  Xor <- MCXor
  Width = 2
  Bundle <- MCBundle
  HSKOf <- MCHSKOf
  CEKOf <- MCCEKOf
  Measurement <- MCMeasurement
  KeyDigest <- MCKeyDigest
  Config <- MCConfig
  Certificate <- MCCertificate
CHECK_DEADLOCK FALSE
SPECIFICATION Spec
INVARIANTS AcceptsOnlyAttested LocalNeverShadowed FailsFastExactly

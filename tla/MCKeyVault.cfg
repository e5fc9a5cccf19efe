CONSTANTS
  p1 = p1
  p2 = p2
  Passwords <- MCPasswords
  ZeroCrypt = ZeroCrypt
  DNetKeyLen = 256
  MakeKeyLens = {64, 256}
  MaxKeys = 3
SYMMETRY Symmetry
SPECIFICATION Spec
INVARIANT TypeOK
INVARIANT VerifyRoundTrip

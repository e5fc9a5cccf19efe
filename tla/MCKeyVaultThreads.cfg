CONSTANTS
  p1 = p1
  c1 = c1
  c2 = c2
  Passwords <- MCPasswords
  Callers <- MCCallers
  ZeroCrypt = ZeroCrypt
  NoCaller = NoCaller
  DNetKeyLen = 256
  MakeKeyLens = {64, 256}
  MaxKeys = 2
INIT TInit
NEXT TNext
PROPERTY KeyVaultRefined

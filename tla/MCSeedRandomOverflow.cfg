CONSTANTS
  DigitBytes = 4
  ArraySizes <- MCArrayOverflow
  BytesSizes <- MCBytesOverflow
INIT Init
NEXT Next
INVARIANT AccessesInBounds

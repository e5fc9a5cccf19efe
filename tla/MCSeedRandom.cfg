CONSTANTS
  DigitBytes = 4
  ArraySizes <- MCArraySizes
  BytesSizes <- MCBytesSizes
INIT Init
NEXT Next
INVARIANT TypeOK AccessesInBounds PasswordSegmentsPartition

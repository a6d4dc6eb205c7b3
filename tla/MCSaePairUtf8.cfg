\* A file with a character that spans two pieces.
CONSTANTS
  Byte <- MCByte
  Xor <- MCXor
  Keys <- LongKeys
  Files <- WideFiles
  ValidUtf8 <- TwoByteCharacters
  KEY_SIZE_BYTES = 2
  KEYS_PER_REQUEST = 2
  ReaderCapacity = 8
  MinSegment = 1
  Window = 3
  MaxFaults = 0
SPECIFICATION Spec
INVARIANTS HonestRunPrintsAll

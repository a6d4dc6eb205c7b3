\* A file whose length is no multiple of the buffer's.
CONSTANTS
  Byte <- MCByte
  Xor <- MCXor
  Keys <- LongKeys
  Files <- OddFiles
  ValidUtf8 <- Always
  KEY_SIZE_BYTES = 2
  KEYS_PER_REQUEST = 2
  ReaderCapacity = 8
  MinSegment = 1
  Window = 3
  MaxFaults = 0
SPECIFICATION Spec
INVARIANTS PrintedIsTheFile

\* Nothing fails and every key is long enough.
CONSTANTS
  Byte <- MCByte
  Xor <- MCXor
  Keys <- LongKeys
  Files <- TextFiles
  ValidUtf8 <- Always
  KEY_SIZE_BYTES = 2
  KEYS_PER_REQUEST = 2
  ReaderCapacity = 3
  MinSegment = 1
  Window = 3
  MaxFaults = 0
SPECIFICATION FairSpec
INVARIANTS HonestRunPrintsAll
PROPERTIES HonestDelivery

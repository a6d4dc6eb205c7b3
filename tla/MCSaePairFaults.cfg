\* Both processes, up to two failures anywhere; one key is too short.
CONSTANTS
  Byte <- MCByte
  Xor <- MCXor
  Keys <- ShortKeys
  Files <- TextFiles
  ValidUtf8 <- Always
  KEY_SIZE_BYTES = 2
  KEYS_PER_REQUEST = 3
  ReaderCapacity = 3
  MinSegment = 1
  Window = 3
  MaxFaults = 2
SPECIFICATION FairSpec
INVARIANTS TypeOK OneTimeKeys PrintedInFileOrder CollectedKeysWereUsed NobodyIsStuck
PROPERTIES EndsOrWaitsInVain ImplementsTransfer StepsRunOut

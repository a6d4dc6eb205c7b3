\* Nothing fails and the header travels in one segment.
CONSTANTS
  Byte <- MCByte
  Xor <- MCXor
  Keys <- MCKeys
  Remains <- MCRemains
  Files <- TextFiles
  PkBytes = 1
  SigBytes = 2
  PayloadLen = 4
  MinSegment = 4
  Window = 5
  MaxFaults = 0
SPECIFICATION FairSpec
INVARIANTS HonestRunVerifies
PROPERTIES HonestDelivery

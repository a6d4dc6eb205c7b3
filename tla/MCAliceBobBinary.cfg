\* A file with a zero byte in it.
CONSTANTS
  Byte <- MCByte
  Xor <- MCXor
  Keys <- MCKeys
  Remains <- MCRemains
  Files <- BinaryFiles
  PkBytes = 1
  SigBytes = 2
  PayloadLen = 3
  MinSegment = 4
  Window = 5
  MaxFaults = 0
SPECIFICATION Spec
INVARIANTS HonestRunVerifies

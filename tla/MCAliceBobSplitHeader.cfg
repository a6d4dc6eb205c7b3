\* The four bytes of the header may arrive in two segments.
CONSTANTS
  Byte <- MCByte
  Xor <- MCXor
  Keys <- MCKeys
  Remains <- MCRemains
  Files <- ShortFiles
  PkBytes = 1
  SigBytes = 2
  PayloadLen = 3
  MinSegment = 1
  Window = 5
  MaxFaults = 0
SPECIFICATION Spec
INVARIANTS HonestRunVerifies

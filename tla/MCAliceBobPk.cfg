\* The key field of the payload.
CONSTANTS
  Byte <- MCByte
  Xor <- MCXor
  Keys <- MCKeys
  Remains <- MCRemains
  Files <- ShortFiles
  PkBytes = 1
  SigBytes = 2
  PayloadLen = 3
  MinSegment = 4
  Window = 5
  MaxFaults = 0
SPECIFICATION Spec
INVARIANTS PkFieldIsThePublicKey

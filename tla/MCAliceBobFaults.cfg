\* Both programs, up to two failures anywhere, segments of any size.
CONSTANTS
  Byte <- MCByte
  Xor <- MCXor
  Keys <- MCKeys
  Remains <- MCRemains
  Files <- TextFiles
  PkBytes = 1
  SigBytes = 2
  PayloadLen = 7
  MinSegment = 1
  Window = 5
  MaxFaults = 2
SPECIFICATION FairSpec
INVARIANTS TypeOK VerifiedIsTheFile NobodyIsStuck
PROPERTIES EndsOrWaitsInVain ImplementsTransfer StepsRunOut

SPECIFICATION Spec
CONSTANTS
  Ciphertexts <- MCCiphertexts
  FieldsLen = 5
  Room = 68
  LongMax = 1023
  HeapChars = {55, 32, 45, 44, 93, 120}
  MaxHeap = 2
INVARIANTS
  TypeOK
  NothingTruncated
  PointersStayInArray
  ArrivedBytesAreRead

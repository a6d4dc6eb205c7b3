SPECIFICATION AnswerSpec
CONSTANTS
  Bodies <- MCBodies
  Texts <- MCTexts
  FieldNames <- MCNames
  Nodes = {n1, n2, n3, n4, n5, n6}
  NULL = NULL
  NestingLimit = 3
  KeysName <- k
  KeyName <- f
  KeyIdName <- i
INVARIANTS
  AnswerTypeOK
  WholeOrNothing
  BlockHasOneOwner
  NothingMissed
  OnlyCopiesLeft
PROPERTIES
  ImplementsRequest
  AnswerStepsRunOut

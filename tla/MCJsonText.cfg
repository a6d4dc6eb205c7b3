SPECIFICATION FairSpec
CONSTANTS
  Texts <- MCTexts
  Nodes = {n1, n2, n3, n4, n5, n6}
  NULL = NULL
  NestingLimit = 3
  KeysName <- keys
  FieldNames <- MCFieldNames
  MaxWrong = 1
INVARIANTS
  TypeOK
  OutputFits
  ReadsStayInText
  DepthIsNesting
  NodesHaveOneOwner
  StringsHaveOneOwner
  SiblingsLinked
  ParsesWhatIsSpelled
  FirstKeysField
PROPERTIES
  StepsRunOut
  Terminates

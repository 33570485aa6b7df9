SPECIFICATION FairSpec
CONSTANTS
  MaxUrbs = 2
  MaxImports = 1
  InCap = 1
  OutCap = 1
  Kinds <- AllKinds
  InOpens <- Always
  OutOpens <- EitherWay
PROPERTIES HandlerReturns RequestsEnd KeepsUrbContract
CHECK_DEADLOCK FALSE

SPECIFICATION Spec
CONSTANTS
  MaxUrbs = 3
  MaxImports = 2
  InCap = 1
  OutCap = 1
  Kinds <- AllKinds
  InOpens <- EitherWay
  OutOpens <- EitherWay
INVARIANTS TypeOK ResponsesExclusive UnlinkTruthful ReadsInOrder ShutdownFlushes
PROPERTIES ReadAfterWrites ControlAfterWrites NoStaleOutResponse
CHECK_DEADLOCK FALSE

CONSTANTS
  Hosts <- AllHosts
  Names <- AllNames
  Units <- UnitsOf
  NewNames = {"short", "long"}
  Values = {0, 1, 2, 238}
  Indexes = {0, 2, 257}
  Lengths = {0, 1, 512}
  Buffers = {0, 64, 100}
  None = None
  MaxChanges = 2
SPECIFICATION Spec
INVARIANTS TypeOK StringsNamed RepliesFit RequestsServed AcksAreTrue
CHECK_DEADLOCK FALSE

CONSTANTS
  Buses = {b1}
  Conns = {c1, c2}
  MaxPlugs = 1
  MaxOpens = 2
  HostSync = TRUE
  HandlerPanics = FALSE
  None = None
SPECIFICATION Spec
INVARIANTS DeviceExclusive
CHECK_DEADLOCK FALSE

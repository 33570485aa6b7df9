CONSTANTS
  Buses = {b1}
  Conns = {c1, c2}
  MaxPlugs = 1
  MaxOpens = 1
  HostSync = FALSE
  HandlerPanics = FALSE
  None = None
SPECIFICATION Spec
PROPERTIES BackgroundOnlyWhenIdle
CHECK_DEADLOCK FALSE

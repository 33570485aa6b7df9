CONSTANTS
  Buses = {b1}
  Conns = {c1, c2}
  MaxPlugs = 1
  MaxOpens = 2
  HostSync = TRUE
  HandlerPanics = FALSE
  None = None
SPECIFICATION FairSpec
PROPERTIES DisconnectReleases
CHECK_DEADLOCK FALSE

CONSTANTS
  Buses = {b1, b2}
  Conns = {c1, c2}
  MaxPlugs = 1
  MaxOpens = 1
  HostSync = FALSE
  HandlerPanics = TRUE
  None = None
SPECIFICATION FairSpec
PROPERTIES ImportAnswered DisconnectReleases
CHECK_DEADLOCK FALSE

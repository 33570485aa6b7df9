CONSTANTS
  Buses = {b1}
  Conns = {c1, c2}
  MaxPlugs = 2
  MaxOpens = 2
  HostSync = TRUE
  HandlerPanics = FALSE
  None = None
SPECIFICATION Spec
INVARIANTS TypeOK HandleExclusive UsedTracksImports OccupancyTracksImports
PROPERTIES ImportTransfersOwnership NoDeviceLost
SYMMETRY BothSymmetry
CHECK_DEADLOCK FALSE

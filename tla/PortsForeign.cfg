SPECIFICATION FairSpec
CONSTANTS
  NumPorts = 2
  Buses <- ThreeBuses
  VidPid <- AllDiffer
PROPERTIES AgentDetachesOwn
CHECK_DEADLOCK FALSE

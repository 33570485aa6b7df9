SPECIFICATION FairSpec
CONSTANTS
  NumPorts = 2
  Buses <- ThreeBuses
  VidPid <- AllDiffer
INVARIANTS TypeOK ReportedPortsManaged
PROPERTIES RequestAnswered
CHECK_DEADLOCK FALSE

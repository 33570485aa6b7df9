CONSTANTS
  Buses <- TwoBuses
  Ports <- OnePort
  None = "none"
  Worlds <- FourWorlds
  MaxQueued = 0
SPECIFICATION FairSpec
INVARIANTS TypeOK SpinnerMatchesWork DoesAsShown ExitDetachesAll
PROPERTIES CursorStays ListConverges ActionsEnd
CHECK_DEADLOCK FALSE

CONSTANTS
  Procs = {p1, p2, p3}
  MaxCrashes = 1
  None = None
  Blank = Blank
SPECIFICATION FairSpec
INVARIANTS TypeOK SoleHolder RefusedForSomeone NoLockLeft
PROPERTIES AgentFound StartEnds
CHECK_DEADLOCK FALSE

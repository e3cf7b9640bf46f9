\* Three processes, none of which dies; calls may fail, the agent may go.
SPECIFICATION FairSpec
CONSTANTS
  Procs = {p1, p2, p3}
  MayCrash = {}
  MaxAcq = 1
  MaxAttempts = 2
  IoErrors = TRUE
  MayDelete = TRUE
  None = None
 
PROPERTIES  EveryUpdateEnds
CHECK_DEADLOCK FALSE

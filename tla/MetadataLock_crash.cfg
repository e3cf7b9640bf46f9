\* One process may die at any step; the two survivors reclaim its lock.
SPECIFICATION FairSpec
CONSTANTS
  Procs = {p1, p2, p3}
  MayCrash = {p1}
  MaxAcq = 1
  MaxAttempts = 2
  IoErrors = FALSE
  MayDelete = FALSE
  None = None
PROPERTIES LiveLockKept StaleLockReclaimed
CHECK_DEADLOCK FALSE

\* Three clients run and steer; some die, models stall, sessions show up late.
SPECIFICATION Spec
CONSTANTS
  Clients = {c1, c2, c3}
  Commands = {"run", "steer"}
  Chances = {"late", "stall", "cliCrash"}
  MaxLaunch = 4
  None = None
INVARIANTS SteersInOrder OwedHasWorker AtMostOneLive NothingLost
SYMMETRY ClientSymmetry
CHECK_DEADLOCK FALSE

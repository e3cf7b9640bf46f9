\* Every command, against failures of the model, the store and the runner.
SPECIFICATION Spec
CONSTANTS
  Clients = {c1, c2}
  Commands = {"run", "steer", "stop", "kill", "delete", "clean"}
  Chances = {"launch", "store", "model", "stall", "signal", "runnerCrash", "detach"}
  MaxLaunch = 3
  None = None
INVARIANT TakenAtMostOnce
PROPERTIES CancelledNotTaken TombstoneFinal
SYMMETRY ClientSymmetry
CHECK_DEADLOCK FALSE

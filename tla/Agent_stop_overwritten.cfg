\* A steer accepted after a stop.
SPECIFICATION Spec
CONSTANTS
  Clients = {c1, c2, c3}
  Commands = {"run", "steer", "stop"}
  Chances = {}
  MaxLaunch = 3
  None = None
PROPERTIES StopIntentKept
SYMMETRY ClientSymmetry
CHECK_DEADLOCK FALSE

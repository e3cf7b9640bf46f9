\* A steer queued behind a launch that is refused.
SPECIFICATION Spec
CONSTANTS
  Clients = {c1, c2, c3}
  Commands = {"steer"}
  Chances = {"launch"}
  MaxLaunch = 3
  None = None
INVARIANTS SteersInOrder
SYMMETRY ClientSymmetry
CHECK_DEADLOCK FALSE

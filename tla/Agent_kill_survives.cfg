\* A kill that read the record before the spawn.
SPECIFICATION FairSpec
CONSTANTS
  Clients = {c1, c2}
  Commands = {"run", "kill"}
  Chances = {}
  MaxLaunch = 2
  None = None
PROPERTIES StopKills
CHECK_DEADLOCK FALSE

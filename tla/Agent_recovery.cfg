\* Runners and clients die; reconcile, a steer or a stop has to end what is left.
SPECIFICATION FairSpec
CONSTANTS
  Clients = {c1, c2}
  Commands = {"run", "steer", "stop"}
  Chances = {"runnerCrash", "cliCrash", "time"}
  MaxLaunch = 3
  None = None
 
PROPERTIES  ControlsConverge
CHECK_DEADLOCK FALSE

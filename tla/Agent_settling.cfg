\* Launches and writes fail, clients die; every invocation comes to an end.
SPECIFICATION EndingSpec
CONSTANTS
  Clients = {c1, c2}
  Commands = {"run", "steer"}
  Chances = {"launch", "store", "identity", "cliCrash", "time"}
  MaxLaunch = 3
  None = None
INVARIANTS LiveIsOwned
 
CHECK_DEADLOCK FALSE

CONSTANTS
  a = a
  b = b
  Run = {a, b}
  Switch <- OwnSwitch
  Spared = {b}
  KeepOnFailure = {a}
  Wait = {a, b}
  Faults = {"sshFails", "dies"}
SPECIFICATION RunFairSpec
PROPERTIES NoneTakenEarly LoopReclaims
CHECK_DEADLOCK FALSE

CONSTANTS
  a = a
  b = b
  Routers = {1, 2}
  ArmRun = {a}
  SweepRun = {s}
  Target <- OwnTarget
  Watchdog = {wd}
  Hanging = {2}
  Faults = {"wrapperDies", "refused"}
  MaxOpens = 2
  None = None
SPECIFICATION FairSpec
PROPERTY ApsGoDown
CHECK_DEADLOCK FALSE

CONSTANTS
  a = a
  b = b
  Routers = {1, 2}
  ArmRun = {a, b}
  SweepRun = {s}
  Target <- OwnTarget
  Watchdog = {}
  Hanging = {}
  Faults = {"leaseDies", "refused"}
  MaxOpens = 4
  None = None
SPECIFICATION Spec
INVARIANTS FreeMeansQuiet ArmedForCommand
CHECK_DEADLOCK FALSE

\* Two labs, three commands and one, one fault.
CONSTANTS
  a = a
  b = b
  Lab = {a, b}
  Ops <- MCOps
  MaxCommands <- MCMaxCommands
  MaxFaults = 1
  Attempts = 2
SPECIFICATION FairSpec
INVARIANTS OverlayStaysUnderRouter StopLeavesNothing ReadyMeansReachable
PROPERTIES CommandEnds
CHECK_DEADLOCK FALSE

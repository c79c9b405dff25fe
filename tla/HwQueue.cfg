\* Two pollers, two jobs, another window on the bench; one tick or lease is killed.
CONSTANTS
  Jobs = {1, 2}
  Poller = {p, q}
  Others = {w}
  DrainAll = TRUE
  MaxKills = 1
  MaxOpens = 1
  Faults = {"windowDies", "postFails"}
  None = None
SPECIFICATION FairSpec
INVARIANTS SinglePoller RerunOnlyAfterKill
PROPERTIES GreenIsOwnPass JobEnds
CHECK_DEADLOCK FALSE

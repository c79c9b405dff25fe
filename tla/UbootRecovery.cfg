\* The recovery script, its monitors, a router and a link that drops once.
SPECIFICATION RecoveryFairSpec
CONSTANTS
  MaxDrops = 1
  MaxQueue = 2
INVARIANTS SuccessMeansSystem
PROPERTIES GivenUpOnlyWhenSilent Ends

\* Four tokens in the wallet, one of them refused; one filed, two recoveries; a fault.
CONSTANTS
  t = t
  u = u
  v = v
  w = w
  f = f
  r1 = r1
  r2 = r2
  Client = Client
  None = None
  Token = {t, u, v, w}
  Stuck = {f}
  Unwelcome = {u}
  Recovery = {r1, r2}
  Throttle = 1
  BackoffMax = 3
  Allotment = 1
  RenewBelow = 0
  MaxFaults = 1
SPECIFICATION FairSpec
INVARIANTS NoLateGrant OneTopUpPerFault
PROPERTIES PacedByFailures SessionComesBack
CHECK_DEADLOCK FALSE

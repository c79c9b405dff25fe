\* Three swaps, one control request, one injected swap error at a time.
CONSTANTS
  p = p
  q = q
  r = r
  s = s
  t = t
  B = B
  C = C
  Request = {p, q, r}
  Inputs <- MCInputs
  Blinded <- MCBlinded
  RuleSets <- MCRuleSets
  MaxErrors = 1
  MaxControl = 1
SPECIFICATION Spec
INVARIANTS RedeemedStaysSpent RedeemedShowsSpent ReuseIsReported
CHECK_DEADLOCK FALSE

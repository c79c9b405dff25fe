\* Two deploys with one fault; a deploy and a session; a session alone, with the
\* builds of two branches whose names are taken for each other's.
CONSTANTS
  a = a
  b = b
  c = c
  d1 = d1
  d2 = d2
  s1 = s1
  None = None
  Deploy = {d1, d2}
  Build = {a, b, c}
  Artifact <- MCArtifact
  Options <- MCOptions
  MaxFaults = 1
  Session = {s1}
  Branch <- MCBranch
  Carries <- MCCarries
  Age <- MCAge
  Wishes <- MCWishes
  Casts <- MCCasts
  MaxCi = 1
SPECIFICATION MCSpec
INVARIANTS RefusedMeansUntouched LeavesNoInstall VerifiedBuildStays
PROPERTIES InstallsTheArtifact WindowIsGivenBack  SessionEnds
CHECK_DEADLOCK FALSE

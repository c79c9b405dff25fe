CONSTANTS
  ShExec = {}
  ShTake = {st}
  PyExec = {px}
  PyHold = {}
  PyBrief = {}
  ShRelease = {r}
  Observer = {o}
  Reclaim = {}
  Forced = {r}
  PyRequire = {}
  Crashable = {st, px}
  None = None
SPECIFICATION FairSpec
PROPERTIES BenchReopens ReleaseEnds

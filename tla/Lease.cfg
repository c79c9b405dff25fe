CONSTANTS
  ShExec = {sx}
  ShTake = {st}
  PyExec = {px}
  PyHold = {}
  PyBrief = {pb}
  ShRelease = {}
  Observer = {}
  Reclaim = {px, pb}
  Forced = {}
  PyRequire = {px}
  Crashable = {sx, st, px, pb}
  None = None
SPECIFICATION Spec
INVARIANTS OneWindow OwnerNamed OrphanFenced
PROPERTY ImplementsBenchOwner

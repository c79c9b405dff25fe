CONSTANTS
  Run = {r1, r2}
  Lanes = {"cudy", "mt3000"}
  Arguments <- CommandLines
  Faults = {"link", "kill", "refuse"}
  None = None
SYMMETRY Alike
SPECIFICATION Spec
INVARIANTS WritesWhatWasVerified
PROPERTIES LostWasUnseen SuccessIsReal
CHECK_DEADLOCK FALSE

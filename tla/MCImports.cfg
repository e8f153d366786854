SPECIFICATION Spec
CONSTANTS
  Jobs = {j1, j2, j3, j4}
  Names = {"n1", "n2"}
  Texts = {"t1", "t2"}
  None = None
  MaxFaults = 1
SYMMETRY JobsSymmetry
INVARIANTS
  LatestNeverLost
  CanonicalWhole
  MapAnswers
  QuietlyOneLatest
CHECK_DEADLOCK FALSE

\* Overlapping publications of two traces; every job ends.
CONSTANTS
  t = t u = u j1 = j1 j2 = j2 j3 = j3 j4 = j4
  Traces = {t, u}
  Jobs = {j1, j2, j3, j4}
  Kind <- OverlapKind
  Of <- OverlapOf
  MaxVersion = 2
  None = None
SPECIFICATION Spec
CHECK_DEADLOCK FALSE
INVARIANTS
  ChainsEnd
  DoubleActiveMeansOverlap

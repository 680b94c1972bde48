CONSTANTS
  News = {n1, n2}
  Sessions = {s1, s2}
  Workers = {w1, w2}
  Items = {i1, i2}
  MaxRequests = 1
  LeaseTicks = 1
  None = None
SPECIFICATION Spec
SYMMETRY Symmetry
CHECK_DEADLOCK FALSE
INVARIANTS
  CompleteMeansCovered

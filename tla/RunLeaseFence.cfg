\* A takeover and its aftermath.
CONSTANTS
  r1 = r1 r2 = r2 a = a b = b
  Runs = {r1, r2}
  Stages = {a, b}
  LeaseTicks = 1
  None = None
SPECIFICATION FairSpec
CHECK_DEADLOCK FALSE

  
PROPERTIES
  StaleRunLearns

\* Two sessions, with two workers each and crashes, or with one worker each
\* and crashes and stalls.
CONSTANTS
  News = {n1, n2}
  Sessions = {s1, s2}
  Workers = {w1, w2}
  Items = {i1, i2, i3}
  MaxRequests = 1
  LeaseTicks = 1
  None = None
SPECIFICATION MixedSpec
SYMMETRY Symmetry
CHECK_DEADLOCK FALSE
INVARIANTS
  NewsPartitioned
  CommittedOnce
  CompleteMeansCovered
  BudgetPerNews
PROPERTIES
  PunctualAttention
  NoPaymentAfterCommit
  ImplementsContract

\* One session with one worker; four items are all it can ever create.
CONSTANTS
  News = {n1, n2}
  Sessions = {s1}
  Workers = {w1}
  Items = {i1, i2, i3, i4}
  MaxRequests = 1
  LeaseTicks = 1
  None = None
SPECIFICATION FairSpec
CHECK_DEADLOCK FALSE
PROPERTIES
  SessionsEnd

\* Two workers of a session that does not stall; the other session may stall or crash.
CONSTANTS
  x = x y = y s1 = s1 s2 = s2 w1 = w1 w2 = w2
  Texts = {x, y}
  Sessions = {s1, s2}
  Prompt = {s1}
  Workers = {w1, w2}
  Loads <- MixedLoads
  LeaseTicks = 1
  WaitTicks = 1
  None = None
SPECIFICATION FairSpec
CHECK_DEADLOCK FALSE
INVARIANTS
  ClaimsAreKept
PROPERTIES
  WaitEnds

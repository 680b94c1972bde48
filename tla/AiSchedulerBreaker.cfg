\* One model, three executions, network failures and rate limits.
CONSTANTS
  p = p m1 = m1 m2 = m2 e1 = e1 e2 = e2 e3 = e3 key = key key2 = key2
  Candidates <- OneModel
  Scopes <- OneModelScopes
  ScopesOf <- ScopesOfModel
  GroupScopes = {}
  ModelScopes = {m1}
  Executors = {e1, e2, e3}
  IdentityOf <- SameKey
  FitsFor <- AllFit
  Leases = {l1, l2, l3}
  ErrorKinds = {"rate", "network"}
  GlobalLimit = 3
  InitialCapacity = 2
  MaxCapacity = 2
  MaxCalls = 2
  GrowAfter = 2
  StableTicks = 1
  TripAfter = 2
  CoolTicks = 1
  TripTicks = 1
  RequestTicks = 1
  GraceTicks = 1
  None = None
SPECIFICATION Spec
SYMMETRY LeaseSymmetry
INVARIANTS
  ScopeLimitKept
  SingleProbe

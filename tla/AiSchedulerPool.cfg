\* Two models of one provider, a global limit below the number of executions,
\* failures that disable, hand back or blame a single model, changed credentials.
CONSTANTS
  p = p m1 = m1 m2 = m2 e1 = e1 e2 = e2 e3 = e3 key = key key2 = key2
  Candidates <- TwoModels
  Scopes <- TwoModelScopes
  ScopesOf <- ScopesOfModel
  GroupScopes = {}
  ModelScopes = {m1, m2}
  Executors = {e1, e2}
  IdentityOf <- ChangedKey
  FitsFor <- SomeFit
  Leases = {l1, l2}
  ErrorKinds = {"auth", "missing_model", "structure", "refusal"}
  GlobalLimit = 1
  InitialCapacity = 2
  MaxCapacity = 2
  MaxCalls = 2
  GrowAfter = 1
  StableTicks = 0
  TripAfter = 2
  CoolTicks = 0
  TripTicks = 0
  RequestTicks = 1
  GraceTicks = 1
  None = None
SPECIFICATION FairSpec
INVARIANTS
  GlobalLimitKept
PROPERTIES
  
  LeasesReturn

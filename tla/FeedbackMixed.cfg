SPECIFICATION Spec
CONSTANTS
  a = a
  b = b
  c = c
  k1 = k1
  k2 = k2
  k3 = k3
  surge = surge
  A = A
  B = B
  None = None
  Stocks <- MCStocks
  Keywords <- MCKeywords
  Momentum = surge
  TypeOf <- MCTypeOf
  Industries <- MCIndustries
  Limit = 3
  MaxPerType = 2
  TopDiversity = 2
  Traces <- MCTraces
  LastDay = 4
  RefreshDays = 1
  LookbackDays = 3
  DelayDays = 2
  PenaltyDays = 1
  FullScore = 3
  CutScore = 1
  SurgeScore = 2
  Worlds <- MixedWorlds
INVARIANTS
  QuotasKept
  SpreadFirst
  NoRoomLeft
  PenaltiesAreEarned
  EvidenceIsOfInputs
  RepeatsHaveCause
PROPERTIES
  PublishedIsFrozen
CHECK_DEADLOCK FALSE

SPECIFICATION FairSpec
CONSTANTS
  LastDay = 6
  Sessions <- Open6
  Stocks <- TwoStocks
  Trades <- Trading
  Commands <- BothCommands
  Workers = 2
  BatchSize = 2
  BreakerThreshold = 2
  MaxFaults = 3
  Horizons <- OneTwo
  Scheduled <- Evenings
  Picks <- TwoStocks
  Worlds <- MixedWorlds
INVARIANTS
  
  PricesAreFinal
  
  EveningsAreAccounted
PROPERTIES
  IntakeFailsForCause
  
CHECK_DEADLOCK FALSE

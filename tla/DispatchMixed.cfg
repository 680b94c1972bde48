SPECIFICATION FairSpec
CONSTANTS
  Main = "main"
  Groups <- TwoGroups
  Requests <- MixedRequests
  Loads <- MixedLoads
  MaxOpen = 2
  MaxRestarts = 1
  MaxResumes = 1
  First = 1
  Base = 1
  Cap = 2
  MaxWait = 3
INVARIANTS
  KeptUnlessClash
  
PROPERTIES
  SuccessKept
  PollEnds
CHECK_DEADLOCK FALSE

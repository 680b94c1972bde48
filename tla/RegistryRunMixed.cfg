SPECIFICATION Spec
CONSTANTS
  r1 = r1
  r2 = r2
  Runs = {r1, r2}
  Commands <- MixedCommands
  CommandsOf <- MixedOf
  Unstable <- OnlyFirst
  MaxFaulty = 1
  Varying <- VaryingStages
  SourceStages <- AllStages
  None = None
INVARIANTS
  PublishedIsCoherent
  RefusalHasCause
PROPERTIES
  FinalUnlessLate
  EndIsRecorded
CHECK_DEADLOCK FALSE

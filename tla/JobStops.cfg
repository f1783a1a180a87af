SPECIFICATION FairSpec
CONSTANTS
  None = None
  Repositories = 2
  Commands <- EveryList
  NotifyInterval = 1
  Instants = {0}
  MaxExecutions = 2
  MayInterrupt = TRUE
  MayCrash = FALSE
  MayFail = {}
INVARIANTS
  SuccessMeansBackedUp
  OneOutcome
PROPERTIES
  InterruptEnds

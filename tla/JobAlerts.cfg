SPECIFICATION Spec
CONSTANTS
  None = None
  Repositories = 1
  Commands <- NotifyOnly
  NotifyInterval = 2
  Instants = {0, 1, 2}
  MaxExecutions = 3
  MayInterrupt = FALSE
  MayCrash = TRUE
  MayFail = {"load", "record"}
INVARIANTS
  TypeOK
  FailingSinceStart
  AlertsApart
  NoSilentFailure
  RecoveryAnswersAlert

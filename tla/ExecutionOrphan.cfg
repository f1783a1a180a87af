SPECIFICATION Spec
CONSTANTS
  None = None
  Ticks = {t1}
  Runs = {r1}
  Execs = {}
  Jobs = {1, 2}
  Repos = {1}
  RepoList <- OneRepo
  Sched <- Hourly
  MaxConcurrent <- CapTwo
  Instants = {0}
  MayInterrupt = {}
  MayCrash = {t1}
  MayFail = {}
INVARIANTS
  RepositoryExclusiveEver

SPECIFICATION Spec
CONSTANTS
  None = None
  Ticks = {t1}
  Runs = {r1}
  Execs = {x1}
  Jobs = {1, 2}
  Repos = {1, 2}
  RepoList <- CrossedRepos
  Sched <- Hourly
  MaxConcurrent <- CapTwo
  Instants = {0}
  MayInterrupt = {t1}
  MayCrash = {t1, x1}
  MayFail = {r1}
INVARIANTS
  RepositoryExclusive
  LeftoversOnlyFromKilled
PROPERTIES
  InterruptedNeverBegins
  SchedulerSpec

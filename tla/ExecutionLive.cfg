SPECIFICATION FairSpec
CONSTANTS
  None = None
  Ticks = {t1, t2}
  Runs = {}
  Execs = {}
  Jobs = {1, 2}
  Repos = {1, 2}
  RepoList <- OwnRepos
  Sched <- Hourly
  MaxConcurrent <- CapOne
  Instants = {0, 60}
  MayInterrupt = {}
  MayCrash = {}
  MayFail = {}
INVARIANTS
  ConcurrencyCap
PROPERTIES
  EveryProcessEnds
  DueJobsRun

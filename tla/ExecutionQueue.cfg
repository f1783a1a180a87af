SPECIFICATION Spec
CONSTANTS
  None = None
  Ticks = {t1}
  Runs = {}
  Execs = {x1}
  Jobs = {1, 2, 3}
  Repos = {1, 2}
  RepoList <- QueueRepos
  Sched <- Hourly
  MaxConcurrent <- CapTwo
  Instants = {0}
  MayInterrupt = {}
  MayCrash = {}
  MayFail = {}
INVARIANTS
  NoHeadOfLineBlocking

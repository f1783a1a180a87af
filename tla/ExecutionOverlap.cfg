SPECIFICATION Spec
CONSTANTS
  None = None
  Ticks = {t1, t2}
  Runs = {r1}
  Execs = {}
  Jobs = {1, 2}
  Repos = {1, 2}
  RepoList <- CrossedRepos
  Sched <- Hourly
  MaxConcurrent <- CapsDiffer
  Instants = {0, 60}
  MayInterrupt = {}
  MayCrash = {}
  MayFail = {}
SYMMETRY TickSymmetry
INVARIANTS
  TypeOK
  JobNotTwice
  NoDeadlock
PROPERTIES
  OncePerPeriod

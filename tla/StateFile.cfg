SPECIFICATION FairSpec
CONSTANTS
  m1 = m1 a1 = a1 b1 = b1 a2 = a2
  p1 = p1 p2 = p2
  j1 = j1 j2 = j2 r1 = r1 r2 = r2
  None = None
  Processes = {p1, p2}
  TickThreads = {m1}
  JobThreads = {a1, b1, a2}
  ProcOf <- MCProcOf
  JobOf <- MCJobOf
  RepoOf <- MCRepoOf
  Jobs = {j1, j2}
  Repos = {r1, r2}
  MaxRuns = 1
  MayCrash = {p1}
  MayFail = {p2}
INVARIANTS
  TypeOK
  HistoryKept
  TempsOnlyFromKilled
PROPERTIES
  StoreSpec
  EveryThreadEnds

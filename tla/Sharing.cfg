SPECIFICATION Spec
CHECK_DEADLOCK FALSE
SYMMETRY Symmetry
CONSTANTS
  a = a b = b e1 = e1 e2 = e2 prod = prod paths = paths
  Jobs = {a,b}
  OtherTags = {prod}
  Modes = {"direct","podman-unshare"}
  Periods = {"daily","weekly","latest"}
  RetentionPeriods = {"daily","weekly"}
  Bucket <- Days
  Source <- Sources
  Setups <- Configs
  Commands <- CommandsGiven
  Executors = {e1,e2}
  MaxSnapshots = 3
  MaxEdits = 1
INVARIANTS
  TypeOK
  LatestKept
  RestoredAsTaken

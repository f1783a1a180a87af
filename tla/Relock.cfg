SPECIFICATION Spec
CHECK_DEADLOCK FALSE
SYMMETRY Interchangeable
CONSTANTS
  p1 = p1 p2 = p2 v1 = v1 v2 = v2 s1 = s1 s2 = s2 h1 = h1 h2 = h2 r1 = r1
  Processes = {p1,p2}
  Values = {v1,v2}
  Plain = {s1,s2}
  HostKeys = {h1,h2}
  RecoveryKeys = {r1}
  MaxEdits = 2
INVARIANTS
  TypeOK
  WholeConfig
PROPERTIES
  StaysOpen

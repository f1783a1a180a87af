SPECIFICATION FairSpec
CHECK_DEADLOCK FALSE
CONSTANTS
  tick = tick command = command
  v0 = v0 v1 = v1 plain = plain
  None = None
  Ticks = {tick}
  Commands = {command}
  MaxHosts = 2
  Parts = {"config"}
  Contents = {v0,v1,plain}
  PlainText = {plain}
  First = v0
  MaxClock = 1
  MaxChanges = 1
  MaxFaults = 1
INVARIANTS
  TypeOK
  OutageToldOnce
PROPERTIES
  ReportingSpec
  EventuallyReported

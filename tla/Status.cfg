SPECIFICATION Spec
CHECK_DEADLOCK FALSE
SYMMETRY Interchangeable
CONSTANTS
  p1 = p1 p2 = p2 status = status checkin = checkin
  Processes = {p1,p2}
  Readers = {status,checkin}
  WithProgress = {status}
  Tries = 2
  MaxFaults = 1
  MaxTurns = 2
  MaxReports = 2
INVARIANTS
  TypeOK
  ShownWasRunning
  ShownWhileRunning
  ProgressNotOlder
  SettledLists
  NotTurnedAwayByReports

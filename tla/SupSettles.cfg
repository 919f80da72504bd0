SPECIFICATION FairSpec
CONSTANTS
  TaskIds = {t1, t2}
  Incidents = {}
  None = None
  Threads = {p1, p2}
  UsedPlaybooks = {"generic", "line_inspection_timeout"}
  Severities = {}
  Doors = {"human"}
  Verdicts = {"APPROVED", "DENIED"}
  MaxFaults = 1
  MaxClicks = 1
  MaxCrashes = 0
  MaxAsks = 0
INVARIANTS ConsoleAgrees
PROPERTIES Settles
CHECK_DEADLOCK FALSE

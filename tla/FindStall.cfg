SPECIFICATION FairSpec
CONSTANTS
  TaskIds = {t1}
  Incidents = {}
  None = None
  Threads = {p1}
  UsedPlaybooks = {"line_inspection_timeout"}
  Severities = {}
  Doors = {"human"}
  Verdicts = {"APPROVED", "DENIED"}
  MaxFaults = 2
  MaxClicks = 1
  MaxCrashes = 0
  MaxAsks = 0
PROPERTIES Settles
CHECK_DEADLOCK FALSE

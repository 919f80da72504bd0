SPECIFICATION Spec
CONSTANTS
  TaskIds = {t1}
  Incidents = {}
  None = None
  Threads = {p1, p2}
  UsedPlaybooks = {"prepare_inspection"}
  Severities = {}
  Doors = {"human"}
  Verdicts = {"APPROVED"}
  MaxFaults = 0
  MaxClicks = 2
  MaxCrashes = 0
  MaxAsks = 0
INVARIANTS GatesHold
CHECK_DEADLOCK FALSE

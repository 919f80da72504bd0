SPECIFICATION Spec
CONSTANTS
  TaskIds = {t1}
  Incidents = {i1}
  None = None
  Threads = {p1, p2}
  UsedPlaybooks = {"prepare_inspection", "conflict_assessment", "line_inspection_timeout", "generic"}
  Severities = {"high"}
  Doors = {"human", "detector"}
  Verdicts = {"APPROVED", "DENIED"}
  MaxFaults = 3
  MaxClicks = 1
  MaxCrashes = 0
  MaxAsks = 1
INVARIANTS TypeOK GatesHold ReportedIsDone
PROPERTIES DenialIsFinal ImplementsWalk
CHECK_DEADLOCK FALSE

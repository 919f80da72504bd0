SPECIFICATION Spec
CONSTANTS
  TaskIds = {t1, t2}
  Incidents = {i1}
  None = None
  Threads = {p1, p2}
  UsedPlaybooks = {"generic"}
  Severities = {"low", "high"}
  Doors = {"detector"}
  Verdicts = {"APPROVED"}
  MaxFaults = 0
  MaxClicks = 1
  MaxCrashes = 1
  MaxAsks = 0
INVARIANTS GatesHold
PROPERTIES ImplementsWalk UsesStore
SYMMETRY ThreadSymmetry
CHECK_DEADLOCK FALSE

SPECIFICATION Spec
CONSTANTS
  TaskIds = {t1, t2}
  Incidents = {i1}
  NoIncident = none
  Playbooks = {pb1, pb2}
  Ttl = 0
  MaxClock = 1
INVARIANTS TypeOK OneLivePair
PROPERTIES ImplementsLife
CHECK_DEADLOCK FALSE

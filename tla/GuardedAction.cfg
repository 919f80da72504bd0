SPECIFICATION Spec
CONSTANTS
  IncidentIds = {i1, i2}
  NoId = none
  RetryMax = 1
  IncidentTtl = 0
  MaxTime = 1
  MaxStops = 2
INVARIANTS TypeOK ResolvedWasImproved ActedIsTracked LearnedFromResolved
PROPERTIES UsesFsm ClosedIsFinal
CHECK_DEADLOCK FALSE

SPECIFICATION FairSpec
CONSTANTS
  Devices = {d1}
  Metrics = {m1, m2}
  Capacity = 2
  RowsPerSignal = 1
  Critical = 1
  Window = 2
  MaxStamp = 2
  MaxWrites = 4
  MaxClock = 2
  MaxStops = 1
INVARIANTS TypeOK KeepsNewest
PROPERTIES StaysBounded SilenceIsRaised
CHECK_DEADLOCK FALSE

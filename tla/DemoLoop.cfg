SPECIFICATION Spec
CONSTANTS
  Episodes <- MCEpisodes
  Causes <- MCCauses
  CauseOf <- MCCauseOf
  MinTokens = 2
  Num = 3
  Den = 5
  Budgets = {2, 3}
  MaxEvents = 18
  MaxRounds = 3
  MaxStops = 2
INVARIANTS TypeOK LearnsFromSuccess DebateIsHeard LatestIsWhole
CHECK_DEADLOCK FALSE

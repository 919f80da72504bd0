SPECIFICATION FairSpec
CONSTANTS
  Tasks = {t1, t2}
  NoTask = NoTask
  Policies = {"auto", "human", "deny-first"}
  Cap = 1
  Delay = 2
  MaxGates = 2
  MaxFails = 1
INVARIANTS TypeOK WaitingIsShown GraceGiven DenyFirstHolds
PROPERTIES GatesAreDecided
CHECK_DEADLOCK FALSE

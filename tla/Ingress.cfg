SPECIFICATION FairSpec
CONSTANTS
  Trackc <- MCRegistry
  Stale = 1
  Critical = 2
  Statuses = {"ok", "offline"}
  NoTime = NoTime
  Times = {0, 1, 3}
  MaxBreaks = 1
INVARIANTS TypeOK ViewsAgree ChipFollowsLink SilenceIsSeen
PROPERTIES StreamResumes
CHECK_DEADLOCK FALSE

SPECIFICATION LocalSpec
CONSTANTS
  disk = disk
  web = web
  db = db
  manual = manual
  Manual = manual
  Rules <- OneRule
  Hosts <- TwoHosts
  ApprovalRules <- None
  DryRules <- None
  RollbackRules <- OneRule
  CoolDown = 3
  MaxPerHour = 1
  Hour = 1
  RingCap = 8
  HasPG = FALSE
  MaxID = 3
  MaxTime = 3
  MaxRestarts = 0
INVARIANTS CooldownKept RateKept LaunchedOnce
PROPERTY Concludes
CHECK_DEADLOCK FALSE

SPECIFICATION Spec
CONSTANTS
  disk = disk
  web = web
  db = db
  manual = manual
  Manual = manual
  Rules <- OneRule
  Hosts <- OneHost
  ApprovalRules <- None
  DryRules <- None
  RollbackRules <- None
  CoolDown = 2
  MaxPerHour = 2
  Hour = 3
  RingCap = 8
  HasPG = TRUE
  MaxID = 3
  MaxTime = 2
  MaxRestarts = 1
PROPERTY RestartKeepsDecisions
CHECK_DEADLOCK FALSE

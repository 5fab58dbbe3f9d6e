SPECIFICATION MCSpec
CONSTANTS
  web = web
  loop = loop
  t1 = t1
  heal = heal
  manual = manual
  Keys <- OneKey
  VerifyRounds = 3
  Scanned <- OneKey
  Ticker = loop
  Triggers <- OneTrigger
  ConfirmTicks = 2
  ClearTicks = 2
  QueueCap = 1
  RecordCap = 1
  Inhibits <- None
  MaxSaves = 1
  Rules <- OneRule
  Manual = manual
  ApprovalRules <- None
  DryRules <- None
  RollbackRules <- None
  CoolDown = 1
  MaxPerHour = 0
  Hour = 1
  RingCap = 8
  HasPG = FALSE
  MaxID = 4
  MaxTime = 0
  MaxRestarts = 0
PROPERTIES ClearedAfterRecovery VerdictsAreRight
CHECK_DEADLOCK FALSE

SPECIFICATION RecordsSpec
CONSTANTS
  c1 = c1
  c2 = c2
  c3 = c3
  p1 = p1
  p2 = p2
  cpu = cpu
  disk = disk
  o1 = o1
  o2 = o2
  i1 = i1
  i2 = i2
  m1 = m1
  m2 = m2
  ddl = ddl
  r1 = r1
  r2 = r2
  r3 = r3
  web = web
  report = report
  scan = scan
  fault = fault
  s1 = s1
  a1 = a1
  a2 = a2
  IncidentKeys <- TwoKeys
  NoKey = NoKey
  HistoryCap = 2
  MaxIncidents = 4
  MaxImports = 1
  Absent = Absent
  Objects <- TwoObjects
  Identities <- TwoIdentities
  Readings <- TwoReadings
  MaxBoots = 1
  PBRingCap = 2
  PBListCap = 4
  MaxSerial = 3
  MaxReloads = 2
  Tickets <- OneTicket
  Requests <- ThreeRequests
  Rules <- OneRule
  Hosts <- OneHost
  Manual = manual
  ApprovalRules <- None
  DryRules <- None
  RollbackRules <- None
  CoolDown = 0
  MaxPerHour = 0
  Hour = 3
  RingCap = 1
  HasPG = TRUE
  MaxID = 3
  MaxTime = 0
  MaxRestarts = 1
  Machines <- OneMachine
  MaxJobs = 2
  MaxByHand = 1
  Askers <- TwoAskers
  Reasons <- OneFault
  NoReason = NoReason
  MaxRetries = 1
  StreakLimit = 1
  MaxPrevious = 2
  Savers <- OneSaver
  Seconds <- OneSecond
  LastDay = 2
  MaxKeys = 4
  MaxDeaths = 1
  Appenders <- TwoAppenders
  MaxEntries = 3
  Conns <- ThreeConns
  Polls <- TwoPolls
  NoPoll = none
  NoConn = none
  MaxSessions = 2
  MaxStops = 1
  MaxCuts = 1
INVARIANTS FlushMirrors SentOnce ExecutedIsCompleted
INVARIANTS MarkHasOwner AutosTakeTurns SecretsOutliveRestarts GenuineIsNeverBroken SessionsCounted
PROPERTIES HistoryIsSafe HistoryKeptBelowCap HistoryKept
CHECK_DEADLOCK FALSE

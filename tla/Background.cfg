SPECIFICATION BgSpec
CONSTANTS
  q1 = q1
  q2 = q2
  w = w
  scan = scan
  fault = fault
  none = none
  Callers <- QueriesAndWriter
  Ingest <- OneWriter
  Writer = w
  Threshold = 2
  CoolDown = 3
  Timeout = 2
  MaxSamples = 4
  ChanCap = 2
  FlushAt = 2
  RetryMax = 2
  Machines <- SomeMachines
  MaxJobs = 2
  MaxByHand = 1
  Askers <- OneAsker
  Reasons <- OneFault
  NoReason = none
  MaxRetries = 1
  StreakLimit = 1
INVARIANTS ProbeOut ProbeAlone DrainedAll
PROPERTIES CallersFollow Delivered UpdatesEnd
CHECK_DEADLOCK FALSE

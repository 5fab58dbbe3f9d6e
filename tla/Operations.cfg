SPECIFICATION OpsSpec
CONSTANTS
  web = web
  db = db
  op1 = op1
  op2 = op2
  g1 = g1
  g2 = g2
  none = none
  inc = inc
  NoRunner = none
  Shapes <- SomeShapes
  Operators <- TwoOperators
  Runners <- TwoRunners
  Incs <- OneIncident
  MaxSteps = 3
  MaxCrashes = 1
  DownCap = 2
  UpCap = 1
  MaxChunks = 3
INVARIANT RequestWhole
PROPERTIES TerminalSticks ExecutionsEnd ScheduleResumes EscalationEnds AnsweredStays
PROPERTY SessionsEnd
CHECK_DEADLOCK FALSE

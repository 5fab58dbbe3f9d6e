SPECIFICATION LoopSpec
CONSTANTS
  cpu = cpu
  loop = loop
  t1 = t1
  Keys <- OneKey
  IncidentKeys <- OneKey
  NoKey = NoKey
  Ticker = loop
  Triggers <- OneTrigger
  ConfirmTicks = 2
  ClearTicks = 2
  QueueCap = 1
  RecordCap = 1
  Inhibits <- NoRules
  MaxSaves = 1
  HistoryCap = 9
  MaxIncidents = 6
  MaxImports = 0
INVARIANT ConfirmedHasIncident

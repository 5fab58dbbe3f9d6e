SPECIFICATION MCSpec
CONSTANTS
  cpu = cpu
  loop = loop
  t1 = t1
  Keys <- OneKey
  IncidentKeys <- OneKey
  NoKey = NoKey
  Ticker = loop
  Triggers <- OneTrigger
  ConfirmTicks = 2
  ClearTicks = 2
  QueueCap = 1
  RecordCap = 1
  Inhibits <- NoRules
  MaxSaves = 1
  HistoryCap = 2
  MaxIncidents = 7
  MaxImports = 1
INVARIANTS OpenIndexExact IncidentsMirrorAlerts
PROPERTIES ResolvedOnlyOnRecovery IncidentsFollow

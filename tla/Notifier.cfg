SPECIFICATION MCSpec
CONSTANTS
  cpu = cpu
  disk = disk
  loop = loop
  t1 = t1
  Keys <- TwoKeys
  Ticker = loop
  Triggers <- OneTrigger
  ConfirmTicks = 2
  ClearTicks = 2
  QueueCap = 2
  RecordCap = 2
  Inhibits <- CpuInhibitsDisk
  MaxSaves = 2
INVARIANTS TypeOK RecordsMirrorAlerts ChannelAgreesAtRest
PROPERTIES Debounced AlertsConverge

SPECIFICATION FairSpec
CONSTANTS
  Callers = {w}
  Ingest = {w}
  Threshold = 2
  CoolDown = 3
  Timeout = 2
PROPERTY RejectionsTrip

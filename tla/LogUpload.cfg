SPECIFICATION LogSpec
CONSTANTS
  MaxPrevious = 2
  Savers = {}
  Seconds = {7}
  LastDay = 2
  MaxKeys = 2
  MaxDeaths = 0
  Agents = {a1}
PROPERTY LogsResume
CHECK_DEADLOCK FALSE

SPECIFICATION KeysSpec
CONSTANTS
  MaxPrevious = 2
  Savers = {}
  Seconds = {7}
  LastDay = 2
  MaxKeys = 3
  MaxDeaths = 0
PROPERTY PasswordsStay
CHECK_DEADLOCK FALSE

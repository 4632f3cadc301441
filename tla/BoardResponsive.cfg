SPECIFICATION BoardsSpec
CONSTANTS
  Client = {a, b, c}
  MaxCalls = 2
  MaxKills = 1
INVARIANT DeviceResponsive
CHECK_DEADLOCK FALSE

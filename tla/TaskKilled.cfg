SPECIFICATION FairSpec
CONSTANTS
  Client = {a, b, c}
  MaxCalls = 2
  MaxKills = 1
PROPERTY EveryTaskAnswered
CHECK_DEADLOCK FALSE

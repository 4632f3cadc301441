SPECIFICATION BoardsSpec
CONSTANTS
  Client = {a, b, c}
  MaxCalls = 2
  MaxKills = 1
INVARIANTS KeptMoving OwnAnswer DeviceCalls
PROPERTY AnsweredUnlessKilled
CHECK_DEADLOCK FALSE

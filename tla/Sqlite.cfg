SPECIFICATION Spec
CONSTANTS
  Clients = {c1, c2}
  Transactions <- SomeTransactions
  MaxSlices = 3
  MaxKills = 1
  MaxFailures = 2
INVARIANTS TypeOK AsIfAlone AnswersTakenWhole
PROPERTY EveryCallEnds
CHECK_DEADLOCK FALSE

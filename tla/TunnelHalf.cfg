SPECIFICATION FairSpec
CONSTANTS
  Conn = {c}
  MaxData = 1
PROPERTY ClosesUp
CHECK_DEADLOCK FALSE

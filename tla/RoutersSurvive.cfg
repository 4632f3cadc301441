SPECIFICATION ServersSpec
CONSTANTS
  Conn = {c}
  MaxData = 1
  MaxTriggers = 1
  Subscribers = {p}
  Starter = p
  Messages = {m1, m2}
  Filters = {{m1}}
  MaxRequests = 1
INVARIANT RoutersSurvive
CHECK_DEADLOCK FALSE

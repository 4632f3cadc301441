SPECIFICATION ServersSpec
CONSTANTS
  Conn = {c}
  MaxData = 2
  MaxTriggers = 5
  Subscribers = {p}
  Starter = p
  Messages = {m1, m2}
  Filters = {{m1}}
  MaxRequests = 4
INVARIANTS Forwarded RegistryTrue OneWorker NothingLost BroadcastsReachSubscribers ConnectionsTrue
PROPERTY ServersGoOn
CHECK_DEADLOCK FALSE

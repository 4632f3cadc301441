SPECIFICATION FairSpec
CONSTANTS
  k1 = k1
  k2 = k2
  Client = {patient, hasty}
  Patient = {patient}
  Key = {k1, k2}
  MaxValue = 2
  Requests <- MCRequests
  MaxCalls = 2
  MaxStarts = 2
INVARIANTS TypeOK NothingLeft
PROPERTIES CallsAreAtomic EveryCallEnds
CHECK_DEADLOCK FALSE

SPECIFICATION FairSpec
CONSTANTS
  Usage = "nb_bytes"
  Limit = 4
  ChunkSize = 2
  Sizes = {1}
  MaxMsgs = 3
  MaxFiles = 3
  Refs = {1}
  MaxCalls = 2
INVARIANT AlwaysOpen
CHECK_DEADLOCK FALSE

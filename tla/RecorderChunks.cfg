SPECIFICATION RecorderSpec
CONSTANTS
  Usage = "nb_chunks"
  Limit = 2
  ChunkSize = 2
  Sizes = {1, 2}
  MaxMsgs = 6
  MaxFiles = 5
INVARIANT NewestKept
CHECK_DEADLOCK FALSE

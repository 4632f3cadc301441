SPECIFICATION PortsSpec
CONSTANTS
  NbPins = 2
  MaxEdges = 4
  NbBuffers = 2
  MaxPictures = 6
  Packets <- SomePackets
  MaxSent = 3
  PipeSize = 5
  BufSize = 6
  Readers = {"packet4", "static", "packet1"}
  Clients = {"c1", "c2"}
  Tags = {"AxoV", "Axor"}
  Chunk = 2
  Size <- SomeSizes
  ReplySize = 2
  RoomSize = 5
  Starts = {0, 1, 5}
  MaxOps = 1
INVARIANT WritesContiguous
CHECK_DEADLOCK FALSE

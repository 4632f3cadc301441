SPECIFICATION QuietSpec
CONSTANTS
  f = f
  x = x
  a = a
  b = b
  c = c
  u = u
  Source = {f, x}
  Derived = {a, c}
  Unknown = {}
  Outer = outer
  Control = x
  First <- ChainFirst
  Second <- ChainSecond
  Pulls <- PullAll
  Pushes = {}
  Seconds = {1, 2}
  Resume = FALSE
  MaxEdits = 2
  MaxFails = 0
INVARIANT DepsRecorded
CHECK_DEADLOCK FALSE

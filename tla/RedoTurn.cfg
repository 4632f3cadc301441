SPECIFICATION QuietSpec
CONSTANTS
  f = f
  x = x
  a = a
  b = b
  c = c
  u = u
  Source = {x}
  Derived = {a, b}
  Unknown = {}
  Outer = outer
  Control = x
  First <- TurnFirst
  Second <- TurnSecond
  Pulls <- PullBoth
  Pushes = {}
  Seconds = {1, 2}
  Resume = FALSE
  MaxEdits = 2
  MaxFails = 0
PROPERTY EveryPullAnswered
CHECK_DEADLOCK FALSE

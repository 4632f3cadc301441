SPECIFICATION Spec
CONSTANTS
  f = f
  x = x
  a = a
  b = b
  c = c
  u = u
  Source = {x}
  Derived = {a, b}
  Unknown = {}
  Outer = outer
  Control = x
  First <- LineFirst
  Second <- LineSecond
  Pulls <- PullBoth
  Pushes = {}
  Seconds = {1, 2}
  Resume = TRUE
  MaxEdits = 2
  MaxFails = 0
INVARIANT EverySingleMoment

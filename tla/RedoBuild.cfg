SPECIFICATION Spec
CONSTANTS
  f = f
  x = x
  a = a
  b = b
  c = c
  u = u
  Source = {x}
  Derived = {a, c}
  Unknown = {}
  Outer = outer
  Control = x
  First <- BendFirst
  Second <- BendSecond
  Pulls <- PullEither
  Pushes <- PushFile
  Seconds = {1, 2}
  Resume = TRUE
  MaxEdits = 2
  MaxFails = 0
INVARIANTS ClosureEnds SingleMoment

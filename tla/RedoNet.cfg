SPECIFICATION FairSpec
CONSTANTS
  f = f
  x = x
  a = a
  b = b
  c = c
  u = u
  Source = {x}
  Derived = {a, b, u}
  Unknown = {u}
  Outer = outer
  Control = x
  First <- SwitchFirst
  Second <- SwitchSecond
  Pulls <- PullSome
  Pushes <- PushFile
  Seconds = {1, 2}
  Resume = FALSE
  MaxEdits = 2
  MaxFails = 1
INVARIANTS TypeOK WaitersServed QuietWhenIdle RdepsInverse
PROPERTIES EvaluatesOnce PushCovers EveryPullAnswered

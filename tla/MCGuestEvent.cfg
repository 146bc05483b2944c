SPECIFICATION EventSpec
CONSTANTS
  w1 = w1
  w2 = w2
  s1 = s1
  c1 = c1
  c2 = c2
  Threads = {w1, w2, s1}
  Waiters = {w1, w2}
  Timed = {w2}
  Setters = {s1}
  Conds = {c1, c2}
  StaticInit = {c2}
  NoThread = NoThread
  NoDeadline = NoDeadline
  MaxTokens = 3
  MaxDepth = 1
  MaxTime = 4
  Deadline = 3
  MaxSpurious = 2
PROPERTY EveryoneFinishes

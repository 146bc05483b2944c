SPECIFICATION Spec
CONSTANTS
  t1 = t1
  t2 = t2
  t3 = t3
  o1 = o1
  Threads = {t1, t2, t3}
  Objects = {o1}
  StaticInit = {}
  NoThread = NoThread
  MaxTokens = 2
  MaxDepth = 2
INVARIANTS MutualExclusion NoStrandedSleeper
PROPERTY ImplementsLock

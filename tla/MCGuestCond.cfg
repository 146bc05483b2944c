SPECIFICATION Spec
CONSTANTS
  t1 = t1
  t2 = t2
  t3 = t3
  c1 = c1
  Threads = {t1, t2, t3}
  Conds = {c1}
  StaticInit = {}
  NoThread = NoThread
  NoDeadline = NoDeadline
  MaxTokens = 3
  MaxDepth = 2
  MaxTime = 2
SYMMETRY ThreadSymmetry
PROPERTIES TimeoutIsHonest WaitRestoresLock SignalReaches

SPECIFICATION Spec
CONSTANTS
  Limit = 12
  NumBins = 2
  SearchLimit = 2
  Wants = {1, 23, 33}
  Threads = {t1, t2}
  t1 = t1
  t2 = t2
SYMMETRY ThreadSymmetry
INVARIANT
  HeapIsSound
PROPERTY
  ImplementsAllocator

SPECIFICATION PageSpec
CONSTANTS
  r1 = r1
  r2 = r2
  Readers = {r1}
  PerSec = 4
  PerUsec = 2
  SeqMod = 4
  MaxNs = 5
  LoadsInOrder = TRUE
INVARIANT
  ReadsOneInstant
PROPERTIES
  SecondsNeverGoBack
  StoppedClockStillReads

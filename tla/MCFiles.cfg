CONSTANTS
  t1 = t1
  t2 = t2
  new = new
  slot = slot
  backup = backup
  settings = settings
  Threads = {t1, t2}
  Names = {new, slot, backup, settings}
  Data = {settings}
  New = new
  Slot = slot
  Backup = backup
  Room = 2
  MaxOpen = 2
  MaxSaves = 3
  MaxCrashes = 2
SPECIFICATION Spec
SYMMETRY Symmetry
INVARIANTS
  HandlesMatchTable
  SaveSurvives
CHECK_DEADLOCK FALSE
CONSTRAINT Promised

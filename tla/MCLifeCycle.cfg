SPECIFICATION Spec
CONSTANTS
  MaxIds = 4
  SpawnLimit = 3
  MaxThreads = 3
  StackSlots = 3
  Commands = 1
INVARIANTS RoomUnlessRaced EngineIsTold NobodyOutlivesTheArena
PROPERTY StopEndsEveryThread
CHECK_DEADLOCK FALSE

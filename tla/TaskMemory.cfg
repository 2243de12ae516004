\* Fourteen units: the idle TCB takes 2, a task 2 and 3 or 4, the application 2.
CONSTANTS
  NULL = NULL
  PoolUnits = 14
  Request = {8, 9, 16, 24}
  SizeMod = 256
  TcbBytes = 8
  StackBytes = {8, 16, 20}
  FrameUnits = 1
  RTOS_MIN_STACK_SIZE = 16
  RTOS_MAX_TASKS = 3
SPECIFICATION MemSpec
VIEW View
CHECK_DEADLOCK FALSE
INVARIANTS MemTypeOK MemoryAccounted CanaryTells HeapPartition RoomForRequest PassedAreApart

\* Two waiters more urgent than the poster, as in tests/test_semaphore.c.
SPECIFICATION SemSpec
CONSTANTS
  idle = idle  w1 = w1  w2 = w2  p1 = p1  sem = sem
  NULL = NULL
  Task <- Tasks3
  Idle <- idle
  Priority = {32, 64}
  Ticks = {1}
  Calls = {"yield", "delay", "delete"}
  TickMod = 16
  MaxTick = 3
  RTOS_NUM_PRIORITIES = 8
  RTOS_MAX_TASKS = 4
  RTOS_TIME_SLICE_TICKS = 1
  Object <- Sems
  Sem <- sem
  TickInWindow = TRUE
  SemInitial = 0
  SemMax = 2
  Waiter <- Waiters2
  Poster <- Posters1
  WaiterPriority = {32}
  PosterPriority = {64}
SYMMETRY Symmetry
VIEW View
CHECK_DEADLOCK FALSE
INVARIANTS SemTypeOK ReadyRingsExact WaitQueueExact TokensHaveTakers MostUrgentRuns NoOverdueSleeper

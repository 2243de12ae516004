\* An owner that was boosted into another bucket unlocks.
SPECIFICATION MutexSpec
CONSTANTS
  idle = idle  t1 = t1  t2 = t2  t3 = t3  m1 = m1
  NULL = NULL
  Task <- Tasks2
  Idle <- idle
  Priority = {32, 64}
  Ticks = {1}
  Calls = {"yield", "delay"}
  TickMod = 16
  MaxTick = 2
  RTOS_NUM_PRIORITIES = 8
  RTOS_MAX_TASKS = 4
  RTOS_TIME_SLICE_TICKS = 1
  Object <- Mutexes1
  TickInWindow = FALSE
  UnlockBoosted = TRUE
CHECK_DEADLOCK FALSE
INVARIANTS ReadyRingsExact

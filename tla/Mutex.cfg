\* Three tasks of two buckets and one mutex; no SysTick in the window, no unlock
\* by a task boosted into another bucket.
SPECIFICATION MutexSpec
CONSTANTS
  idle = idle  t1 = t1  t2 = t2  t3 = t3  m1 = m1
  NULL = NULL
  Task <- Tasks3
  Idle <- idle
  Priority = {32, 40, 64}
  Ticks = {1}
  Calls = {"delay", "delete"}
  TickMod = 16
  MaxTick = 1
  RTOS_NUM_PRIORITIES = 8
  RTOS_MAX_TASKS = 4
  RTOS_TIME_SLICE_TICKS = 1
  Object <- Mutexes1
  TickInWindow = FALSE
  UnlockBoosted = FALSE
SYMMETRY Symmetry3
VIEW View
CHECK_DEADLOCK FALSE
INVARIANTS MutexTypeOK MutualExclusion OwnerComes MutexQueuesExact Inherited BoostEnds ReadyRingsExact

\* T0 and T1 of main(); no SysTick between enqueueing and blocking.
SPECIFICATION StressSpec
CONSTANTS
  idle = idle  t0 = t0  t1 = t1  m1 = m1
  NULL = NULL
  Task <- Tasks01
  Idle <- idle
  Priority = {32}
  Ticks = {1, 2}
  Calls = {"delay"}
  TickMod = 4
  MaxTick = 4
  RTOS_NUM_PRIORITIES = 8
  RTOS_MAX_TASKS = 3
  RTOS_TIME_SLICE_TICKS = 1
  Object <- Mutexes1
  TickInWindow = FALSE
  UnlockBoosted = TRUE
  Id <- Id01
  StressPriority <- Priority01
PROPERTIES LockGranted

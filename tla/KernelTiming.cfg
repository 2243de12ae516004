\* The tick counter stops before it wraps; in Kernel_liveness.cfg it wraps.
SPECIFICATION TimingSpec
CONSTANTS
  idle = idle  t1 = t1  t2 = t2  t3 = t3
  NULL = NULL
  Task <- Tasks3
  Idle <- idle
  Priority = {0, 255}
  Ticks = {1, 2}
  Calls = {"yield", "delay", "delete"}
  TickMod = 32
  MaxTick = 3
  RTOS_NUM_PRIORITIES = 8
  RTOS_MAX_TASKS = 4
  RTOS_TIME_SLICE_TICKS = 1
SYMMETRY Symmetry3
VIEW View
INVARIANTS TypeOK ReadyRingsExact RegistryExact MostUrgentRuns NoOverdueSleeper
PROPERTIES DelayNotEarly NoPeerServedTwice
CHECK_DEADLOCK FALSE

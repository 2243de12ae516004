SPECIFICATION TimingSpec
CONSTANTS
  idle = idle  t1 = t1  t2 = t2  t3 = t3
  NULL = NULL
  Task <- Tasks2
  Idle <- idle
  Priority = {0}
  Ticks = {2}
  Calls = {"delay"}
  TickMod = 4
  MaxTick = 4
  RTOS_NUM_PRIORITIES = 8
  RTOS_MAX_TASKS = 3
  RTOS_TIME_SLICE_TICKS = 1
PROPERTY DelayNotEarly

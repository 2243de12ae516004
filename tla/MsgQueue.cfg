\* Two senders and a more urgent receiver, as in tests/test_msgqueue.c; no
\* SysTick in the window.
SPECIFICATION MsgSpec
CONSTANTS
  idle = idle  s1 = s1  s2 = s2  r1 = r1  queue = queue  x = x  y = y
  NULL = NULL
  Task <- TasksS2R1
  Idle <- idle
  Priority = {48, 64}
  Ticks = {1}
  Calls = {"delay", "delete"}
  TickMod = 16
  MaxTick = 1
  RTOS_NUM_PRIORITIES = 8
  RTOS_MAX_TASKS = 4
  RTOS_TIME_SLICE_TICKS = 1
  Object <- Queues
  TickInWindow = FALSE
  Queue <- queue
  Msg <- Msgs
  Depth = 2
  Sender <- S2
  Receiver <- R1
  SenderPriority = {64}
  ReceiverPriority = {48}
SYMMETRY Symmetry
VIEW View
CHECK_DEADLOCK FALSE
INVARIANTS MsgTypeOK MsgQueuesExact  ReadyRingsExact MostUrgentRuns NoOverdueSleeper
PROPERTIES FifoSpec

\* Timers started while SysTick is on.
CONSTANTS
  a = a
  b = b
  c = c
  NULL = NULL
  Timer <- Timers3
  Delay = {1, 2}
  Calls = {"boot", "task"}
  TickMod = 8
  MaxTick = 4
SPECIFICATION Spec
CHECK_DEADLOCK FALSE
INVARIANTS TimerListExact

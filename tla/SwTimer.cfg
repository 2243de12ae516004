\* Three timers, started and stopped in main() and in callbacks; no wrap.
CONSTANTS
  a = a
  b = b
  c = c
  NULL = NULL
  Timer <- Timers3
  Delay = {1, 2, 3}
  Calls = {"boot", "callback"}
  TickMod = 8
  MaxTick = 4
SPECIFICATION Spec
CHECK_DEADLOCK FALSE
SYMMETRY Symmetry3
INVARIANTS TypeOK TimerListExact FiresOnTime
PROPERTIES StopTakesEffect

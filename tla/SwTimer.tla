-------------------------------- MODULE SwTimer --------------------------------
(***************************************************************************)
(* Software timers: src/timer/sw_timer.c, as called from SysTick_Handler,  *)
(* from main() before SysTick is on, from tasks, and from callbacks.       *)
(*                                                                         *)
(* timer_list is kept at the level of its pointers and no function of      *)
(* sw_timer.c masks interrupts, so a call made outside SysTick takes one   *)
(* step per load or store of the list, and SysTick may come between two of *)
(* them.  A tick is processed without anything else running.  Tasks call   *)
(* one at a time.                                                          *)
(***************************************************************************)
EXTENDS Integers, FiniteSets

CONSTANTS
  NULL,
  Timer,                  \* the timer objects of the application
  Delay,                  \* tick counts it gives sw_timer_start_*
  Calls,                  \* what it does, see CallsAssumption
  TickMod,                \* 2^32 in the code: the tick counter wraps there
  MaxTick                 \* no SysTick once the counter is here

\* "boot", "task", "callback": where timers are started and stopped.
\* "stop_own", "restart_own": a callback stops or starts its own timer.
\* "restart": a timer that is in the list is started again.
ASSUME CallsAssumption ==
  /\ Calls \subseteq {"boot", "task", "callback", "stop_own", "restart_own", "restart"}
  /\ NULL \notin Timer
  /\ Delay # {} /\ Delay \subseteq Nat \ {0}
  /\ TickMod \in Nat \ {0} /\ MaxTick \in Nat

VARIABLES
  timer_list,
  next, expiry_tick, period_ticks, active,   \* of each sw_timer_t; one-shot: period 0
  tick,                   \* rtos_get_tick()
  on,                     \* SysTick has been started
  isr,                    \* "none", or where sw_timer_tick_process is
  due,                    \* its local variable of that name
  op,                     \* the list operation under way outside and inside SysTick
  left                    \* ticks until the timer has to fire (history variable)

timerVars == <<expiry_tick, period_ticks, active, left>>
vars == <<timer_list, next, expiry_tick, period_ticks, active, tick, on, isr, due, op, left>>

Context == {"task", "isr"}
NoOp == [kind |-> "none", t |-> NULL, prev |-> NULL, curr |-> NULL]

\* sw_timer_init, and objects never started.
Init ==
  /\ timer_list = NULL
  /\ next = [t \in Timer |-> NULL]
  /\ expiry_tick = [t \in Timer |-> 0]
  /\ period_ticks = [t \in Timer |-> 0]
  /\ active = [t \in Timer |-> FALSE]
  /\ tick = 0
  /\ on = FALSE
  /\ isr = "none"
  /\ due = NULL
  /\ op = [c \in Context |-> NoOp]
  /\ left = [t \in Timer |-> 0]

Begin(kind, t) == [kind |-> kind, t |-> t, prev |-> NULL, curr |-> timer_list]

\* The code outside SysTick runs, or the callback does.
MayStep(c) == IF c = "task" THEN isr = "none" ELSE isr # "none"
MayCall(c) ==
  /\ op[c] = NoOp
  /\ IF c = "task" THEN isr = "none" /\ (IF on THEN "task" ELSE "boot") \in Calls
                   ELSE isr = "callback" /\ "callback" \in Calls

-----------------------------------------------------------------------------
(* sw_timer_start_once (p = 0), sw_timer_start_periodic (p = d) *)

\* The code starts a timer in whatever state it is; Calls says what the application does.
Startable(t) == active[t] => (IF t = due THEN "restart_own" ELSE "restart") \in Calls

StartTimer(c, t, d, p) ==
  /\ MayCall(c) /\ Startable(t)
  /\ next' = [next EXCEPT ![t] = NULL]
  /\ expiry_tick' = [expiry_tick EXCEPT ![t] = (tick + d) % TickMod]
  /\ period_ticks' = [period_ticks EXCEPT ![t] = p]
  /\ active' = [active EXCEPT ![t] = TRUE]
  /\ left' = [left EXCEPT ![t] = d]
  /\ op' = [op EXCEPT ![c] = Begin("insert", t)]
  /\ UNCHANGED <<timer_list, tick, on, isr, due>>

Goes(c) == op[c].curr # NULL /\ expiry_tick[op[c].curr] <= expiry_tick[op[c].t]

\* _insert_sorted: one iteration of its loop.
InsertWalk(c) ==
  /\ MayStep(c) /\ op[c].kind = "insert" /\ Goes(c)
  /\ op' = [op EXCEPT ![c] = [@ EXCEPT !.prev = op[c].curr, !.curr = next[op[c].curr]]]
  /\ UNCHANGED <<timer_list, next, timerVars, tick, on, isr, due>>

\* _insert_sorted: the store to t->next.
InsertLink(c) ==
  /\ MayStep(c) /\ op[c].kind = "insert" /\ ~Goes(c)
  /\ next' = [next EXCEPT ![op[c].t] = IF op[c].prev = NULL THEN timer_list ELSE op[c].curr]
  /\ op' = [op EXCEPT ![c].kind = "attach"]
  /\ UNCHANGED <<timer_list, timerVars, tick, on, isr, due>>

\* Mutant: the new timer always becomes the head of the list.
AttachAtHead(c) ==
  /\ MayStep(c) /\ op[c].kind = "attach"
  /\ timer_list' = op[c].t /\ UNCHANGED next
  /\ op' = [op EXCEPT ![c] = NoOp]
  /\ UNCHANGED <<timerVars, tick, on, isr, due>>

\* _insert_sorted: the store that makes t a member of the list.
InsertAttach(c) ==
  /\ MayStep(c) /\ op[c].kind = "attach"
  /\ IF op[c].prev = NULL
     THEN timer_list' = op[c].t /\ UNCHANGED next
     ELSE next' = [next EXCEPT ![op[c].prev] = op[c].t] /\ UNCHANGED timer_list
  /\ op' = [op EXCEPT ![c] = NoOp]
  /\ UNCHANGED <<timerVars, tick, on, isr, due>>

-----------------------------------------------------------------------------
(* sw_timer_stop *)

StopTimer(c, t) ==
  /\ MayCall(c) /\ (t # due \/ "stop_own" \in Calls)
  /\ op' = [op EXCEPT ![c] = Begin("stop", t)]
  /\ UNCHANGED <<timer_list, next, timerVars, tick, on, isr, due>>

StopWalk(c) ==
  /\ MayStep(c) /\ op[c].kind = "stop" /\ op[c].curr \notin {NULL, op[c].t}
  /\ op' = [op EXCEPT ![c] = [@ EXCEPT !.prev = op[c].curr, !.curr = next[op[c].curr]]]
  /\ UNCHANGED <<timer_list, next, timerVars, tick, on, isr, due>>

\* Mutant: the walk ends before it has looked at the last timer of the list.
StopMissLast(c) ==
  /\ MayStep(c) /\ op[c].kind = "stop"
  /\ IF op[c].curr = NULL THEN TRUE ELSE next[op[c].curr] = NULL
  /\ op' = [op EXCEPT ![c] = NoOp]
  /\ UNCHANGED <<timer_list, next, timerVars, tick, on, isr, due>>

\* The timer is not in the list.
StopMiss(c) ==
  /\ MayStep(c) /\ op[c].kind = "stop" /\ op[c].curr = NULL
  /\ op' = [op EXCEPT ![c] = NoOp]
  /\ UNCHANGED <<timer_list, next, timerVars, tick, on, isr, due>>

StopUnlink(c) ==
  /\ MayStep(c) /\ op[c].kind = "stop" /\ op[c].curr = op[c].t
  /\ IF op[c].prev = NULL
     THEN timer_list' = next[op[c].t] /\ UNCHANGED next
     ELSE next' = [next EXCEPT ![op[c].prev] = next[op[c].t]] /\ UNCHANGED timer_list
  /\ op' = [op EXCEPT ![c].kind = "clear"]
  /\ UNCHANGED <<timerVars, tick, on, isr, due>>

StopClear(c) ==
  /\ MayStep(c) /\ op[c].kind = "clear"
  /\ next' = [next EXCEPT ![op[c].t] = NULL]
  /\ active' = [active EXCEPT ![op[c].t] = FALSE]
  /\ op' = [op EXCEPT ![c] = NoOp]
  /\ UNCHANGED <<timer_list, expiry_tick, period_ticks, left, tick, on, isr, due>>

-----------------------------------------------------------------------------
(* SysTick_Handler: rtos_tick_increment and sw_timer_tick_process *)

SysTickOn ==
  /\ ~on /\ op["task"] = NoOp
  /\ on' = TRUE
  /\ UNCHANGED <<timer_list, next, timerVars, tick, isr, due, op>>

TickBegin ==
  /\ on /\ isr = "none" /\ tick < MaxTick
  /\ tick' = (tick + 1) % TickMod
  /\ left' = [t \in Timer |-> IF left[t] > 0 THEN left[t] - 1 ELSE 0]
  /\ isr' = "loop"
  /\ UNCHANGED <<timer_list, next, expiry_tick, period_ticks, active, on, due, op>>

\* Mutant: a timer is due when its expiry tick has passed.
HeadDueLate == timer_list # NULL /\ active[timer_list] /\ expiry_tick[timer_list] < tick

\* The condition of the loop.
HeadDue == timer_list # NULL /\ active[timer_list] /\ expiry_tick[timer_list] <= tick

\* Mutant: timer_list is advanced before due is read from it.
ExpireSwapped ==
  /\ isr = "loop" /\ op["isr"] = NoOp /\ HeadDue
  /\ due' = next[timer_list]
  /\ timer_list' = next[timer_list]
  /\ next' = [next EXCEPT ![timer_list] = NULL]
  /\ isr' = "callback"
  /\ UNCHANGED <<timerVars, tick, on, op>>

\* The head is taken off and its callback is called.
Expire ==
  /\ isr = "loop" /\ op["isr"] = NoOp /\ HeadDue
  /\ due' = timer_list
  /\ timer_list' = next[timer_list]
  /\ next' = [next EXCEPT ![timer_list] = NULL]
  /\ isr' = "callback"
  /\ UNCHANGED <<timerVars, tick, on, op>>

\* The callback returns: a periodic timer is inserted again, a one-shot is done.
CallbackReturn ==
  /\ isr = "callback" /\ op["isr"] = NoOp
  /\ isr' = "loop" /\ due' = NULL
  /\ IF period_ticks[due] # 0
     THEN /\ expiry_tick' = [expiry_tick EXCEPT ![due] = (tick + period_ticks[due]) % TickMod]
          /\ left' = [left EXCEPT ![due] = period_ticks[due]]
          /\ next' = [next EXCEPT ![due] = NULL]
          /\ op' = [op EXCEPT !["isr"] = Begin("insert", due)]
          /\ UNCHANGED active
     ELSE /\ active' = [active EXCEPT ![due] = FALSE]
          /\ UNCHANGED <<expiry_tick, left, next, op>>
  /\ UNCHANGED <<timer_list, period_ticks, tick, on>>

TickReturn ==
  /\ isr = "loop" /\ op["isr"] = NoOp /\ ~HeadDue
  /\ isr' = "none"
  /\ UNCHANGED <<timer_list, next, timerVars, tick, on, due, op>>

-----------------------------------------------------------------------------
Next ==
  \/ SysTickOn \/ TickBegin \/ Expire \/ CallbackReturn \/ TickReturn
  \/ \E c \in Context :
       \/ \E t \in Timer, d \in Delay : StartTimer(c, t, d, 0) \/ StartTimer(c, t, d, d)
       \/ \E t \in Timer : StopTimer(c, t)
       \/ InsertWalk(c) \/ InsertLink(c) \/ InsertAttach(c)
       \/ StopWalk(c) \/ StopMiss(c) \/ StopUnlink(c) \/ StopClear(c)

Spec == Init /\ [][Next]_vars

-----------------------------------------------------------------------------
(* Correctness *)

TypeOK ==
  /\ timer_list \in Timer \cup {NULL}
  /\ next \in [Timer -> Timer \cup {NULL}]
  /\ expiry_tick \in [Timer -> 0 .. TickMod - 1]
  /\ period_ticks \in [Timer -> Delay \cup {0}]
  /\ active \in [Timer -> BOOLEAN]
  /\ tick \in 0 .. TickMod - 1 /\ on \in BOOLEAN
  /\ isr \in {"none", "loop", "callback"}
  /\ due \in Timer \cup {NULL} /\ (due # NULL <=> isr = "callback")
  /\ op \in [Context -> [kind : {"none", "insert", "attach", "stop", "clear"},
                         t : Timer \cup {NULL}, prev : Timer \cup {NULL},
                         curr : Timer \cup {NULL}]]
  /\ \A t \in Timer : \E d \in Delay : left[t] \in 0 .. d

\* What a walk from timer_list meets, NULL included if it comes to an end.
Met ==
  CHOOSE S \in SUBSET (Timer \cup {NULL}) :
    LET Closed(R) == timer_list \in R /\ \A t \in R \ {NULL} : next[t] \in R
    IN  Closed(S) /\ \A R \in SUBSET S : Closed(R) => R = S

Quiet == \A c \in Context : op[c] = NoOp

\* Whenever no list operation and no callback is under way, timer_list ends, is
\* sorted by expiry ("Software timers sorted by expiry", sw_timer.h), and holds
\* exactly the active timers.
TimerListExact ==
  Quiet /\ due = NULL =>
    /\ Met = {t \in Timer : active[t]} \cup {NULL}
    /\ \A t \in Met \ {NULL} : next[t] # NULL => expiry_tick[t] <= expiry_tick[next[t]]

\* A timer fires at the tick it was armed for ("Delay from now", "Period in ticks",
\* sw_timer.h): no callback runs early, and after a tick is processed none is owed.
FiresOnTime ==
  /\ isr = "callback" /\ op["isr"] = NoOp => left[due] = 0
  /\ on /\ isr = "none" /\ Quiet => \A t \in Timer : active[t] => left[t] > 0

\* When sw_timer_stop returns the timer is not active ("Stop a timer if active").
StopTakesEffect ==
  [][\A c \in Context : op[c].kind \in {"stop", "clear"} /\ op'[c] = NoOp
                          => ~active'[op[c].t]]_vars
=============================================================================

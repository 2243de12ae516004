---------------------------- MODULE KernelTiming ----------------------------
(***************************************************************************)
(* Kernel with two history variables, which only watch it: how long a call *)
(* of task_delay has lasted, and who was dispatched ahead of a ready task. *)
(***************************************************************************)
EXTENDS Kernel

VARIABLES
  elapsed,   \* ticks counted since the task called task_delay, up to MaxTick
  passed     \* peers dispatched since the task last became READY

timingVars == <<vars, elapsed, passed>>

TimingInit ==
  /\ Init
  /\ elapsed = [t \in Task |-> 0]
  /\ passed = [t \in Task |-> {}]

\* scheduler_get_next is taken in this step.
Dispatched == (pendsv /\ ~pendsv') \/ (phase = "armed" /\ phase' = "multi")

\* t waits in the ring that this step serves.
PassedOver(t) ==
  /\ Dispatched /\ t # current_tcb'
  /\ state[t] = "READY" /\ state'[t] = "READY"
  /\ prio_bucket[t] = prio_bucket[current_tcb']

Watch ==
  /\ elapsed' = [t \in Task |-> IF pc[t] = "app" THEN 0
                                ELSE IF tick' # tick /\ elapsed[t] < MaxTick THEN elapsed[t] + 1
                                ELSE elapsed[t]]
  /\ passed' = [t \in Task |-> IF PassedOver(t) THEN passed[t] \cup {current_tcb'}
                               ELSE IF state'[t] = "READY" /\ state[t] = "READY" THEN passed[t]
                               ELSE {}]

TimingSpec == TimingInit /\ [][Next /\ Watch]_timingVars

\* task_delay(n) does not return before n ticks were counted, as test_scheduler
\* has it: "(b - a) >= 5u" around task_delay(5u) (tests/test_scheduler.c).
DelayNotEarly ==
  [][\A t \in Task : req[t].reason = "DELAY" /\ pc[t] = "spin" /\ pc'[t] = "app"
                       /\ state'[t] # "TERMINATED"
                       => elapsed[t] >= req[t].ticks]_timingVars

\* Round robin as bounded bypass: while a task waits READY in its ring, no peer
\* of its bucket is dispatched twice, whatever tasks come and go meanwhile.
NoPeerServedTwice ==
  [][\A t \in Task : PassedOver(t) => current_tcb' \notin passed[t]]_timingVars
=============================================================================

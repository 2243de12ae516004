-------------------------------- MODULE Kernel --------------------------------
(***************************************************************************)
(* The scheduling core: src/core/task.c, scheduler.c, block.c,             *)
(* context_switch.s and SysTick_Handler of src/platform/system.c.          *)
(*                                                                         *)
(* One CPU.  A step is a stretch of code that no exception can split: a    *)
(* cpsid/cpsie section, a whole exception handler (SysTick's loop over the *)
(* registry is one step per iteration, and nothing else moves meanwhile),  *)
(* or the code of a task between two of those.  An exception may be taken  *)
(* between any two steps of a task; a pended PendSV is taken before the    *)
(* running task's next step, SysTick before or after it.                   *)
(***************************************************************************)
EXTENDS ReadyRing, Sequences, FiniteSets

CONSTANTS
  Idle,                   \* idle_tcb
  Priority,               \* priorities the application gives task_create
  Ticks,                  \* tick counts the application gives blocking calls
  Calls,                  \* kernel calls the application makes
  TickMod,                \* 2^32 in the code: the tick counter wraps there
  MaxTick,                \* no SysTick once the counter is here
  RTOS_NUM_PRIORITIES,
  RTOS_MAX_TASKS,
  RTOS_TIME_SLICE_TICKS

UINT32_MAX == TickMod - 1
Bucket == 0 .. RTOS_NUM_PRIORITIES - 1

ASSUME KernelAssumption ==
  /\ Idle \in Task
  /\ Priority \subseteq 0 .. 255
  /\ Ticks \subseteq Nat \ {0}
  /\ Calls \subseteq {"yield", "delay", "delete"}
  /\ TickMod \in Nat \ {0, 1}
  /\ MaxTick \in Nat
  /\ RTOS_NUM_PRIORITIES \in Nat \ {0}
  /\ RTOS_MAX_TASKS \in Nat \ {0}
  /\ RTOS_TIME_SLICE_TICKS \in Nat \ {0}

VARIABLES
  ready,                  \* ready_head[] and TCB::next_ready, see ReadyRing
  state,                  \* TCB::state; "UNUSED" where no task was built
  prio_bucket,            \* TCB::prio_bucket
  wake_time,              \* TCB::wake_time
  block_reason,           \* TCB::block_reason
  time_slice_counter,     \* TCB::time_slice_counter
  registry,               \* task_registry[0 .. task_registry_count - 1]
  current_tcb,
  tick,                   \* s_rtos_tick_count
  pendsv,                 \* ICSR.PENDSVSET
  isr,                    \* 0, or 1 + the index SysTick's wake loop is at
  phase,                  \* "boot": main(); "armed": SysTick on, no svc yet;
                          \* "multi": tasks run
  pc,                     \* where each task is inside a kernel call; "try" and
                          \* "posted" only in the modules that extend this one
  req                     \* the arguments of that call

tcbVars  == <<state, prio_bucket, wake_time, block_reason, time_slice_counter>>
taskVars == <<pc, req>>
cpuVars  == <<current_tcb, pendsv, isr, phase>>
vars == <<ready, state, prio_bucket, wake_time, block_reason, time_slice_counter,
          registry, current_tcb, tick, pendsv, isr, phase, pc, req>>

User == Task \ {Idle}
NoReq == [reason |-> "NONE", ticks |-> 0]
Place == {"app", "try", "enter", "block", "mark", "spin", "posted"}
Reason == {"NONE", "DELAY", "MUTEX", "SEMAPHORE", "MSG_SEND", "MSG_RECV"}
Runnable == {"READY", "RUNNING"}
Live == {"READY", "RUNNING", "BLOCKED"}

Members(s) == {s[i] : i \in 1 .. Len(s)}

-----------------------------------------------------------------------------
(* task.c: helpers *)

\* _prio_bucket
PrioBucket(p) ==
  IF p \div 32 >= RTOS_NUM_PRIORITIES THEN RTOS_NUM_PRIORITIES - 1 ELSE p \div 32

\* The registry test at the top of task_create.
RegistryHasRoom == Len(registry) < RTOS_MAX_TASKS

\* Mutant: the shift stops one short and overwrites the following entry.
RegistryRemoveLast(s, t) == IF t \in Members(s) THEN SubSeq(s, 1, Len(s) - 1) ELSE s

\* _registry_remove: later entries move down by one.
RegistryRemove(s, t) ==
  IF t \notin Members(s)
  THEN s
  ELSE LET i == CHOOSE k \in 1 .. Len(s) : s[k] = t
       IN  [j \in 1 .. Len(s) - 1 |-> IF j < i THEN s[j] ELSE s[j + 1]]

-----------------------------------------------------------------------------
(* Boot: main() runs alone until SysTick is on. *)

\* The state task_init leaves: only the idle task, in the last bucket.
Init ==
  /\ ready = [head |-> [b \in Bucket |-> IF b = RTOS_NUM_PRIORITIES - 1 THEN Idle ELSE NULL],
              next |-> [t \in Task |-> IF t = Idle THEN Idle ELSE NULL],
              stuck |-> FALSE]
  /\ state = [t \in Task |-> IF t = Idle THEN "READY" ELSE "UNUSED"]
  /\ prio_bucket = [t \in Task |-> IF t = Idle THEN RTOS_NUM_PRIORITIES - 1 ELSE 0]
  /\ wake_time = [t \in Task |-> UINT32_MAX]
  /\ block_reason = [t \in Task |-> "NONE"]
  /\ time_slice_counter = [t \in Task |-> 0]
  /\ registry = <<Idle>>
  /\ current_tcb = NULL
  /\ tick = 0
  /\ pendsv = FALSE
  /\ isr = 0
  /\ phase = "boot"
  /\ pc = [t \in Task |-> "app"]
  /\ req = [t \in Task |-> NoReq]

\* task_create from main(), when heap_alloc succeeds.  Every failure returns
\* NULL and leaves the kernel as it was.
TaskCreate(t, p) ==
  /\ phase = "boot"
  /\ state[t] = "UNUSED"
  /\ RegistryHasRoom
  /\ prio_bucket' = [prio_bucket EXCEPT ![t] = PrioBucket(p)]
  /\ state' = [state EXCEPT ![t] = "READY"]
  /\ ready' = RingInsert(ready, PrioBucket(p), t)
  /\ registry' = Append(registry, t)
  /\ UNCHANGED <<wake_time, block_reason, time_slice_counter, tick, cpuVars, taskVars>>

\* rtos_start up to SysTick_Config: from here on SysTick may fire.
RtosStart ==
  /\ phase = "boot"
  /\ phase' = "armed"
  /\ UNCHANGED <<ready, tcbVars, registry, tick, current_tcb, pendsv, isr, taskVars>>

-----------------------------------------------------------------------------
(* scheduler_get_next, and the two handlers that call it *)

NonEmpty == {b \in Bucket : ready.head[b] # NULL}
TopBucket == CHOOSE b \in NonEmpty : \A c \in NonEmpty : b <= c

\* The running task gives its place back: it never left its ring.
Preempted ==
  IF current_tcb # NULL /\ state[current_tcb] = "RUNNING"
  THEN [state EXCEPT ![current_tcb] = "READY"]
  ELSE state

Dispatch(sel) ==
  /\ state' = [Preempted EXCEPT ![sel] = "RUNNING"]
  /\ time_slice_counter' = [time_slice_counter EXCEPT ![sel] = 0]
  /\ current_tcb' = sel

\* Mutant: the ring is not rotated, so its head is chosen again and again.
GetNextNoRotate ==
  IF NonEmpty = {}
  THEN Dispatch(Idle) /\ UNCHANGED ready
  ELSE Dispatch(ready.head[TopBucket]) /\ UNCHANGED ready

\* The head of the first non-empty ring, which moves on by one; the last
\* resort is the idle task.
scheduler_get_next ==
  IF NonEmpty = {}
  THEN Dispatch(Idle) /\ UNCHANGED ready
  ELSE LET sel == ready.head[TopBucket]
       IN  /\ Dispatch(sel)
           /\ ready' = [ready EXCEPT !.head = [@ EXCEPT ![TopBucket] = ready.next[sel]]]

\* svc 0 at the end of rtos_start: the first task is entered.  A PendSV taken
\* earlier has chosen a task already but returned to main().
SVC_Handler ==
  /\ phase = "armed" /\ isr = 0 /\ ~pendsv
  /\ phase' = "multi"
  /\ scheduler_get_next
  /\ UNCHANGED <<prio_bucket, wake_time, block_reason, registry, tick, pendsv, isr, taskVars>>

\* Registers and PSP of the task left behind stay in its own stack: pc[t].
PendSV_Handler ==
  /\ phase # "boot" /\ isr = 0 /\ pendsv
  /\ pendsv' = FALSE
  /\ scheduler_get_next
  /\ UNCHANGED <<prio_bucket, wake_time, block_reason, registry, tick, isr, phase, taskVars>>

-----------------------------------------------------------------------------
(* SysTick_Handler: rtos_tick_increment, rtos_wake_delayed (one step per   *)
(* registry entry), then the rest.  No software timer is armed and no      *)
(* canary is damaged in this module, so sw_timer_tick_process and          *)
(* rtos_stack_check_all find nothing to do.                                *)

rtos_tick_increment ==
  /\ phase # "boot" /\ isr = 0 /\ tick < MaxTick
  /\ tick' = (tick + 1) % TickMod
  /\ isr' = 1
  /\ UNCHANGED <<ready, tcbVars, registry, current_tcb, pendsv, phase, taskVars>>

Scanned == registry[isr]

\* Mutant: a task is due one tick early.
DueEarly(t) ==
  /\ t # Idle /\ state[t] = "BLOCKED" /\ wake_time[t] # UINT32_MAX
  /\ tick + 1 >= wake_time[t]

\* Mutant: a task is due only when its wake time has passed.
DueLate(t) ==
  /\ t # Idle /\ state[t] = "BLOCKED" /\ wake_time[t] # UINT32_MAX
  /\ tick > wake_time[t]

\* The tests that make rtos_wake_delayed look at a task at all.
Due(t) ==
  /\ t # Idle /\ state[t] = "BLOCKED" /\ wake_time[t] # UINT32_MAX
  /\ tick >= wake_time[t]

\* An entry that is not due, or whose reason no branch of the loop handles.
WakeSkip ==
  /\ isr \in 1 .. Len(registry)
  /\ ~Due(Scanned) \/ block_reason[Scanned] = "NONE"
  /\ isr' = isr + 1
  /\ UNCHANGED <<ready, tcbVars, registry, tick, current_tcb, pendsv, phase, taskVars>>

\* The BLOCK_DELAY branch.
WakeDelay ==
  /\ isr \in 1 .. Len(registry)
  /\ Due(Scanned) /\ block_reason[Scanned] = "DELAY"
  /\ isr' = isr + 1
  /\ block_reason' = [block_reason EXCEPT ![Scanned] = "NONE"]
  /\ state' = [state EXCEPT ![Scanned] = "READY"]
  /\ ready' = RingInsert(ready, prio_bucket[Scanned], Scanned)
  /\ UNCHANGED <<prio_bucket, wake_time, time_slice_counter, registry, tick,
                 current_tcb, pendsv, phase, taskVars>>

\* Mutant: the slice counter is let to reach its limit.
SliceTickOver ==
  IF current_tcb \notin {NULL, Idle} /\ state[current_tcb] = "RUNNING"
  THEN [time_slice_counter EXCEPT
          ![current_tcb] = IF @ < RTOS_TIME_SLICE_TICKS THEN @ + 1 ELSE 0]
  ELSE time_slice_counter

\* scheduler_time_slice_tick; the reschedule it may request is requested by
\* the handler's last line in any case.
SliceTick ==
  IF current_tcb \notin {NULL, Idle} /\ state[current_tcb] = "RUNNING"
  THEN [time_slice_counter EXCEPT
          ![current_tcb] = IF @ + 1 < RTOS_TIME_SLICE_TICKS THEN @ + 1 ELSE 0]
  ELSE time_slice_counter

\* Mutant: the handler leaves without pending PendSV.
SysTickReturnsQuietly ==
  /\ isr = Len(registry) + 1
  /\ isr' = 0
  /\ time_slice_counter' = SliceTick
  /\ UNCHANGED <<ready, state, prio_bucket, wake_time, block_reason, registry, tick,
                 current_tcb, pendsv, phase, taskVars>>

SysTickReturn ==
  /\ isr = Len(registry) + 1
  /\ isr' = 0
  /\ time_slice_counter' = SliceTick
  /\ pendsv' = TRUE
  /\ UNCHANGED <<ready, state, prio_bucket, wake_time, block_reason, registry, tick,
                 current_tcb, phase, taskVars>>

-----------------------------------------------------------------------------
(* Calls of the running task *)

Executing(c) == phase = "multi" /\ isr = 0 /\ ~pendsv /\ current_tcb = c
InApp(c) == Executing(c) /\ c # Idle /\ pc[c] = "app"

\* task_yield
TaskYield(c) ==
  /\ "yield" \in Calls /\ InApp(c)
  /\ pendsv' = TRUE
  /\ UNCHANGED <<ready, tcbVars, registry, tick, current_tcb, isr, phase, taskVars>>

\* task_delay, up to its call of rtos_block_current
TaskDelay(c, n) ==
  /\ "delay" \in Calls /\ InApp(c)
  /\ pc' = [pc EXCEPT ![c] = "enter"]
  /\ req' = [req EXCEPT ![c] = [reason |-> "DELAY", ticks |-> n]]
  /\ UNCHANGED <<ready, tcbVars, registry, tick, cpuVars>>

\* rtos_block_current, before cpsid: why this task is about to block.
BlockStore(c) ==
  /\ Executing(c) /\ pc[c] = "enter"
  /\ pc' = [pc EXCEPT ![c] = "block"]
  /\ block_reason' = [block_reason EXCEPT ![c] = req[c].reason]
  /\ UNCHANGED <<ready, state, prio_bucket, wake_time, time_slice_counter, registry,
                 tick, cpuVars, req>>

\* Mutant: the sum does not wrap as the counter does.
WakeTimeWide(n) == IF n = 0 THEN UINT32_MAX ELSE tick + n

\* 0 is RTOS_WAIT_FOREVER.
WakeTime(n) == IF n = 0 THEN UINT32_MAX ELSE (tick + n) % TickMod

\* rtos_block_current, its cpsid/cpsie section.
BlockCommit(c) ==
  /\ Executing(c) /\ pc[c] = "block"
  /\ pc' = [pc EXCEPT ![c] = "mark"]
  /\ wake_time' = [wake_time EXCEPT ![c] = WakeTime(req[c].ticks)]
  /\ state' = [state EXCEPT ![c] = "BLOCKED"]
  /\ ready' = RingRemove(ready, prio_bucket[c], c)
  /\ UNCHANGED <<prio_bucket, block_reason, time_slice_counter, registry, tick,
                 cpuVars, req>>

\* rtos_block_current: scheduler_mark_reschedule after cpsie.
BlockMark(c) ==
  /\ Executing(c) /\ pc[c] = "mark"
  /\ pc' = [pc EXCEPT ![c] = "spin"]
  /\ pendsv' = TRUE
  /\ UNCHANGED <<ready, tcbVars, registry, tick, current_tcb, isr, phase, req>>

\* The loop on self->state is left; task_delay returns to the application.
DelayReturn(c) ==
  /\ Executing(c) /\ pc[c] = "spin" /\ req[c].reason = "DELAY"
  /\ state[c] # "BLOCKED"
  /\ pc' = [pc EXCEPT ![c] = "app"]
  /\ req' = [req EXCEPT ![c] = NoReq]
  /\ UNCHANGED <<ready, tcbVars, registry, tick, cpuVars>>

\* task_delete of another task, blocked in task_delay or not blocked.
TaskDelete(c, t) ==
  /\ "delete" \in Calls /\ InApp(c)
  /\ t \in Members(registry) \ {Idle, c}
  /\ block_reason' = IF state[t] = "BLOCKED" THEN [block_reason EXCEPT ![t] = "NONE"]
                     ELSE block_reason
  /\ ready' = RingRemove(ready, prio_bucket[t], t)
  /\ state' = [state EXCEPT ![t] = "TERMINATED"]
  /\ registry' = RegistryRemove(registry, t)
  /\ pc' = [pc EXCEPT ![t] = "app"]
  /\ req' = [req EXCEPT ![t] = NoReq]
  /\ UNCHANGED <<prio_bucket, wake_time, time_slice_counter, tick, cpuVars>>

-----------------------------------------------------------------------------
Boot == (\E t \in User, p \in Priority : TaskCreate(t, p)) \/ RtosStart \/ SVC_Handler

SysTick_Handler == rtos_tick_increment \/ WakeSkip \/ WakeDelay \/ SysTickReturn

\* The rest of a blocking call once it is made.
Block(c) == BlockStore(c) \/ BlockCommit(c) \/ BlockMark(c)

TaskStep(c) ==
  \/ TaskYield(c)
  \/ \E n \in Ticks : TaskDelay(c, n)
  \/ Block(c)
  \/ DelayReturn(c)
  \/ \E t \in User : TaskDelete(c, t)

Next ==
  /\ ~ready.stuck
  /\ Boot \/ SysTick_Handler \/ PendSV_Handler \/ \E c \in User : TaskStep(c)

Spec == Init /\ [][Next]_vars

(***************************************************************************)
(* Fairness.  SysTick is a hardware timer that never stops.  It may        *)
(* interrupt anything once more, but a tick period is longer than the two  *)
(* handlers together, so a pended PendSV is taken in the end and a task    *)
(* that is given the CPU again and again inside a kernel call runs on      *)
(* (strong fairness).  Nothing is assumed of the application: a task may   *)
(* compute forever and make no call.                                       *)
(***************************************************************************)
FairSpec ==
  /\ Spec
  /\ WF_vars(~ready.stuck /\ SysTick_Handler)
  /\ SF_vars(~ready.stuck /\ PendSV_Handler)
  /\ SF_vars(~ready.stuck /\ SVC_Handler)
  /\ \A c \in User : SF_vars(~ready.stuck /\ (Block(c) \/ DelayReturn(c)))

-----------------------------------------------------------------------------
(* Correctness *)

TypeOK ==
  /\ ready \in [head : [Bucket -> Task \cup {NULL}], next : [Task -> Task \cup {NULL}],
                stuck : BOOLEAN]
  /\ state \in [Task -> {"UNUSED", "READY", "RUNNING", "BLOCKED", "TERMINATED"}]
  /\ prio_bucket \in [Task -> Bucket]
  /\ wake_time \in [Task -> 0 .. UINT32_MAX]
  /\ block_reason \in [Task -> Reason]
  /\ time_slice_counter \in [Task -> 0 .. RTOS_TIME_SLICE_TICKS - 1]
  /\ registry \in Seq(Task)
  /\ current_tcb \in Task \cup {NULL}
  /\ tick \in 0 .. UINT32_MAX
  /\ pendsv \in BOOLEAN
  /\ isr \in 0 .. Len(registry) + 1
  /\ phase \in {"boot", "armed", "multi"}
  /\ pc \in [Task -> Place]
  /\ req \in [Task -> [reason : Reason, ticks : Ticks \cup {0}]]

RunnableIn(b) == {t \in Task : state[t] \in Runnable /\ prio_bucket[t] = b}

\* The ready ring of every bucket is one cycle through exactly the READY and
\* RUNNING tasks of that bucket, and no list walk of scheduler.c has failed to
\* come to its end: no task is lost, listed twice, or listed while it sleeps.
ReadyRingsExact ==
  /\ ~ready.stuck
  /\ \A b \in Bucket : IsRing(ready, b, RunnableIn(b))

\* task_registry lists every live task exactly once, so rtos_wake_delayed, which
\* finds its sleepers nowhere else, can wake each of them.
RegistryExact ==
  /\ Members(registry) = {t \in Task : state[t] \in Live}
  /\ \A i, j \in 1 .. Len(registry) : registry[i] = registry[j] => i = j

\* The running task has the CPU for good: no exception is active or pended and
\* it is not about to call scheduler_mark_reschedule.
Settled == phase = "multi" /\ isr = 0 /\ ~pendsv /\ pc[current_tcb] \notin {"mark", "posted"}

\* Preemption: whenever a task runs with nothing pended, it is RUNNING, no other
\* task is, and no runnable task has a more urgent bucket.
MostUrgentRuns ==
  Settled =>
    /\ \A t \in Task : state[t] = "RUNNING" <=> t = current_tcb
    /\ \A t \in Task : state[t] \in Runnable => prio_bucket[current_tcb] <= prio_bucket[t]

\* Once SysTick_Handler is done no task sleeps past its wake_time.  (While the
\* tick counter does not wrap.)
NoOverdueSleeper ==
  isr = 0 => \A t \in Task : state[t] = "BLOCKED" /\ wake_time[t] # UINT32_MAX
                               => tick < wake_time[t]

AtTop(t) ==
  /\ phase = "multi" /\ state[t] = "READY"
  /\ \A u \in Task : state[u] \in Runnable => prio_bucket[t] <= prio_bucket[u]

\* Round robin: a READY task with nothing more urgent than it is dispatched
\* unless something more urgent turns up or it is deleted.
RoundRobin == \A t \in Task : AtTop(t) ~> ~AtTop(t)

\* A task that blocks with a timeout leaves BLOCKED, also when the tick counter
\* wraps meanwhile; UINT32_MAX stands for no timeout.
SleeperWakes ==
  \A t \in Task : (state[t] = "BLOCKED" /\ wake_time[t] # UINT32_MAX) ~> state[t] # "BLOCKED"
=============================================================================

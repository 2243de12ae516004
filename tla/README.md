# microkernel-rtos in TLA+

Specifications of the kernel in `src/`: a priority-preemptive scheduler for one
Cortex-M CPU, with blocking calls and timeouts, mutexes with priority
inheritance, counting semaphores, message queues, a first-fit heap and software
timers. TLC checks them on small instances; TLAPS proves the safety of the
scheduling core and its timing, of the mutex, the semaphore and the message queue
on top of it, of the heap with the tasks' memory in it and of the software timers
for every value of the constants.

`PROJECT.json` lists components, runs, theorems, hazards and findings, and maps
each definition to the lines it stands for.

## The system

| Part | State | Operations | What is hard about it | What is asked of it |
|---|---|---|---|---|
| Scheduler, `scheduler.c` | `ready_head[]`, `next_ready`, `time_slice_counter` | insert, remove, rebucket, choose next, slice test | circular lists changed from tasks and from SysTick; a RUNNING task stays in its ring | rings exact, most urgent task runs, round robin |
| Tasks, `task.c` | TCBs, `task_registry`, tick counter | init, create, start, yield, delay, delete, tick scan | deletion in any state; scan by index; wrap of the counter | registry exact, sleepers wake on time |
| Blocking, `block.c` | `state`, `wake_time`, `block_reason`, `block_object`, `block_wake_status` | `rtos_block_current` | three stretches of code with interrupts on in between | as above |
| Exceptions, `context_switch.s`, `system.c` | `current_tcb`, pended PendSV | SVC, PendSV, SysTick | may be taken between any two steps of a task | as above |
| Semaphore, `semaphore.c` | `count`, wait list | wait, post, timeout, detach | the window (below); a woken task takes the token itself | queue exact, no lost wakeup |
| Mutex, `mutex.c` | `owner`, wait list, priorities | lock, unlock, timeout, detach | the window; handover; boost across rings; nesting | exclusion, the owner comes, inheritance |
| Message queue, `msgqueue.c` | ring buffer, two wait lists | send, receive, timeout, detach | the window; two kinds of waiters; index wrap | a FIFO; no lost wakeup |
| Heap, `heap.c` | free list, headers | alloc, free, coalesce | splitting and merging in an unordered list | blocks tile the pool |
| Memory of tasks, `task.c` on `heap.c` | TCBs and stacks as blocks, canaries | init, create, delete, stack check | failure half-way; memory used again | every block has one owner, a canary tells the truth |
| Timers, `sw_timer.c` | sorted list, `active` | start, stop, tick processing | list changed with interrupts on, and by callbacks | list exact, fires on time |

Tasks call the kernel; SysTick wakes sleepers through the registry, serves the
timers, checks the canaries and requests PendSV; PendSV calls
`scheduler_get_next`. Mutex, semaphore
and message queue share one pattern: a loop that tests its condition with
interrupts off, enqueues the caller, turns interrupts on, and calls
`rtos_block_current`, which turns them off again to block. Between the two
sections the caller is in a wait queue and still runnable. The modules call this
the *window*.

## Modules

| Module | Models | Checked by |
|---|---|---|
| `ReadyRing` | the rings of `scheduler.c` as pointer structures | through `Kernel` |
| `Kernel` | `task.c`, `scheduler.c`, `block.c`, `context_switch.s`, `SysTick_Handler` | `MCKernel`, `MCKernelTiming` |
| `KernelTiming` | `Kernel` with history variables: how long a delay has lasted, which peers were served | `MCKernelTiming` |
| `Waiting` | what the three blocking objects share, on top of `Kernel` | through the next three |
| `Semaphore`, `Mutex`, `MsgQueue` | the object, composed with the whole kernel | `MCSemaphore`, `MCMutex`, `MCMsgQueue` |
| `Fifo` | what `msgqueue.h` promises; `MsgQueue` implements it | `FifoSpec` |
| `StressTest` | `examples/stress_test/main.c` as the closed application of `Mutex` | `MCStressTest` |
| `Heap` | `heap.c` | through `TaskMemory` |
| `TaskMemory` | `task_init`, `task_create`, `task_delete` and `rtos_stack_check_all` over the heap | `MCTaskMemory` |
| `SwTimer` | `sw_timer.c` and its caller in SysTick | `MCSwTimer` |
| `KernelProofs`, `KernelTimingProofs`, `WaitingProofs`, `MutexProofs`, `SemaphoreProofs`, `MsgQueueProofs`, `TaskMemoryProofs`, `SwTimerProofs` | theorems | TLAPS |

Definitions called a mutant in their comment are wrong versions of the
definition after them. No specification uses them; each shows that a property
would notice that mistake.

### Steps

The program runs on one CPU. A step is a stretch of code that no exception can
split: a `cpsid`/`cpsie` section, a handler, or a task's code between two of
those. The loop of `rtos_wake_delayed` is one step per registry entry
(`isr` is the index), and nothing else runs meanwhile, as SysTick is not
preempted. A pended PendSV is taken before the next step of the running task;
SysTick may come before or after it. (`rtos_start` passes the priorities 8 and 15
to `nvic_set_priority`, which stores them unshifted in bytes of which the part
implements the upper four bits. Both exceptions then have priority 0 and neither
preempts the other; the model has both orders and does not depend on it.)

`pc` is where a task is: `app` in the application, `enter`, `block`, `mark`,
`spin` in `rtos_block_current`, `try` at the test in the loop of a blocking
object, `posted` before the final `scheduler_mark_reschedule`. `req` and
`object` are the arguments of the call. `phase` is `boot` before `rtos_start`,
`armed` until SVC or PendSV has started a task, `multi` afterwards.

The stores of lines 29 to 31 of `block.c` are one step. They go to fields of the
running task that others look at only once it is BLOCKED or taken off a queue.
`blocked_on_mutex` is written and never read, and is left out.

### Correspondence

* `ReadyRing` keeps `ready_head` and `next_ready` and follows the list walks of
  the code. It does not assume that rings are well formed: a walk that would not
  end sets `stuck`, after which the CPU takes no step. Rings stay exact as a
  result of the steps, not as a property of the representation.
* `Kernel` has one action per operation: `TaskCreate`, `RtosStart`,
  `SVC_Handler`, `PendSV_Handler`, the parts of SysTick
  (`rtos_tick_increment`, `WakeSkip`, `WakeDelay`, `SysTickReturn`),
  `TaskYield`, `TaskDelay`, the parts of `rtos_block_current` (`BlockStore`,
  `BlockCommit`, `BlockMark`, `DelayReturn`) and `TaskDelete`. The tick counter
  is modulo `TickMod`, which is 2^32 in the code.
* `Waiting` adds `block_object`, `block_wake_status` and the branches of
  `rtos_wake_delayed` and `task_delete` for waiters. A wait queue is the
  sequence of tasks linked by `mutex_wait_next`.
* `Semaphore`, `Mutex` and `MsgQueue` add the object and its calls. The first
  test, the enqueueing and the blocking are separate steps. In `MsgQueue` the
  buffer is an array of `Depth` slots with `head`, `tail` and `count`. In `Mutex`
  `holds` is a history variable: the mutexes for which `mutex_lock` has returned
  `RTOS_OK` to a task that has not unlocked since.
* `StressTest` replaces the free choices of `Mutex` by the loop of
  `stress_body`: `call` is the call a task makes next, and the tasks, their
  priorities and delays are those of `main()`.
* `Heap` counts in units of 8 bytes, the alignment; requests are in bytes, and
  rounding is on machine words. One step per iteration of `_coalesce_forward`.
* `TaskMemory` names a task by the block of its TCB. `job` is where the call of
  `task_create` or `task_delete` under way is; between its steps come the passes
  of `_coalesce_forward`, tasks that use up their stacks (`overrun` is a history
  variable) and the stack check. In `task_delete` interrupts are off, and the
  last two do not come. `canary` is the set of units whose first word is the
  canary, wherever they are, and every header, cleared TCB and frame that is
  written takes units out of it.
* `SwTimer` keeps the list by its pointers, and a call outside SysTick takes one
  step per load or store, since `sw_timer.c` masks no interrupts. `left` is a
  history variable that counts down to the tick the timer should fire.

## Runs

Passing runs:

| Run | Instance | Shows |
|---|---|---|
| `kernel` | 3 tasks, 2 priorities, the counter stops before its wrap | `ReadyRingsExact`, `RegistryExact`, `MostUrgentRuns`, `NoOverdueSleeper`, `DelayNotEarly`, `NoPeerServedTwice` |
| `kernel_liveness` | 2 tasks, counter wraps at 3, for ever | `RoundRobin`, `SleeperWakes` |
| `semaphore` | 2 waiters, a less urgent poster that also deletes, at most 2 tokens | `WaitQueueExact`, `TokensHaveTakers`, `NoOverdueSleeper`, the kernel's invariants |
| `mutex` | 3 tasks, 3 priorities, 2 buckets, 1 mutex, 1 tick, deletion | `MutualExclusion`, `OwnerComes`, `MutexQueuesExact`, `Inherited`, `BoostEnds`, `ReadyRingsExact` |
| `msgqueue` | 2 senders, a more urgent receiver, depth 2, 2 messages, 1 tick, deletion | `FifoSpec`, `MsgQueuesExact`, `MsgWakeups`, `NoOverdueSleeper`, the kernel's invariants |
| `task_memory` | 14 units, 2 tasks besides idle, 2 stack sizes and one too small, an application that allocates | `MemoryAccounted`, `CanaryTells`, and of the heap `HeapPartition`, `RoomForRequest`, `PassedAreApart` |
| `sw_timer` | 3 timers, delays 1 to 3 | `TimerListExact`, `FiresOnTime`, `StopTakesEffect` |
| `stress` | T0 and T1 of `examples/stress_test`, counter wraps at 4, for ever | `LockGranted`; no deadlock |

Each also checks the type invariant of its module, but for `kernel_liveness` and
`stress`, which ask whether something happens in the end.

Runs that find a disagreement between the code and what the repository says of
it; the findings in `PROJECT.json` quote the sentence:

| Run | Shows |
|---|---|
| `delay_at_wrap` | a delay across the wrap of the counter is cut short |
| `stress_window` | in the stress test, an unlock in another task's window leaves both tasks without the mutex, and one without a ring, for ever |
| `mutex_rebucket` | an unlock by a boosted task leaves it in the wrong ring |
| `timer_race` | a start from a task, interrupted by SysTick, damages the list |

### Bounds

`Task`, `Priority`, `Ticks`, `Depth`, `PoolUnits`, `TickMod` and the like are
constants. `MaxTick` ends SysTick in runs that check safety, so that the counter
does not make every state new; where it ends and the tasks may all sleep the
system stops, and the configuration says `CHECK_DEADLOCK FALSE`. In
`kernel_liveness` and `stress` the counter wraps below `MaxTick`, SysTick goes on
for ever and deadlock is checked.

`semaphore` has three ticks, `mutex` and `msgqueue` have one. Calls are not
bounded, but with one tick every timeout expires in the same SysTick: a task that
times out, waits again and times out again is not in those two runs. Larger
instances take more than five minutes on a small machine and are not kept as
runs. Tried once, without an error: `mutex` with two ticks (2.3 million states),
`msgqueue` with two ticks (1.5 million), with one sender, two receivers and two
ticks (438 thousand), and with two of each and one tick (1.2 million).

Three tasks are the fewest that fill a ring with a head, a middle and a tail, and
that let one task wake or delete while two wait. Two buckets give preemption, two
priorities of one bucket give a boost without a move. Delays of one and two ticks
order two sleepers. Depth 2 with two messages tells order from identity and makes
`head`, `tail` and `count` wrap. Fourteen units hold the idle task's TCB and two
tasks with blocks of the application in between, or not quite, so that each
request of `task_create` fails in some state; they leave free blocks with
neighbours on both sides in any list order. In the code every stack is larger
than a TCB, so once the TCB was refused the stack is refused as well and the
second `heap_free` of the failure path has nothing to free; the run has sizes
for which it does. Three timers are a head, a middle and a tail. T0 and T1 of the
stress test have one priority and different delays, so that they meet at the
mutex in either order; T2 is left out for the reason given below.

Views drop what no later step reads: the `wake_time` of a task that is not
BLOCKED, the tick count of a call that has used it, old headers in the heap, a
message that was stored. Symmetry is used in runs that check safety only.

### Restrictions of the passing runs

Some behaviours of the code break an invariant. The passing run of a module goes
without them, so that the rest can be checked: what it shows holds under the
restriction and not for the code at large. Each restriction is the value of a
constant. Where it says below that a property fails and names no run, TLC found
the counterexample on an instance of two or three tasks or two timers that is not
kept.

* `TickInWindow = FALSE` (`mutex`, `msgqueue`): no SysTick while the running task
  is in its window, thus no other task runs there. With `TRUE` and tasks of equal
  priority, `OwnerComes` fails (an unlock in the window makes a task block as the
  owner), and so does `NoOverdueSleeper` in `Mutex` and in `MsgQueue`.
* `TickInWindow = FALSE` in `stress` too; lifted in `stress_window`. And `stress`
  has the example's tasks of one priority only. With T2 added, of priority 64,
  TLC reaches the defect of `mutex_rebucket` in the example itself: T2 unlocks
  while boosted into the bucket of T0 and T1 and stays in the wrong ring, and a
  later walk along a ring, with interrupts off, never ends (a trace of 72 states).
* `semaphore` keeps `TickInWindow = TRUE`. Its poster is less urgent than the
  waiters, as in `tests/test_semaphore.c`, and cannot run in their windows. With
  a poster of the same priority `NoOverdueSleeper` fails: a post between the
  stores of `rtos_block_current` and its critical section resets `block_reason`,
  the waiter blocks all the same, and no branch of `rtos_wake_delayed` serves its
  timeout. `ReadyRingsExact` fails too: the waiter is inserted into its ring
  twice. And even without a SysTick in the window `TokensHaveTakers` fails: the
  poster wakes a waiter and deletes it before it runs, and the token it was woken
  for lies beside a waiter that sleeps on.
* `UnlockBoosted = FALSE` (`mutex`): no unlock by a task that was boosted into
  another bucket. Lifted in `mutex_rebucket`; `tests/test_priority_inheritance.c`
  does such an unlock. Boosts and unlocks within one bucket are in.
* One mutex (`mutex`). With two, a task that owns both loses the priority it
  inherited through one when it unlocks the other (`Inherited` fails).
* `Calls` of `SwTimer`: without `task`, no start or stop once SysTick is on,
  lifted in `timer_race`. Without `stop_own` and `restart_own`, callbacks leave
  their own timer alone: with the first, a periodic timer that stops itself is
  armed again (`StopTakesEffect` fails); with the second, a one-shot timer that
  starts itself is in the list and inactive (`TimerListExact` fails). Without
  `restart`, no timer in the list is started again: with it, the timer is linked
  to itself and the list has no end (`TimerListExact` fails).
* No wrap of the counter in `kernel`, `sw_timer` and the runs of the
  blocking objects. Lifted in `delay_at_wrap`; with a wrap a timer, too, fires
  early (`FiresOnTime` fails).

### What the properties leave open

TLC found a counterexample to the stronger property in each case.

* `SleeperWakes` excepts a `wake_time` of `UINT32_MAX`, which the code takes for
  no timeout. A `task_delay` that ends at exactly that tick never ends.
* `task_create` refuses when `task_registry_count`, which counts the idle task,
  has reached `RTOS_MAX_TASKS` (`RegistryHasRoom`), so one task fewer can be
  created than `rtos_config.h` says.
* No property says that a task keeps the CPU for `RTOS_TIME_SLICE_TICKS`. It does
  not: `SysTick_Handler` requests a reschedule in every tick, PendSV rotates the
  ring, and a peer takes over before the slice is used up.
* `PassedAreApart` is about list neighbours. The free list is not ordered by
  address, and free blocks that touch may stay apart after `heap_free`.

### Fairness

`FairSpec` of `Kernel` has weak fairness of SysTick, which the timer hardware
raises for ever; strong fairness of PendSV and SVC, which the CPU takes as soon
as no handler of higher priority is active, though SysTick may get in between
any number of times; and strong fairness of the steps of a task inside
`rtos_block_current`, which have no loop but the final one and proceed whenever
the task has the CPU. Nothing is assumed of the application: a task may stay in
its own code for ever. `RoundRobin` and `SleeperWakes` hold all the same, as
SysTick takes the CPU from it.

`StressSpec` has the same fairness, and strong fairness of every task's steps:
the application is known here, its loops between two calls are finite, and a task
that has the CPU again and again gets through them. `LockGranted` is about calls
that were made and not about every task locking again and again, since a
`task_delay` that ends at `UINT32_MAX` never ends.

## Proofs

All theorems hold for every set of tasks, every number of buckets, every slice,
every counter width, every pool and every depth that the named assumptions allow
(`NullIsNoTask`, `KernelAssumption`, `HeapAssumption`, `TaskMemoryAssumption`,
`WaitingAssumption`, `MutexAssumption`, `SemaphoreAssumption`,
`MsgQueueAssumption`, `CallsAssumption`), and under what the theorem itself
assumes.

**Rings** (first part of `KernelProofs`). A ring is a cycle when every nonempty set closed
under `next` that meets it contains it. From this: the walk to the tail ends at
the one predecessor of the head; insertion adds one member; removal takes one
away; both leave other rings alone; rotation keeps the cycle. No induction over
data is needed, because `Walk` is the least closed set and not a recursion.

**Kernel** (`KernelProofs`). `Inv` is the conjunction of `TypeOK`,
`ReadyRingsExact` and `RegistryExact` with three facts that they need.
`IdleRunnable`: the idle task is never blocked or deleted, so
`scheduler_get_next` always finds a nonempty ring, and what it returns is a task.
`LoneRunner`: only the task that `current_tcb` names is RUNNING, so that a
dispatch leaves one RUNNING task. `RunnerRuns`: where no switch is under way it
is RUNNING. Rings stay exact when the current task blocks only if it is in the
ring of its bucket. One lemma per action; actions that touch neither rings nor
registry go through `QuietStep`, wake-ups of any kind through `WakeInv`.
`MostUrgentRuns` follows in a second pass (`NextUrgent`): a dispatch establishes
it, because rings are exact, and every other step keeps it or pends a switch. It
is kept out of `Inv` because a boost breaks it, while the rest is true of the
mutex too. Theorems: `TypeCorrect`, `RingsAlwaysExact`, `RegistryAlwaysExact`,
`PreemptionCorrect`.

**Timing** (last part of `KernelProofs`, and `KernelTimingProofs`). `NoWrap` says
that `MaxTick` and the longest delay stay below the wrap of the counter. `OnTime`
says of every sleeper where its `wake_time` lies: ahead of the counter, or not
ahead of it and the scan has yet to come to its entry in the registry. A wake-up
in the scan, which moves on by one entry, and a deletion, which moves entries
down, cannot meet, as the scan is not interrupted. The scan wakes a sleeper only
if its `block_reason` names a branch of `rtos_wake_delayed` (`BlockedForReason`);
this is what a post in the window of a waiter breaks. In `Kernel` it follows from
`DelayOnly`, that tasks sleep in `task_delay` only (`Timed`); with the blocking
objects it follows from `WInv`, and the lemmas on `OnTime` are shared.
`DelayNeverEarly` adds that the ticks a delay has lasted and the ticks to its
`wake_time` make up at least what was asked for. Theorems: `NobodyOversleeps`,
`DelayNeverEarly`.

**Round robin** (last part of `KernelTimingProofs`). The order in a ring is the
set of nodes `Walk` meets from the head to a task: these are the tasks served
before it (`InFront`). `WalkOrder` and `WalkNoReturn` say that such sets are
ordered and that a walk ends before it comes back to the head, again by choosing
a closed set and without induction. A dispatch takes the head out of everybody's
set (`RotateWalk`), an insertion adds to nobody's (`InsertWalk`), a removal makes
sets smaller (`RemoveWalk`). The invariant `ServedBehind` says that no task served
since t became READY is in front of t, wherever it has been since. `RoundRobinIsFair`
follows: the task dispatched from the bucket of t is in front of t. It assumes
nothing of the counter.

**Waiting** (`WaitingProofs`): what the proofs of the three blocking objects
share. `WInv` is `Inv` of the kernel with `CallOK`, which ties the place of a task
in its call to its state, its block reason and its object. For every step that is
not the object's own, the lemmas say that `WInv` is kept, that each task waits for
what it waited for before, and that a task on its way stays on its way
(`OtherSteady`); for the steps of an object, what they do to the one task they
move (`Enters`, `Returns`, `TimesOut`, `Wakes`, `DeleteSteady`) and what
enqueueing and unlinking do to a queue (`ListsAppend`, `ListsUnqueue`,
`ListsTail`). `WindowsClosed`, only the running task is in its window, is kept
where `TickInWindow = FALSE` (`WindowsSteady`). `Takers` are the tasks on their
way; three lemmas say how a step changes their number. `WaitOnTime`, `WakingOnTime`
and `TimeoutOnTime` carry `OnTime` through calls, wake-ups and timeouts; with
`NoWrap` each of the three objects has a theorem on `NoOverdueSleeper`.

**Mutex** (`MutexProofs`), for any number of tasks, priorities and mutexes.
`MutualExclusionHolds` and `BoostAlwaysEnds` need none of the restrictions of the
run: ownership changes only by a step of the owner or when nobody owns the mutex,
and a task is boosted only while it owns one. The other theorems assume
`Restricted`, that is `TickInWindow = FALSE` and `UnlockBoosted = FALSE`, as they
or parts of `MInv` fail without. `MInv` is `WInv` with `WindowsClosed`,
`MutexQueuesExact` and `OwnerComes`. The parts need each other: a handover puts
its target into a ring, which is right only if the target was blocked and in no
ring, which it was because queues are exact; queues stay exact because a timeout
finds the mutex a task waits for in `block_object`. `RebucketRings` shows that a
boost moves its task from ring to ring. Theorems: `MutexTypesKept`,
`WaitQueuesExact`, `HandoverReachesItsTask`, `RingsExactUnderInheritance`, and,
under `NoWrap`, `LockTimeoutsInTime`, whose `NoOverdueSleeper` the run does not
list (TLC finds no error on its instance). `InheritanceHolds` assumes in addition
that there is one mutex, as `mutex_unlock` drops every boost:
`_min_wait_priority_value` is a lower bound of the waiters (`MinWaitFound`),
`_wait_pop_highest` hands the mutex to a least one (`HighestFound`), and the
waiters only become fewer between (`FewerWaiters`).

**Semaphore** (`SemaphoreProofs`), for any number of waiters and posters and any
maximum. `Restricted` says that no poster runs in a window: `TickInWindow = FALSE`,
or every waiter is more urgent than every poster (`WaitersFirst`), which is the
case of the run and of `tests/test_semaphore.c`. `SInv` is `WInv` with
`MostUrgentRuns`, `WaitQueueExact`, and that tasks keep to their roles and
priorities. A post puts a waiter into a ring; it was in none, either because
windows are closed or because `MostUrgentRuns` leaves no runnable waiter while a
poster runs (`PosterAlone`). Theorems: `SemTypesKept`, `WaitQueueStaysExact`,
`SemaphoreScheduling`, `SemaphoreTimeoutsInTime`. `NoWakeupLost` proves
`TokensHaveTakers` in the same induction, by the number of takers: a post adds one
token and one taker, a waiter that takes a token is one taker less. It assumes
`WaitersFirst`, where a woken task runs before anybody can delete it, or that no
task is deleted; otherwise it fails (see the restrictions above).

**Heap** (first part of `TaskMemoryProofs`). The invariant is the conjunction of the four properties
of the heap that `task_memory` checks. Splitting and merging are shown to keep a tiling of the pool
(`TilingSplit`, `TilingMerge`), taking from and adding to the list to keep it
free of repetitions. Theorems: `HeapTypeCorrect`, `HeapAlwaysPartitioned`,
`RoomIsKept`, `CoalescePassIsComplete`. `HeapAssumption` leaves out requests
within 15 bytes of the top of `size_t`, for which the rounding wraps.

**Memory of tasks** (`TaskMemoryProofs`). The invariant is that of the heap,
the types, `MemoryAccounted`, `CanaryTells` and what is known at each place of a
call. A block is either free or has one owner, so a header written by the heap
lies in no stack, a frame in no other block than its own, and the frame does not
reach down to the canary because `RTOS_MIN_STACK_SIZE` is larger than the frame.
The steps of the heap are those of the first part. Theorems:
`MemoryAlwaysAccounted`, `CanariesAlwaysTell`, `HeapPartitionedUnderTasks`, and
`MemTypesKept`, which includes that the registry does not overflow: its invariant
`RegInv` says that a call of `task_create` that has passed the test still finds
room at its end, as calls come one at a time.

**Message queue** (`MsgQueueProofs`). `MsgImplementsFifo` shows that `MsgQueue`
with the kernel around it implements `Fifo`, with the slots from `head` on, as
many as `count` says, as the contents. The invariant is
`tail = (head + count) % Depth`; the lemmas on `%` say that an index that passes
the last slot once is wrapped by a subtraction, and that indices less than a
round apart are different slots, so that a send overwrites no message under way.
Every other step leaves the slots alone (`StepKinds`), whatever it does to tasks.
This theorem has none of the restrictions of the run.

The other theorems on the message queue assume `TickInWindow = FALSE`. `QInv` is
`WInv` with `MostUrgentRuns`, `WindowsClosed` and, for each of the two queues
(`Ways`), that it lists exactly its waiters. Sending and receiving are one
argument: `Line`, `Party` and `Open` are the queue, the tasks and the free slots or
messages of one side, and each step takes a place on its own side and opens one on
the other. Theorems: `MsgTypesKept`, `MsgQueuesStayExact`, `MsgScheduling`,
`MsgTimeoutsInTime`.
`NoMsgWakeupLost` proves `MsgWakeups` by the number of tasks on their way, and
assumes in addition that no task is deleted: TLC finds, with three senders and one
slot, that a sender deletes another that was woken, and the free slot lies beside
a third that sleeps on. In the run, with two senders, that does not come about.

**Timers** (`SwTimerProofs`), for any number of timers and any delays, under the
restrictions of `sw_timer`: `Orderly` (starts and stops in `main()` and in callbacks
for other timers only) and `NoWrap`. A list is a `Chain`: the walk from the head
meets each member from one place, and every set closed under `next` that has the
head contains them all; so, as for the rings, no induction over data is needed.
Lemmas: insertion, removal, and taking the head keep a chain. `TInv` says that the
list is a sorted chain of the timers that are active and not in the hands of an
operation (`Linked`), what the local variables of an operation under way mean
(`OpOK`: `prev` and `curr` are neighbours, what a stop seeks is still ahead), and
that `expiry_tick` is as far ahead of the counter as the timer has time left
(`OnTime`). Theorems: `SwTimerTypesKept`, `TimerListStaysExact`,
`TimersFireOnTime`, and of the action property `StopTakesEffect`,
`StopsTakeEffect`.

## Only model-checked

* Liveness (`RoundRobin`, `SleeperWakes`, `LockGranted`): outside what TLAPS
  proves.
* `TokensHaveTakers` and `MsgWakeups` where a task may be deleted, but for the
  case of `WaitersFirst`.
* `MostUrgentRuns` of `Mutex` is neither checked nor proved: it can fail in the
  window. With several mutexes the owner that a caller boosts may become more
  urgent than the caller, who runs until it blocks.

## Not modelled

* `task_create` at run time, as far as it changes rings and registry with
  interrupts on: the rings of `ReadyRing` change in one step. Every example and
  test creates its tasks before `rtos_start`. What it does to memory is in
  `TaskMemory`.
* Deletion of a task that owns a mutex. The code has no rule for it: the mutex
  keeps a pointer to a freed TCB.
* Two callers inside the heap at once; `heap.c` masks no interrupts.
* What a task overwrites beyond its canary.
* `examples/mutex_demo`, `examples/sched_demo` and the tests as closed
  applications. The demo's low task unlocks while boosted, which is
  `mutex_rebucket`.
* Saving and restoring registers, clock and NVIC set-up, start-up code, system
  calls and console: input and output, or register traffic without control.

## Open

`ReadyRing` in single loads and stores, for `task_create` at run time.

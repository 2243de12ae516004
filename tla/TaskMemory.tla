------------------------------- MODULE TaskMemory -------------------------------
(***************************************************************************)
(* The memory of tasks: task_init, task_create and task_delete of          *)
(* src/core/task.c with the heap they take TCBs and stacks from, and the   *)
(* canaries that rtos_stack_check_all looks at in every SysTick.           *)
(*                                                                         *)
(* A task is its TCB, that is, a block of the heap: memory is used again,  *)
(* and a later task may have the TCB of an earlier one.  Tasks are created *)
(* and deleted at any time, one call at a time; the application may use    *)
(* the heap between the calls.  task_create runs with interrupts on, so    *)
(* SysTick and the task it has just made ready may come in between its     *)
(* steps; task_delete runs with interrupts off.  Ready rings and the order *)
(* of the registry are left to Kernel.                                     *)
(***************************************************************************)
EXTENDS Heap

CONSTANTS
  NULL,
  TcbBytes,               \* sizeof(TCB_t)
  StackBytes,             \* stack sizes given to task_create
  FrameUnits,             \* 8 in the code: the 16 words of _build_initial_stack
  RTOS_MIN_STACK_SIZE,
  RTOS_MAX_TASKS

\* stack_size after task_create has rounded it up.
Rounded(n) == 8 * ((n + 7) \div 8)

ASSUME TaskMemoryAssumption ==
  /\ NULL \notin Addr
  /\ FrameUnits \in Nat /\ RTOS_MIN_STACK_SIZE \in Nat /\ RTOS_MAX_TASKS \in Nat \ {0}
  /\ 8 * FrameUnits < RTOS_MIN_STACK_SIZE
  /\ StackBytes \subseteq Nat
  /\ TcbBytes \in Request
  /\ \A n \in StackBytes : n >= RTOS_MIN_STACK_SIZE => Rounded(n) \in Request

VARIABLES
  idle_tcb,               \* NULL before task_init; its stack is not in the heap
  registry,               \* the tasks of task_registry, the idle task aside
  ready,                  \* tasks that were given to the scheduler
  stack_base,             \* TCB::stack_base: the block of the stack
  canary,                 \* the units of the pool that begin with RTOS_STACK_CANARY
  app,                    \* blocks the application has from heap_alloc
  job,                    \* the call of task_create or task_delete under way
  halted,                 \* rtos_stack_check_all has found a broken canary
  overrun                 \* tasks that have used up their stack (history variable)

heapVars == <<free_list, size, walk, held, asked>>
taskVars == <<idle_tcb, registry, ready, stack_base>>
memVars == <<heapVars, taskVars, canary, app, job, halted, overrun>>

NoJob == [at |-> "none", tcb |-> NULL, stk |-> NULL, bytes |-> 0]
At(place) == job.at = place /\ walk = 0 /\ ~halted

\* What a block gives its owner begins behind the header.
Base(t) == stack_base[t] + HeaderUnits

MemInit ==
  /\ Init
  /\ idle_tcb = NULL /\ registry = {} /\ ready = {}
  /\ stack_base = [a \in Addr |-> NULL]
  /\ canary = {}
  /\ app = {}
  /\ job = [NoJob EXCEPT !.at = "init"]
  /\ halted = FALSE
  /\ overrun = {}

-----------------------------------------------------------------------------
(* What a call of the heap does to the memory, and what it returns. *)

\* The first word of a header is a size, so no header is a canary.
HeadersWritten == canary' = canary \ (Free' \cup held')

Allocates(n) == heap_alloc(n) /\ HeadersWritten
Allocated == CHOOSE b \in held' : b \notin held
AllocFails(n) == Fitting(n) = {} /\ UNCHANGED <<heapVars, canary>>

\* heap_free(NULL) returns at once.
Frees(b) == IF b = NULL THEN UNCHANGED <<heapVars, canary>> ELSE heap_free(b) /\ HeadersWritten

\* The loop of _coalesce_forward, whoever is in it.
Coalesce ==
  /\ ~halted
  /\ CoalesceMerge \/ CoalesceNext \/ CoalesceDone
  /\ HeadersWritten
  /\ UNCHANGED <<taskVars, app, job, halted, overrun>>

AppAlloc(n) ==
  /\ At("none")
  /\ Allocates(n)
  /\ app' = app \cup {Allocated}
  /\ UNCHANGED <<taskVars, job, halted, overrun>>

AppFree(b) ==
  /\ At("none") /\ b \in app
  /\ Frees(b)
  /\ app' = app \ {b}
  /\ UNCHANGED <<taskVars, job, halted, overrun>>

-----------------------------------------------------------------------------
(* task_init; without memory main() stops *)

TaskInit ==
  /\ At("init")
  /\ Allocates(TcbBytes)
  /\ idle_tcb' = Allocated
  /\ job' = NoJob
  /\ UNCHANGED <<registry, ready, stack_base, app, halted, overrun>>

-----------------------------------------------------------------------------
(* task_create *)

\* The tests at the top; a call that fails them returns NULL.
TaskCreate(n) ==
  /\ At("none")
  /\ n >= RTOS_MIN_STACK_SIZE
  /\ Cardinality(registry) + 1 < RTOS_MAX_TASKS
  /\ job' = [NoJob EXCEPT !.at = "tcb", !.bytes = Rounded(n)]
  /\ UNCHANGED <<heapVars, taskVars, canary, app, halted, overrun>>

CreateTcb ==
  /\ At("tcb")
  /\ \/ Allocates(TcbBytes) /\ job' = [job EXCEPT !.at = "stack", !.tcb = Allocated]
     \/ AllocFails(TcbBytes) /\ job' = [job EXCEPT !.at = "stack"]
  /\ UNCHANGED <<taskVars, app, halted, overrun>>

\* Both are asked for, also when there is no TCB.
CreateStack ==
  /\ At("stack")
  /\ \/ /\ Allocates(job.bytes)
        /\ job' = [job EXCEPT !.at = IF job.tcb = NULL THEN "undo_tcb" ELSE "build",
                              !.stk = Allocated]
     \/ AllocFails(job.bytes) /\ job' = [job EXCEPT !.at = "undo_tcb"]
  /\ UNCHANGED <<taskVars, app, halted, overrun>>

\* Mutant: the test looks at the stack only, and the TCB is forgotten.
UndoTcbKeeps ==
  /\ At("undo_tcb")
  /\ job' = [job EXCEPT !.at = "undo_stack", !.tcb = NULL]
  /\ UNCHANGED <<heapVars, canary, taskVars, app, halted, overrun>>

UndoTcb ==
  /\ At("undo_tcb")
  /\ Frees(job.tcb)
  /\ job' = [job EXCEPT !.at = "undo_stack", !.tcb = NULL]
  /\ UNCHANGED <<taskVars, app, halted, overrun>>

UndoStack ==
  /\ At("undo_stack")
  /\ Frees(job.stk)
  /\ job' = NoJob
  /\ UNCHANGED <<taskVars, app, halted, overrun>>

\* Mutant: the initial frame is built from the low end of the stack.
FrameLow(b) == b + HeaderUnits .. b + HeaderUnits + FrameUnits - 1

\* _build_initial_stack: the units at the high end.
Frame(b) == b + HeaderUnits + job.bytes \div 8 - FrameUnits .. b + HeaderUnits + job.bytes \div 8 - 1

\* memset of the TCB
Cleared(b) == b + HeaderUnits .. b + HeaderUnits + (TcbBytes - 1) \div 8

\* The TCB is cleared and filled in, the canary is written, then the frame.
Build ==
  /\ At("build")
  /\ stack_base' = [stack_base EXCEPT ![job.tcb] = job.stk]
  /\ canary' = ((canary \ Cleared(job.tcb)) \cup {job.stk + HeaderUnits}) \ Frame(job.stk)
  /\ job' = [job EXCEPT !.at = "add"]
  /\ UNCHANGED <<heapVars, idle_tcb, registry, ready, app, halted, overrun>>

\* scheduler_add_task: from here on the task may run.
CreateAdd ==
  /\ At("add")
  /\ ready' = ready \cup {job.tcb}
  /\ job' = [job EXCEPT !.at = "register"]
  /\ UNCHANGED <<heapVars, canary, idle_tcb, registry, stack_base, app, halted, overrun>>

\* _registry_add
CreateRegister ==
  /\ At("register")
  /\ registry' = registry \cup {job.tcb}
  /\ job' = NoJob
  /\ UNCHANGED <<heapVars, canary, idle_tcb, ready, stack_base, app, halted, overrun>>

-----------------------------------------------------------------------------
(* task_delete, with interrupts off from its first step to its last *)

TaskDelete(t) ==
  /\ At("none")
  /\ ready' = ready \ {t} /\ registry' = registry \ {t}
  /\ overrun' = overrun \ {t}
  /\ job' = [NoJob EXCEPT !.at = "free_stack", !.tcb = t, !.stk = stack_base[t]]
  /\ UNCHANGED <<heapVars, canary, idle_tcb, stack_base, app, halted>>

DeleteStack ==
  /\ At("free_stack")
  /\ Frees(job.stk)
  /\ job' = [job EXCEPT !.at = "free_tcb", !.stk = NULL]
  /\ UNCHANGED <<taskVars, app, halted, overrun>>

DeleteTcb ==
  /\ At("free_tcb")
  /\ Frees(job.tcb)
  /\ job' = [NoJob EXCEPT !.at = "leave"]
  /\ UNCHANGED <<taskVars, app, halted, overrun>>

DeleteLeave ==
  /\ At("leave")
  /\ job' = NoJob
  /\ UNCHANGED <<heapVars, canary, taskVars, app, halted, overrun>>

-----------------------------------------------------------------------------
(* What may come in between: SysTick, and the tasks themselves *)

Masked == job.at \in {"free_stack", "free_tcb", "leave"}

\* A task fills its stack to the last word, where the canary is.  (What it
\* would overwrite beyond that word is not modelled.)
Overrun(t) ==
  /\ ~halted /\ ~Masked /\ t \in ready
  /\ canary' = canary \ {Base(t)}
  /\ overrun' = overrun \cup {t}
  /\ UNCHANGED <<heapVars, taskVars, app, job, halted>>

\* rtos_stack_check_all, in SysTick: it never returns once it has found one.
StackCheck ==
  /\ ~halted /\ ~Masked
  /\ halted' = \E t \in registry : Base(t) \notin canary
  /\ UNCHANGED <<heapVars, taskVars, canary, app, job, overrun>>

-----------------------------------------------------------------------------
MemNext ==
  \/ Coalesce \/ TaskInit
  \/ \E n \in Request : AppAlloc(n)
  \/ \E b \in Addr : AppFree(b)
  \/ \E n \in StackBytes : TaskCreate(n)
  \/ CreateTcb \/ CreateStack \/ UndoTcb \/ UndoStack \/ Build \/ CreateAdd \/ CreateRegister
  \/ \E t \in registry : TaskDelete(t)
  \/ DeleteStack \/ DeleteTcb \/ DeleteLeave
  \/ \E t \in Addr : Overrun(t)
  \/ StackCheck

MemSpec == MemInit /\ [][MemNext]_memVars

-----------------------------------------------------------------------------
(* Correctness *)

Place == {"none", "init", "tcb", "stack", "undo_tcb", "undo_stack", "build", "add",
          "register", "free_stack", "free_tcb", "leave"}

MemTypeOK ==
  /\ TypeOK
  /\ idle_tcb \in Addr \cup {NULL}
  /\ registry \subseteq ready /\ ready \subseteq Addr
  /\ Cardinality(registry) < RTOS_MAX_TASKS
  /\ stack_base \in [Addr -> Addr \cup {NULL}]
  /\ canary \subseteq Addr /\ app \subseteq Addr
  /\ job \in [at : Place, tcb : Addr \cup {NULL}, stk : Addr \cup {NULL},
              bytes : Request \cup {0}]
  /\ halted \in BOOLEAN
  /\ overrun \subseteq ready

\* Blocks of a call under way that no task has.
Pending == IF job.at = "register" THEN {} ELSE {job.tcb, job.stk} \ {NULL}
Stacks == {stack_base[t] : t \in ready}

\* Every block that heap_alloc has given out has exactly one owner: the idle task,
\* a task (its TCB or its stack), the application, or the call under way.  So a
\* task_create that fails half-way, or a task_delete, leaves nothing behind and
\* gives nothing back twice, and no two tasks share memory.
MemoryAccounted ==
  /\ held = ({idle_tcb} \ {NULL}) \cup ready \cup Stacks \cup app \cup Pending
  /\ \A t, u \in ready : stack_base[t] = stack_base[u] => t = u
  /\ ready \cap Stacks = {} /\ (ready \cup Stacks) \cap (app \cup Pending) = {}
  /\ app \cap Pending = {} /\ idle_tcb \notin ready \cup Stacks \cup app \cup Pending
  /\ job.tcb # NULL => job.tcb # job.stk

\* A canary tells the truth: it is gone exactly if its task has used up its stack.
\* Memory that is used again, headers that are written into it, a frame or another
\* task's TCB neither break nor mend it, and SysTick halts the system
\* (rtos_stack_check_all) for no other reason.
CanaryTells ==
  /\ \A t \in ready : Base(t) \in canary <=> t \notin overrun
  /\ halted => registry \cap overrun # {}
=============================================================================

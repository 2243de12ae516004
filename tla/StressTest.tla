------------------------------ MODULE StressTest ------------------------------
(***************************************************************************)
(* examples/stress_test/main.c: tasks that contend for one mutex for ever. *)
(* The application of Mutex is closed here: every task runs stress_body,   *)
(* so what its tasks do next is known, and what must happen in the end can *)
(* be asked.                                                               *)
(***************************************************************************)
EXTENDS Mutex

CONSTANTS
  Id,                     \* task_id of every task
  StressPriority          \* the priority main() gives it

ASSUME StressAssumption ==
  /\ \E m \in Object : Object = {m}
  /\ Id \in [User -> 0 .. 9] /\ StressPriority \in [User -> Priority]
  /\ \A t, u \in User : Id[t] = Id[u] => t = u
  /\ \A t \in User : 1 + (Id[t] % 5) \in Ticks

VARIABLES
  call                    \* the call of stress_body a task makes next

stressVars == <<allVars, call>>

g_contended_mutex == CHOOSE m \in Object : TRUE

StressInit == MutexInit /\ call = [t \in User |-> "lock"]

\* main() creates the tasks one by one and starts the kernel when it has them all.
StressCreate(t) ==
  /\ \A u \in User : Id[u] < Id[t] => state[u] # "UNUSED"
  /\ MutexTaskCreate(t, StressPriority[t])
  /\ UNCHANGED call

StressStart ==
  /\ \A t \in User : state[t] # "UNUSED"
  /\ RtosStart
  /\ UNCHANGED <<waitVars, mutexVars, call>>

Turn(t, from, to) == call[t] = from /\ call' = [call EXCEPT ![t] = to]

\* mutex_unlock, after the work on g_mutex_acquisition_count and the loop.
BodyUnlock(t) ==
  /\ Turn(t, "unlock", "delay")
  /\ UnlockFree(t, g_contended_mutex) \/ UnlockHandOver(t, g_contended_mutex)

\* The loop of stress_body.
StressBody(t) ==
  \/ Turn(t, "lock", "unlock") /\ MutexLock(t, g_contended_mutex, 0)
  \/ BodyUnlock(t)
  \/ /\ Turn(t, "delay", "lock") /\ TaskDelay(t, 1 + (Id[t] % 5))
     /\ UNCHANGED <<waitVars, mutexVars>>

\* The task is inside a call: the steps of mutex_lock, mutex_unlock and task_delay.
InCall(t) ==
  /\ \/ LockTake(t) \/ LockWait(t)
     \/ /\ \/ WaitBlockStore(t) \/ Unblocked(t) \/ Posted(t)
           \/ (BlockCommit(t) \/ BlockMark(t) \/ DelayReturn(t)) /\ UNCHANGED waitVars
        /\ UNCHANGED mutexVars
  /\ UNCHANGED call

Task_(t) == ~ready.stuck /\ (StressBody(t) \/ InCall(t))

\* No mutex_lock has a timeout, so mutex_wake_timeout is never called.
SysTick ==
  /\ ~ready.stuck
  /\ (TickAllowed /\ rtos_tick_increment) \/ WakeSkip \/ WakeDelay \/ SysTickReturn
  /\ UNCHANGED <<waitVars, mutexVars, call>>

Switch ==
  /\ ~ready.stuck
  /\ SVC_Handler \/ PendSV_Handler
  /\ UNCHANGED <<waitVars, mutexVars, call>>

StressNext ==
  \/ \E t \in User : StressCreate(t) \/ Task_(t)
  \/ StressStart \/ SysTick \/ Switch

(***************************************************************************)
(* Fairness, as in Kernel.  Every loop of stress_body is finite, so a task *)
(* that is given the CPU again and again goes on.                          *)
(***************************************************************************)
StressSpec ==
  /\ StressInit /\ [][StressNext]_stressVars
  /\ WF_stressVars(SysTick) /\ SF_stressVars(Switch)
  /\ \A t \in User : SF_stressVars(Task_(t))

-----------------------------------------------------------------------------
(* Correctness *)

Locking(t) == req[t].reason = "MUTEX"

\* Every call of mutex_lock is granted in the end, however often the others take
\* the mutex again: "all entries should advance if the system remains fair and live"
\* (examples/stress_test/main.c, of g_mutex_acquisition_count).
LockGranted ==
  \A t \in User : Locking(t) ~> g_contended_mutex \in holds[t]
=============================================================================

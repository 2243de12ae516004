------------------------------- MODULE Semaphore -------------------------------
(***************************************************************************)
(* A counting semaphore, src/sync/semaphore.c: semaphore_wait and          *)
(* semaphore_post by the tasks of Kernel, the BLOCK_SEMAPHORE branches of  *)
(* rtos_wake_delayed and of task_delete.                                   *)
(***************************************************************************)
EXTENDS Waiting

CONSTANTS
  Sem,                    \* the semaphore
  SemInitial, SemMax,     \* arguments of semaphore_init
  Waiter, Poster,         \* the tasks that wait, that post and delete
  WaiterPriority, PosterPriority

ASSUME SemaphoreAssumption ==
  /\ Object = {Sem} /\ IsFiniteSet(Task)
  /\ SemMax \in Nat \ {0} /\ SemInitial \in 0 .. SemMax
  /\ Waiter \subseteq User /\ Poster \subseteq User
  /\ WaiterPriority \subseteq Priority /\ PosterPriority \subseteq Priority

VARIABLES
  count,                  \* semaphore_t::count
  waiters                 \* wait_head, wait_tail and TCB::mutex_wait_next

semVars == <<count, waiters>>
allVars == <<vars, waitVars, semVars>>

\* semaphore_init after task_init.
SemInit == WaitInit /\ count = SemInitial /\ waiters = <<>>

-----------------------------------------------------------------------------
(* semaphore_wait *)

SemWait(c, n) ==
  /\ c \in Waiter
  /\ CallWait(c, "SEMAPHORE", Sem, n)
  /\ UNCHANGED semVars

\* A token is there: semaphore_wait takes it and returns RTOS_OK.
SemTake(c) ==
  /\ AtTry(c, "SEMAPHORE") /\ count > 0
  /\ count' = count - 1
  /\ CallReturn(c)
  /\ UNCHANGED <<ready, tcbVars, registry, tick, cpuVars, waiters, block_object,
                 block_wake_status>>

\* _wait_enqueue; rtos_block_current is called with interrupts on again.
SemEnqueue(c) ==
  /\ AtTry(c, "SEMAPHORE") /\ count = 0
  /\ waiters' = Enqueued(waiters, c)
  /\ pc' = [pc EXCEPT ![c] = "enter"]
  /\ UNCHANGED <<ready, tcbVars, registry, tick, cpuVars, req, waitVars, count>>

-----------------------------------------------------------------------------
(* semaphore_post; RTOS_ERR_FULL is returned with nothing changed *)

\* Mutant: the limit is not looked at.
SemPostUnchecked(c) ==
  /\ InApp(c) /\ c \in Poster
  /\ waiters = <<>>
  /\ count' = count + 1
  /\ pc' = [pc EXCEPT ![c] = "posted"]
  /\ UNCHANGED <<ready, tcbVars, registry, tick, cpuVars, req, waitVars, waiters>>

\* Nobody waits.
SemPostFree(c) ==
  /\ InApp(c) /\ c \in Poster /\ count < SemMax
  /\ waiters = <<>>
  /\ count' = count + 1
  /\ pc' = [pc EXCEPT ![c] = "posted"]
  /\ UNCHANGED <<ready, tcbVars, registry, tick, cpuVars, req, waitVars, waiters>>

\* Mutant: no reschedule is requested.
SemPostWakeQuietly(c) ==
  /\ InApp(c) /\ c \in Poster /\ count < SemMax
  /\ waiters # <<>>
  /\ count' = count + 1
  /\ waiters' = Tail(waiters)
  /\ MakeReady(Head(waiters), ready)
  /\ UNCHANGED <<prio_bucket, wake_time, time_slice_counter, registry, tick, cpuVars, pc,
                 req, block_wake_status, object>>

\* The first waiter is made READY; it has to take the token itself.
SemPostWake(c) ==
  /\ InApp(c) /\ c \in Poster /\ count < SemMax
  /\ waiters # <<>>
  /\ count' = count + 1
  /\ waiters' = Tail(waiters)
  /\ MakeReady(Head(waiters), ready)
  /\ pc' = [pc EXCEPT ![c] = "posted"]
  /\ UNCHANGED <<prio_bucket, wake_time, time_slice_counter, registry, tick, cpuVars, req,
                 block_wake_status, object>>

-----------------------------------------------------------------------------
(* Timeouts and deletion *)

\* Mutant: the task that timed out stays in the wait queue.
WakeSemaphoreLinked == WakeTimeout /\ UNCHANGED semVars

\* rtos_wake_delayed: semaphore_wake_timeout.
WakeSemaphore ==
  /\ WakeTimeout
  /\ waiters' = IF block_object[Scanned] # NULL THEN Unqueue(waiters, Scanned) ELSE waiters
  /\ UNCHANGED count

\* task_delete: a BLOCKED task leaves its wait queue.
SemTaskDelete(c, t) ==
  /\ c \in Poster
  /\ WaitTaskDelete(c, t)
  /\ waiters' = IF state[t] = "BLOCKED" /\ block_reason[t] = "SEMAPHORE"
                THEN Unqueue(waiters, t) ELSE waiters
  /\ UNCHANGED count

-----------------------------------------------------------------------------
SemTaskCreate ==
  /\ \/ \E t \in Waiter, p \in WaiterPriority : TaskCreate(t, p)
     \/ \E t \in Poster, p \in PosterPriority : TaskCreate(t, p)
  /\ UNCHANGED waitVars

SemStep ==
  \/ WakeSemaphore
  \/ \E c \in User :
       \/ \E n \in Ticks \cup {0} : SemWait(c, n)
       \/ SemTake(c) \/ SemEnqueue(c) \/ SemPostFree(c) \/ SemPostWake(c)
       \/ \E t \in User : SemTaskDelete(c, t)

OtherStep == KernelStep \/ SemTaskCreate \/ WaitStep \/ \E c \in User : Posted(c)

SemNext == ~ready.stuck /\ (SemStep \/ (OtherStep /\ UNCHANGED semVars))

SemSpec == SemInit /\ [][SemNext]_allVars

-----------------------------------------------------------------------------
(* Correctness *)

SemTypeOK == WaitTypeOK /\ count \in 0 .. SemMax /\ waiters \in Seq(Waiter)

\* The wait queue holds each task that waits once, and no other: a post, a
\* timeout or a task_delete takes the task off, a new wait puts it on.
WaitQueueExact == QueueExact(waiters, "SEMAPHORE", Sem)

\* No wakeup is lost: while tasks are queued, every token that is there has a
\* task on its way that was woken for it or has come for it.
TokensHaveTakers ==
  waiters # <<>> => count <= Cardinality({t \in Task : OnItsWay(t, "SEMAPHORE", Sem)})
=============================================================================

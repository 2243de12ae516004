--------------------------------- MODULE Mutex ---------------------------------
(***************************************************************************)
(* Mutexes with priority inheritance, src/sync/mutex.c, and                *)
(* scheduler_rebucket_task of scheduler.c, used by the tasks of Kernel.    *)
(* mutex_unlock hands the mutex to the most urgent waiter, which is its    *)
(* owner from then on and finds that out when it goes round the loop of    *)
(* mutex_lock.  m->locked is owner # NULL.                                 *)
(***************************************************************************)
EXTENDS Waiting

CONSTANTS
  UnlockBoosted           \* FALSE: behaviours in which no task calls mutex_unlock
                          \* while it is boosted into another bucket

ASSUME MutexAssumption == UnlockBoosted \in BOOLEAN

VARIABLES
  owner,                  \* mutex_t::owner
  queue,                  \* wait_head, wait_tail and TCB::mutex_wait_next
  priority,               \* TCB::priority; smaller is more urgent
  base_priority,          \* TCB::base_priority
  holds                   \* mutexes for which mutex_lock has returned RTOS_OK
                          \* and mutex_unlock was not called (history variable)

mutexVars == <<owner, queue, priority, base_priority, holds>>
allVars == <<vars, waitVars, mutexVars>>

\* mutex_init after task_init; the idle task has RTOS_PRIORITY_MAX.
MutexInit ==
  /\ WaitInit
  /\ owner = [m \in Object |-> NULL]
  /\ queue = [m \in Object |-> <<>>]
  /\ priority = [t \in Task |-> 255]
  /\ base_priority = [t \in Task |-> 255]
  /\ holds = [t \in Task |-> {}]

MutexTaskCreate(t, p) ==
  /\ TaskCreate(t, p)
  /\ priority' = [priority EXCEPT ![t] = p]
  /\ base_priority' = [base_priority EXCEPT ![t] = p]
  /\ UNCHANGED <<waitVars, owner, queue, holds>>

-----------------------------------------------------------------------------
(* Helpers *)

\* Mutant: the task is not moved.
RebucketedStays(t, new) == ready

\* scheduler_rebucket_task: the ready rings after it.
Rebucketed(t, new) ==
  IF new # prio_bucket[t] /\ state[t] = "READY"
  THEN RingInsert(RingRemove(ready, prio_bucket[t], t), new, t)
  ELSE ready

\* Mutant: only the first waiter is looked at.
MinWaitPriorityFirst(q) == priority[q[1]]

\* _min_wait_priority_value of a queue that is not empty.
MinWaitPriority(q) ==
  CHOOSE p \in {priority[t] : t \in Members(q)} : \A t \in Members(q) : p <= priority[t]

\* Mutant: the owner is made more urgent than the waiter.
ApplyPIAbove(o, q) ==
  LET hp == MinWaitPriority(q)
  IN  IF hp < priority[o]
      THEN /\ priority' = [priority EXCEPT ![o] = hp - 1]
           /\ prio_bucket' = [prio_bucket EXCEPT ![o] = PrioBucket(hp)]
           /\ ready' = Rebucketed(o, PrioBucket(hp))
      ELSE UNCHANGED <<priority, prio_bucket, ready>>

\* _apply_pi: the owner inherits the priority of the most urgent waiter.
ApplyPI(o, q) ==
  LET hp == MinWaitPriority(q)
  IN  IF hp < priority[o]
      THEN /\ priority' = [priority EXCEPT ![o] = hp]
           /\ prio_bucket' = [prio_bucket EXCEPT ![o] = PrioBucket(hp)]
           /\ ready' = Rebucketed(o, PrioBucket(hp))
      ELSE UNCHANGED <<priority, prio_bucket, ready>>

\* _wait_pop_highest: the first of the most urgent waiters.
Highest(q) ==
  q[CHOOSE i \in 1 .. Len(q) :
      \A j \in 1 .. Len(q) : \/ priority[q[i]] < priority[q[j]]
                             \/ priority[q[i]] = priority[q[j]] /\ i <= j]

-----------------------------------------------------------------------------
(* mutex_lock *)

MutexLock(c, m, n) == CallWait(c, "MUTEX", m, n) /\ UNCHANGED mutexVars

\* Mutant: m->locked is not looked at.
LockTakeAny(c) ==
  /\ AtTry(c, "MUTEX")
  /\ owner' = [owner EXCEPT ![object[c]] = c]
  /\ holds' = [holds EXCEPT ![c] = @ \cup {object[c]}]
  /\ CallReturn(c)
  /\ UNCHANGED <<ready, tcbVars, registry, tick, cpuVars, block_object, block_wake_status,
                 queue, priority, base_priority>>

\* The mutex is free, or it is the caller's already: it was handed over, or
\* the caller locks it a second time.
LockTake(c) ==
  /\ AtTry(c, "MUTEX") /\ owner[object[c]] \in {NULL, c}
  /\ owner' = [owner EXCEPT ![object[c]] = c]
  /\ holds' = [holds EXCEPT ![c] = @ \cup {object[c]}]
  /\ CallReturn(c)
  /\ UNCHANGED <<ready, tcbVars, registry, tick, cpuVars, block_object, block_wake_status,
                 queue, priority, base_priority>>

\* _wait_enqueue_tail and _apply_pi.
LockWait(c) ==
  LET m == object[c]
      q == Enqueued(queue[m], c)
  IN  /\ AtTry(c, "MUTEX") /\ owner[m] \notin {NULL, c}
      /\ queue' = [queue EXCEPT ![m] = q]
      /\ ApplyPI(owner[m], q)
      /\ pc' = [pc EXCEPT ![c] = "enter"]
      /\ UNCHANGED <<state, wake_time, block_reason, time_slice_counter, registry, tick,
                     cpuVars, req, waitVars, owner, base_priority, holds>>

-----------------------------------------------------------------------------
(* mutex_unlock; a caller that is not the owner gets RTOS_ERR_OWNER *)

\* Mutant: the priority stays as it is.
RestoredBoost(c) == priority[c]

\* What _restore_owner_priority makes of the caller's priority.
Restored(c) == base_priority[c]

\* _restore_owner_priority: the caller is RUNNING, so scheduler_rebucket_task
\* changes prio_bucket and no ring.
Unlock(c, m) ==
  /\ InApp(c) /\ owner[m] = c
  /\ UnlockBoosted \/ prio_bucket[c] = PrioBucket(base_priority[c])
  /\ priority' = [priority EXCEPT ![c] = Restored(c)]
  /\ prio_bucket' = [prio_bucket EXCEPT ![c] = PrioBucket(Restored(c))]
  /\ holds' = [holds EXCEPT ![c] = @ \ {m}]
  /\ pc' = [pc EXCEPT ![c] = "posted"]
  /\ UNCHANGED <<wake_time, time_slice_counter, registry, tick, cpuVars, req,
                 block_wake_status, object, base_priority>>

UnlockFree(c, m) ==
  /\ queue[m] = <<>>
  /\ Unlock(c, m)
  /\ owner' = [owner EXCEPT ![m] = NULL]
  /\ ready' = Rebucketed(c, PrioBucket(Restored(c)))
  /\ UNCHANGED <<state, block_reason, block_object, queue>>

UnlockHandOver(c, m) ==
  /\ queue[m] # <<>>
  /\ Unlock(c, m)
  /\ LET w == Highest(queue[m])
     IN  /\ owner' = [owner EXCEPT ![m] = w]
         /\ queue' = [queue EXCEPT ![m] = Unqueue(@, w)]
         /\ MakeReady(w, Rebucketed(c, PrioBucket(Restored(c))))

-----------------------------------------------------------------------------
(* Timeouts and deletion *)

\* Mutant: the task that timed out stays in the wait queue.
WakeMutexLinked == WakeTimeout /\ UNCHANGED mutexVars

\* rtos_wake_delayed: mutex_wake_timeout.  The owner keeps its boost.
WakeMutex ==
  /\ WakeTimeout
  /\ queue' = [m \in Object |-> IF block_object[Scanned] = m THEN Unqueue(queue[m], Scanned)
                                ELSE queue[m]]
  /\ UNCHANGED <<owner, priority, base_priority, holds>>

\* task_delete with mutex_detach_waiter, of a task that owns no mutex: the code
\* would leave m->owner pointing at a TCB it has freed.
MutexTaskDelete(c, t) ==
  /\ \A m \in Object : owner[m] # t
  /\ WaitTaskDelete(c, t)
  /\ queue' = [m \in Object |->
                 IF state[t] = "BLOCKED" /\ block_reason[t] = "MUTEX" /\ block_object[t] = m
                 THEN Unqueue(queue[m], t) ELSE queue[m]]
  /\ UNCHANGED <<owner, priority, base_priority, holds>>

-----------------------------------------------------------------------------
MutexStep ==
  \/ WakeMutex
  \/ \E t \in User, p \in Priority : MutexTaskCreate(t, p)
  \/ \E c \in User :
       \/ \E m \in Object, n \in Ticks \cup {0} : MutexLock(c, m, n)
       \/ \E m \in Object : UnlockFree(c, m) \/ UnlockHandOver(c, m)
       \/ LockTake(c) \/ LockWait(c)
       \/ \E t \in User : MutexTaskDelete(c, t)

OtherStep == KernelStep \/ WaitStep \/ \E c \in User : Posted(c)

MutexNext == ~ready.stuck /\ (MutexStep \/ (OtherStep /\ UNCHANGED mutexVars))

MutexSpec == MutexInit /\ [][MutexNext]_allVars

-----------------------------------------------------------------------------
(* Correctness *)

MutexTypeOK ==
  /\ WaitTypeOK
  /\ owner \in [Object -> Task \cup {NULL}]
  /\ queue \in [Object -> Seq(User)]
  /\ priority \in [Task -> Priority \cup {255}]
  /\ base_priority \in [Task -> Priority \cup {255}]
  /\ holds \in [Task -> SUBSET Object]

\* Mutual exclusion, as the application sees it: a task for which mutex_lock has
\* returned RTOS_OK is the owner until it unlocks, so no other task holds the
\* mutex meanwhile, whatever waits, timeouts and handovers come in between.
MutualExclusion == \A m \in Object, t \in Task : m \in holds[t] => owner[m] = t

\* A mutex is handed only to a task that comes for it: it runs or is going to,
\* and mutex_lock is not going to tell it that its wait has timed out.
OwnerComes ==
  \A m \in Object, t \in Task :
    owner[m] = t /\ m \notin holds[t] => OnItsWay(t, "MUTEX", m)

\* The wait queue of a mutex holds each task that waits for it once, and no other;
\* nobody waits for a mutex that is free.
MutexQueuesExact ==
  \A m \in Object : /\ QueueExact(queue[m], "MUTEX", m)
                    /\ owner[m] = NULL => queue[m] = <<>>

\* Priority inheritance: the owner of a mutex is at least as urgent as every task
\* that waits for it ("full mutex priority inheritance", README.md).
Inherited ==
  \A m \in Object : owner[m] # NULL =>
    \A t \in Members(queue[m]) : priority[owner[m]] <= priority[t]

\* A boost ends with the ownership it was given for.
BoostEnds ==
  \A t \in Task : (\A m \in Object : owner[m] # t) => priority[t] = base_priority[t]
=============================================================================

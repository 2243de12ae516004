-------------------------------- MODULE Waiting --------------------------------
(***************************************************************************)
(* What the mutex, the semaphore and the message queue have in common when *)
(* a task of Kernel has to wait for one of them: the fields of the TCB     *)
(* that rtos_block_current keeps for them, and how a waiter is made READY  *)
(* by another task, by its timeout, or deleted.                            *)
(*                                                                         *)
(* A wait queue is the sequence of the tasks linked by mutex_wait_next.    *)
(* Each of the three enqueues the caller in one interrupt-free section and *)
(* blocks it in another, that of rtos_block_current.  In the window        *)
(* between the two the caller is in the wait queue and still runnable.     *)
(***************************************************************************)
EXTENDS Kernel

CONSTANTS
  Object,                 \* the objects tasks wait for
  TickInWindow            \* FALSE: behaviours with no SysTick in a window

ASSUME WaitingAssumption == TickInWindow \in BOOLEAN /\ NULL \notin Object

VARIABLES
  block_object,           \* TCB::block_object
  block_wake_status,      \* TCB::block_wake_status: "OK" or "TIMEOUT"
  object                  \* the object argument of the call a task is in

waitVars == <<block_object, block_wake_status, object>>

WaitInit ==
  /\ Init
  /\ block_object = [t \in Task |-> NULL]
  /\ block_wake_status = [t \in Task |-> "OK"]
  /\ object = [t \in Task |-> NULL]

WaitTypeOK ==
  /\ TypeOK
  /\ block_object \in [Task -> Object \cup {NULL}]
  /\ block_wake_status \in [Task -> {"OK", "TIMEOUT"}]
  /\ object \in [Task -> Object \cup {NULL}]

\* _wait_enqueue, _wait_enqueue_tail, _tcb_enqueue_tail
Enqueued(q, t) == Append(q, t)

\* _wait_unlink, _tcb_unlink: the entry of t, if it has one
Unqueue(q, t) == RegistryRemove(q, t)

\* The call of a function that may block, up to its first cpsid.
CallWait(c, reason, o, n) ==
  /\ InApp(c)
  /\ pc' = [pc EXCEPT ![c] = "try"]
  /\ req' = [req EXCEPT ![c] = [reason |-> reason, ticks |-> n]]
  /\ object' = [object EXCEPT ![c] = o]
  /\ UNCHANGED <<ready, tcbVars, registry, tick, cpuVars, block_object, block_wake_status>>

\* The call returns to the application, from the place in its loop it is at.
CallReturn(c) ==
  /\ pc' = [pc EXCEPT ![c] = "app"]
  /\ req' = [req EXCEPT ![c] = NoReq]
  /\ object' = [object EXCEPT ![c] = NULL]

AtTry(c, reason) == Executing(c) /\ pc[c] = "try" /\ req[c].reason = reason

\* Mutant: the status of an earlier wait is kept.
WaitBlockStoreStale(c) ==
  /\ BlockStore(c)
  /\ block_object' = [block_object EXCEPT ![c] = object[c]]
  /\ UNCHANGED <<block_wake_status, object>>

\* rtos_block_current before cpsid, with the fields Kernel leaves out.
WaitBlockStore(c) ==
  /\ BlockStore(c)
  /\ block_object' = [block_object EXCEPT ![c] = object[c]]
  /\ block_wake_status' = [block_wake_status EXCEPT ![c] = "OK"]
  /\ UNCHANGED object

\* Mutant: a task that was woken has what it waited for.
UnblockedHolds(c) ==
  /\ Executing(c) /\ pc[c] = "spin" /\ req[c].reason # "DELAY"
  /\ state[c] # "BLOCKED"
  /\ CallReturn(c)
  /\ UNCHANGED <<ready, tcbVars, registry, tick, cpuVars, block_object, block_wake_status>>

\* rtos_block_current returns: RTOS_ERR_TIMEOUT ends the call, anything else
\* sends it round its loop again, with the whole timeout.
Unblocked(c) ==
  /\ Executing(c) /\ pc[c] = "spin" /\ req[c].reason # "DELAY"
  /\ state[c] # "BLOCKED"
  /\ IF block_wake_status[c] = "TIMEOUT"
     THEN CallReturn(c)
     ELSE pc' = [pc EXCEPT ![c] = "try"] /\ UNCHANGED <<req, object>>
  /\ UNCHANGED <<ready, tcbVars, registry, tick, cpuVars, block_object, block_wake_status>>

\* Mutant: the waiter is made READY and not inserted into a ring.
MakeReadyUnlisted(w, r) ==
  /\ block_reason' = [block_reason EXCEPT ![w] = "NONE"]
  /\ block_object' = [block_object EXCEPT ![w] = NULL]
  /\ state' = [state EXCEPT ![w] = "READY"]
  /\ ready' = r

\* A waiter that was taken off its queue is made READY; r is the state of the
\* ready rings it is inserted into.
MakeReady(w, r) ==
  /\ block_reason' = [block_reason EXCEPT ![w] = "NONE"]
  /\ block_object' = [block_object EXCEPT ![w] = NULL]
  /\ state' = [state EXCEPT ![w] = "READY"]
  /\ ready' = RingInsert(r, prio_bucket[w], w)

\* rtos_wake_delayed reaches a task whose wait has lasted too long: the
\* *_wake_timeout functions, but for the wait queue.
WakeTimeout ==
  /\ isr \in 1 .. Len(registry)
  /\ Due(Scanned) /\ block_reason[Scanned] \notin {"NONE", "DELAY"}
  /\ isr' = isr + 1
  /\ MakeReady(Scanned, ready)
  /\ block_wake_status' = [block_wake_status EXCEPT ![Scanned] = "TIMEOUT"]
  /\ UNCHANGED <<prio_bucket, wake_time, time_slice_counter, registry, tick, current_tcb,
                 pendsv, phase, taskVars, object>>

\* scheduler_mark_reschedule after cpsie, the end of a call that woke a task.
Posted(c) ==
  /\ Executing(c) /\ pc[c] = "posted"
  /\ pc' = [pc EXCEPT ![c] = "app"]
  /\ pendsv' = TRUE
  /\ UNCHANGED <<ready, tcbVars, registry, tick, current_tcb, isr, phase, req, waitVars>>

\* task_delete with _detach_blocked_task, but for the wait queue.
WaitTaskDelete(c, t) ==
  /\ TaskDelete(c, t)
  /\ block_object' = IF state[t] = "BLOCKED" THEN [block_object EXCEPT ![t] = NULL]
                     ELSE block_object
  /\ object' = [object EXCEPT ![t] = NULL]
  /\ UNCHANGED block_wake_status

-----------------------------------------------------------------------------
InWindow(t) == pc[t] \in {"enter", "block"} /\ req[t].reason # "DELAY"

TickAllowed == TickInWindow \/ ~(\E t \in User : t = current_tcb /\ InWindow(t))

\* The steps of Kernel that have nothing to do with waiting.
KernelStep ==
  /\ \/ RtosStart \/ SVC_Handler \/ PendSV_Handler
     \/ (TickAllowed /\ rtos_tick_increment) \/ WakeSkip \/ WakeDelay \/ SysTickReturn
     \/ \E c \in User :
          \/ TaskYield(c) \/ BlockCommit(c) \/ BlockMark(c) \/ DelayReturn(c)
          \/ \E n \in Ticks : TaskDelay(c, n)
  /\ UNCHANGED waitVars

\* The steps of a call under way.
WaitStep == \E c \in User : WaitBlockStore(c) \/ Unblocked(c)

\* Waiting for object o for this reason: blocked, or about to be.
WaitingFor(t, reason, o) ==
  \/ state[t] = "BLOCKED" /\ block_reason[t] = reason /\ block_object[t] = o
  \/ state[t] \in Runnable /\ req[t].reason = reason /\ object[t] = o
       /\ pc[t] \in {"enter", "block"}

\* Woken for object o and not yet back at the test in the loop of its call, or
\* come to it for the first time.
OnItsWay(t, reason, o) ==
  /\ state[t] \in Runnable /\ req[t].reason = reason /\ object[t] = o
  /\ pc[t] = "try" \/ (pc[t] \in {"mark", "spin"} /\ block_wake_status[t] = "OK")

\* The tasks that wait for object o for this reason.
WaitSet(reason, o) == {t \in Task : WaitingFor(t, reason, o)}

\* The sequence q lists each member of S once, and nothing else.
Lists(q, S) == Members(q) = S /\ \A i, j \in 1 .. Len(q) : q[i] = q[j] => i = j

\* A queue holds each task that waits for this reason once, and no other.
QueueExact(q, reason, o) == Lists(q, WaitSet(reason, o))
=============================================================================

----------------------------- MODULE WaitingProofs -----------------------------
(***************************************************************************)
(* What the proofs of the mutex, the semaphore and the message queue share *)
(* (Waiting): the invariant WInv of the calls that may block, what every   *)
(* step does to who waits for what, and what enqueueing and unlinking do   *)
(* to a wait queue.  For any number of tasks and objects.                  *)
(***************************************************************************)
EXTENDS Waiting, KernelProofs, FiniteSetTheorems

WaitReason == {"MUTEX", "SEMAPHORE", "MSG_SEND", "MSG_RECV"}

\* What is known of a task by the place of its call it is at.
CallOK(t) ==
  /\ t = Idle => pc[t] = "app"
  /\ pc[t] \in {"app", "posted"} <=> req[t].reason = "NONE"
  /\ pc[t] = "try" => req[t].reason # "DELAY"
  /\ req[t].reason \in WaitReason <=> object[t] \in Object
  /\ state[t] = "UNUSED" => pc[t] = "app"
  /\ state[t] = "BLOCKED" => pc[t] \in {"mark", "spin"}
  /\ pc[t] = "block" \/ state[t] = "BLOCKED" =>
       /\ block_reason[t] = req[t].reason /\ block_object[t] = object[t]
       /\ block_wake_status[t] = "OK"

WaitTypes ==
  /\ block_object \in [Task -> Object \cup {NULL}]
  /\ block_wake_status \in [Task -> {"OK", "TIMEOUT"}]
  /\ object \in [Task -> Object \cup {NULL}]

WInv == Inv /\ WaitTypes /\ \A t \in Task : CallOK(t)

\* Only the running task is between enqueueing and blocking.
WindowsClosed == \A t \in Task : InWindow(t) => Executing(t)

\* The step leaves task t where it is, but for the scheduler's choice.
SameTask(t) ==
  /\ pc'[t] = pc[t] /\ req'[t] = req[t] /\ object'[t] = object[t]
  /\ block_reason'[t] = block_reason[t] /\ block_object'[t] = block_object[t]
  /\ block_wake_status'[t] = block_wake_status[t]
  /\ state'[t] = state[t] \/ (state[t] \in Runnable /\ state'[t] \in Runnable)

\* After the step t waits for the same object, and still comes if it was coming.
SameWait(t) ==
  \A r \in WaitReason, o \in Object :
    /\ WaitingFor(t, r, o)' <=> WaitingFor(t, r, o)
    /\ OnItsWay(t, r, o) => OnItsWay(t, r, o)'

\* t has not called another function that may block.
SameCall(t) == req'[t].reason \in {"NONE", "DELAY", req[t].reason}

Waits(t) == \E r \in WaitReason, o \in Object : WaitingFor(t, r, o)

-----------------------------------------------------------------------------
(* Wait queues *)

\* _wait_enqueue puts the caller at the end.
LEMMA ListsAppend ==
  ASSUME NEW T, NEW q \in Seq(T), NEW S, Lists(q, S), NEW c \in T, c \notin S
  PROVE  Enqueued(q, c) \in Seq(T) /\ Lists(Enqueued(q, c), S \cup {c}) /\ Enqueued(q, c) # <<>>
<1> DEFINE a == Append(q, c)
<1>1. Len(q) \in Nat
  BY LenOfSeq
<1>2. /\ a \in Seq(T) /\ a # <<>> /\ Len(a) = Len(q) + 1 /\ a[Len(q) + 1] = c
      /\ \A i \in 1 .. Len(q) : a[i] = q[i]
  BY <1>1, AppendSeq
<1> HIDE DEF a
<1>3. Members(a) = Members(q) \cup {c}
  BY <1>1, <1>2 DEF Members
<1>4. \A i, j \in 1 .. Len(a) : a[i] = a[j] => i = j
  <2>1. \A i \in 1 .. Len(q) : q[i] # c
    BY DEF Lists, Members
  <2>2. \A i, j \in 1 .. Len(q) : q[i] = q[j] => i = j
    BY DEF Lists
  <2> QED BY <1>1, <1>2, <2>1, <2>2
<1>5. Lists(a, S \cup {c})
  BY <1>3, <1>4 DEF Lists
<1> QED BY <1>2, <1>5 DEF Enqueued, a

\* _wait_unlink takes the entry of w out, if there is one.
LEMMA ListsUnqueue ==
  ASSUME NEW T, NEW q \in Seq(T), NEW S, Lists(q, S), NEW w
  PROVE  Unqueue(q, w) \in Seq(T) /\ Lists(Unqueue(q, w), S \ {w})
<1>1. CASE w \in Members(q)
  BY <1>1, RegistryRemoveIsExact DEF Unqueue, Lists
<1>2. CASE w \notin Members(q)
  <2>1. Unqueue(q, w) = q /\ S \ {w} = S
    BY <1>2 DEF Unqueue, RegistryRemove, Lists
  <2> QED BY <2>1
<1> QED BY <1>1, <1>2

\* An empty queue is left empty.
LEMMA UnqueueEmpty == ASSUME NEW q, NEW w, Unqueue(q, w) # <<>> PROVE q # <<>>
<1>1. SUFFICES ASSUME q = <<>> PROVE Unqueue(q, w) = <<>>
  OBVIOUS
<1>2. q \in Seq({}) /\ Lists(q, {})
  BY <1>1 DEF Lists, Members
<1>3. Unqueue(q, w) \in Seq({})
  BY <1>2, ListsUnqueue, Zenon
<1>4. \A s \in Seq({}) : s = <<>>
  OBVIOUS
<1> QED BY <1>3, <1>4

\* A queue that is not empty is popped at its head.
LEMMA ListsTail ==
  ASSUME NEW T, NEW q \in Seq(T), q # <<>>, NEW S, Lists(q, S)
  PROVE  Head(q) \in S /\ Head(q) \in T /\ Tail(q) \in Seq(T) /\ Lists(Tail(q), S \ {Head(q)})
<1>1. /\ Len(q) \in Nat /\ Len(q) # 0 /\ Head(q) = q[1] /\ Head(q) \in T
      /\ Tail(q) \in Seq(T) /\ Len(Tail(q)) = Len(q) - 1
      /\ \A i \in 1 .. Len(Tail(q)) : Tail(q)[i] = q[i + 1]
  BY LenOfSeq, NonEmptySeq, TailSeq
<1>2. \A i, j \in 1 .. Len(q) : q[i] = q[j] => i = j
  BY DEF Lists
<1>3. Head(q) \in S
  BY <1>1 DEF Lists, Members
<1>4. Members(Tail(q)) = Members(q) \ {Head(q)}
  <2>1. ASSUME NEW i \in 1 .. Len(Tail(q)) PROVE Tail(q)[i] \in Members(q) \ {Head(q)}
    <3>1. i + 1 \in 1 .. Len(q) /\ 1 \in 1 .. Len(q) /\ i + 1 # 1
      BY <1>1
    <3> QED BY <1>1, <1>2, <3>1 DEF Members
  <2>2. ASSUME NEW i \in 1 .. Len(q), q[i] # Head(q) PROVE q[i] \in Members(Tail(q))
    <3>1. i - 1 \in 1 .. Len(Tail(q)) /\ (i - 1) + 1 = i
      BY <1>1, <2>2
    <3>2. Tail(q)[i - 1] = q[i]
      BY <1>1, <3>1
    <3> QED BY <3>1, <3>2, Zenon DEF Members
  <2> QED BY <2>1, <2>2 DEF Members
<1>5. \A i, j \in 1 .. Len(Tail(q)) : Tail(q)[i] = Tail(q)[j] => i = j
  BY <1>1, <1>2
<1> QED BY <1>1, <1>3, <1>4, <1>5 DEF Lists

\* A queue stays exact while nobody begins or ends a wait.
LEMMA ListsKept ==
  ASSUME NEW q, NEW r \in WaitReason, NEW o \in Object, Lists(q, WaitSet(r, o)),
         \A t \in Task : SameWait(t)
  PROVE  Lists(q, WaitSet(r, o)')
<1>1. WaitSet(r, o)' = WaitSet(r, o)
  BY Zenon DEF WaitSet, SameWait
<1> QED BY <1>1

-----------------------------------------------------------------------------
(* Kernel's invariants under the steps of a call that may block *)

LEMMA Runner ==
  ASSUME Inv, NEW c \in User, Executing(c), pc[c] \notin {"mark", "posted"}
  PROVE  c \in Task /\ c # Idle /\ state[c] = "RUNNING" /\ Settled
<1>1. Settled /\ c \in Task /\ c # Idle
  BY DEF Settled, Executing, User
<1> QED BY <1>1 DEF Inv, RunnerRuns, Executing

\* A step of the running task that moves it to another place of its call.
LEMMA PlaceStep ==
  ASSUME Inv, NEW c \in User, Executing(c), UNCHANGED <<ready, tcbVars, registry, tick>>,
         UNCHANGED <<current_tcb, isr, phase>>,
         pc' \in [Task -> Place],
         req' \in [Task -> [reason : Reason, ticks : Ticks \cup {0}]],
         pendsv' = TRUE \/ (pendsv' = pendsv /\ pc[c] \notin {"mark", "posted"})
  PROVE  Inv' /\ (MostUrgentRuns => MostUrgentRuns')
<1>1. UNCHANGED <<ready, state, prio_bucket, wake_time, block_reason, time_slice_counter>>
  BY DEF tcbVars
<1>2. pendsv' \in BOOLEAN
  BY Zenon DEF Inv, TypeOK
<1>3. TypeOK'
  BY <1>1, <1>2 DEF Inv, TypeOK
<1>4. Settled' => Settled
  BY Zenon DEF Settled, Executing
<1>5. RunnerRuns'
  BY <1>1, <1>4 DEF Inv, RunnerRuns
<1>6. Inv'
  BY <1>1, <1>3, <1>5, QuietStep DEF Inv
<1> QED BY <1>1, <1>4, <1>6, UrgentKept

\* The running task makes the sleeper w READY, and a reschedule is under way.
LEMMA MakeReadyInv ==
  ASSUME Inv, NEW c \in User, NEW w \in Task, Executing(c), state[w] = "BLOCKED",
         MakeReady(w, ready), pc' \in [Task -> Place],
         req' \in [Task -> [reason : Reason, ticks : Ticks \cup {0}]],
         pendsv' \in BOOLEAN, pendsv' \/ pc'[c] \in {"mark", "posted"},
         UNCHANGED <<prio_bucket, wake_time, time_slice_counter, registry, tick, current_tcb, isr,
                     phase>>
  PROVE  Inv' /\ MostUrgentRuns'
<1> DEFINE b == prio_bucket[w]
<1>1. /\ state' = [state EXCEPT ![w] = "READY"] /\ ready' = RingInsert(ready, b, w)
      /\ block_reason' = [block_reason EXCEPT ![w] = "NONE"]
  BY DEF MakeReady
<1>2. /\ TypeOK /\ b \in Bucket /\ prio_bucket \in [Task -> Bucket]
      /\ state \in [Task -> {"UNUSED", "READY", "RUNNING", "BLOCKED", "TERMINATED"}]
  BY SMTT(20), ZenonT(30) DEF Inv, TypeOK
<1>3. Gains(Bucket, ReadySets, ReadySets', b, w)
  BY <1>1, <1>2 DEF Gains, ReadySets, RunnableIn, Runnable
<1>4. ready \in RingState(Bucket) /\ Rings(ready, Bucket, ReadySets)
  BY <1>2, RingsOfReady DEF Inv
<1> HIDE DEF b
<1>5. /\ ready' \in RingState(Bucket) /\ ready'.stuck = ready.stuck
      /\ Rings(ready', Bucket, ReadySets')
  BY <1>1, <1>2, <1>3, <1>4, InsertRings
<1>6. ReadyRingsExact'
  BY <1>5, ReadyOfRings DEF Inv, ReadyRingsExact
<1>7. TypeOK'
  <2>1. block_reason' \in [Task -> Reason]
    BY <1>1, <1>2, Zenon DEF Reason, TypeOK
  <2>2. state' \in [Task -> {"UNUSED", "READY", "RUNNING", "BLOCKED", "TERMINATED"}]
    BY <1>1, <1>2, Zenon
  <2> QED BY <1>2, <1>5, <2>1, <2>2, Zenon DEF TypeOK, RingState, Links
<1>8. RegistryExact'
  <2>1. \A x \in Task : state'[x] \in Live <=> state[x] \in Live
    BY <1>1, <1>2 DEF Live
  <2> QED BY <2>1, RegistryKept DEF Inv
<1>9. ~Settled'
  BY Zenon DEF Settled, Executing
<1>10. IdleRunnable' /\ LoneRunner'
  BY SMTT(20), ZenonT(30), <1>1, <1>2, KernelAssumption DEF Inv, IdleRunnable, LoneRunner, Runnable
<1> QED BY <1>6, <1>7, <1>8, <1>9, <1>10 DEF Inv, RunnerRuns, MostUrgentRuns

\* rtos_wake_delayed ends a wait that has lasted too long.
LEMMA WakeTimeoutInv ==
  ASSUME Inv, WakeTimeout
  PROVE  Inv' /\ MostUrgentRuns'
<1>1. Inv'
  BY WakeInv DEF WakeTimeout, MakeReady, taskVars
<1>2. isr' # 0
  <2>1. Len(registry) \in Nat
    BY LenOfSeq DEF Inv, TypeOK
  <2> QED BY <2>1 DEF WakeTimeout
<1> QED BY <1>1, <1>2 DEF MostUrgentRuns, Settled

\* The steps that Waiting takes over from Kernel.
LEMMA KernelStepUrgent ==
  ASSUME Inv, MostUrgentRuns,
         \/ KernelStep
         \/ \E c \in User : BlockStore(c)
         \/ \E c \in User, t \in User : TaskDelete(c, t)
         \/ \E t \in User, p \in Priority : TaskCreate(t, p)
         \/ UNCHANGED vars
  PROVE  MostUrgentRuns'
<1>1. ~ready.stuck
  BY DEF Inv, ReadyRingsExact
<1>2. [Next]_vars
  BY <1>1, Zenon DEF Next, KernelStep, Boot, SysTick_Handler, TaskStep, Block
<1> QED BY <1>2, NextUrgent

-----------------------------------------------------------------------------
(* Who waits, after each step *)

LEMMA SameTaskSteady ==
  ASSUME NEW t \in Task, CallOK(t), SameTask(t)
  PROVE  CallOK(t)' /\ SameWait(t) /\ SameCall(t)
<1>1. /\ state'[t] = "BLOCKED" <=> state[t] = "BLOCKED"
      /\ state'[t] = "UNUSED" => state[t] = "UNUSED"
      /\ state'[t] \in Runnable <=> state[t] \in Runnable
  BY DEF SameTask, Runnable
<1>2. CallOK(t)'
  BY <1>1, Zenon DEF SameTask, CallOK
<1>3. SameWait(t)
  BY <1>1, Zenon DEF SameTask, SameWait, WaitingFor, OnItsWay
<1>4. SameCall(t)
  BY DEF SameTask, SameCall
<1> QED BY <1>2, <1>3, <1>4

\* A step that is about the tasks of X and nobody else.
LEMMA OthersSteady ==
  ASSUME WInv, Inv', WaitTypes', NEW X, \A t \in Task \ X : SameTask(t),
         \A t \in Task \cap X : CallOK(t)'
  PROVE  WInv' /\ \A t \in Task \ X : SameWait(t) /\ SameCall(t)
<1>1. \A t \in Task \ X : CallOK(t)' /\ SameWait(t) /\ SameCall(t)
  BY SameTaskSteady, Zenon DEF WInv
<1>2. \A t \in Task : CallOK(t)'
  BY <1>1, Zenon
<1> QED BY <1>1, <1>2 DEF WInv

\* A step that leaves the calls of all tasks as they are.
LEMMA AllSteady ==
  ASSUME WInv, Inv', UNCHANGED waitVars, UNCHANGED <<pc, req, block_reason>>,
         \A t \in Task : state'[t] = state[t] \/ (state[t] \in Runnable /\ state'[t] \in Runnable)
  PROVE  WInv' /\ \A t \in Task : SameWait(t) /\ SameCall(t)
<1>1. WaitTypes' /\ UNCHANGED <<block_object, block_wake_status, object>>
  BY Zenon DEF WInv, WaitTypes, waitVars
<1>2. \A t \in Task : SameTask(t)
  BY <1>1, Zenon DEF SameTask
<1>3. \A t \in Task : CallOK(t)' /\ SameWait(t) /\ SameCall(t)
  BY <1>2, SameTaskSteady, Zenon DEF WInv
<1> QED BY <1>1, <1>3 DEF WInv

LEMMA SchedulerSteady ==
  ASSUME WInv, UNCHANGED waitVars,
         \/ RtosStart \/ SVC_Handler \/ PendSV_Handler \/ rtos_tick_increment
         \/ WakeSkip \/ SysTickReturn \/ (\E c \in User : TaskYield(c))
         \/ UNCHANGED vars
  PROVE  WInv' /\ \A t \in Task : SameWait(t) /\ SameCall(t)
<1>1. Inv
  BY DEF WInv
<1>2. Inv'
  BY <1>1, QuietActionInv, DispatchInv
<1>3. UNCHANGED <<pc, req, block_reason>>
  BY DEF RtosStart, SVC_Handler, PendSV_Handler, rtos_tick_increment, WakeSkip, SysTickReturn,
         TaskYield, tcbVars, taskVars, vars
<1>4. \A t \in Task : state'[t] = state[t] \/ (state[t] \in Runnable /\ state'[t] \in Runnable)
  <2>1. CASE SVC_Handler \/ PendSV_Handler
    <3>1. scheduler_get_next /\ prio_bucket' = prio_bucket
      BY <2>1 DEF SVC_Handler, PendSV_Handler
    <3>2. /\ state[current_tcb'] \in Runnable
          /\ \A t \in Task : state'[t] = IF t = current_tcb' THEN "RUNNING"
                                         ELSE IF state[t] = "RUNNING" THEN "READY" ELSE state[t]
      BY <1>1, <3>1, GetNext
    <3> QED BY <3>2 DEF Runnable
  <2>2. CASE UNCHANGED state
    BY <2>2, SMTT(20)
  <2> QED BY <2>1, <2>2
      DEF RtosStart, rtos_tick_increment, WakeSkip, SysTickReturn, TaskYield, tcbVars, vars
<1> QED BY <1>2, <1>3, <1>4, AllSteady, Zenon

\* A sleeper that another task or SysTick has made READY.
LEMMA Woken ==
  ASSUME WInv, Inv', WaitTypes', NEW w \in Task, state[w] = "BLOCKED",
         state' = [state EXCEPT ![w] = "READY"],
         pc'[w] = pc[w], req'[w] = req[w], object'[w] = object[w]
  PROVE  /\ CallOK(w)' /\ SameCall(w) /\ ~Waits(w)' /\ ~(\E r, o : OnItsWay(w, r, o))
         /\ \A r \in WaitReason, o \in Object :
              WaitingFor(w, r, o) <=> r = block_reason[w] /\ o = block_object[w]
         /\ block_reason[w] = req[w].reason /\ block_object[w] = object[w]
         /\ \A r \in WaitReason, o \in Object :
              OnItsWay(w, r, o)' <=> /\ r = req[w].reason /\ o = object[w]
                                     /\ block_wake_status'[w] = "OK"
<1>1. /\ CallOK(w) /\ pc[w] \in {"mark", "spin"} /\ state'[w] = "READY"
      /\ block_reason[w] = req[w].reason /\ block_object[w] = object[w]
  BY Zenon DEF WInv, CallOK, Inv, TypeOK
<1>2. CallOK(w)'
  BY <1>1, Zenon DEF CallOK
<1>3. ~Waits(w)'
  BY <1>1, Zenon DEF Waits, WaitingFor
<1>4. ~(\E r, o : OnItsWay(w, r, o)) /\ SameCall(w)
  BY <1>1 DEF OnItsWay, Runnable, SameCall
<1>5. \A r \in WaitReason, o \in Object :
        WaitingFor(w, r, o) <=> r = block_reason[w] /\ o = block_object[w]
  BY <1>1, Zenon DEF WaitingFor, Runnable
<1>6. \A r \in WaitReason, o \in Object :
        OnItsWay(w, r, o)' <=> /\ r = req[w].reason /\ o = object[w]
                               /\ block_wake_status'[w] = "OK"
  BY <1>1, Zenon DEF OnItsWay, Runnable
<1> QED BY <1>1, <1>2, <1>3, <1>4, <1>5, <1>6

LEMMA WakeDelaySteady ==
  ASSUME WInv, WakeDelay, UNCHANGED waitVars
  PROVE  WInv' /\ \A t \in Task : SameWait(t) /\ SameCall(t)
<1>1. Inv' /\ WaitTypes'
  BY WakeDelayInv DEF WInv, WaitTypes, waitVars
<1>2. PICK s \in Task :
        /\ state[s] = "BLOCKED" /\ block_reason[s] = "DELAY"
        /\ state' = [state EXCEPT ![s] = "READY"]
        /\ block_reason' = [block_reason EXCEPT ![s] = "NONE"]
        /\ UNCHANGED <<pc, req, object, block_object, block_wake_status>>
  BY EntryOfSeq, Zenon DEF WakeDelay, Due, Scanned, WInv, Inv, TypeOK, taskVars, waitVars
<1>3. /\ CallOK(s)' /\ SameCall(s) /\ ~Waits(s)' /\ ~(\E r, o : OnItsWay(s, r, o))
      /\ \A r \in WaitReason, o \in Object :
           WaitingFor(s, r, o) <=> r = block_reason[s] /\ o = block_object[s]
  BY <1>1, <1>2, Woken, Zenon
<1>4. SameWait(s)
  <2>1. "DELAY" \notin WaitReason
    BY DEF WaitReason
  <2> QED BY <1>2, <1>3, <2>1, Zenon DEF SameWait, Waits
<1>5. \A t \in Task \ {s} : SameTask(t)
  BY <1>2 DEF SameTask, WInv, Inv, TypeOK
<1>6. WInv' /\ \A t \in Task \ {s} : SameWait(t) /\ SameCall(t)
  BY <1>1, <1>3, <1>5, OthersSteady, Zenon
<1> QED BY <1>3, <1>4, <1>6, Zenon

\* The calls of task_delay, up to rtos_block_current and after it.
LEMMA DelaySteady ==
  ASSUME WInv, UNCHANGED waitVars, NEW c \in User,
         (\E n \in Ticks : TaskDelay(c, n)) \/ DelayReturn(c)
  PROVE  WInv' /\ \A t \in Task : SameWait(t) /\ SameCall(t)
<1>1. Inv' /\ c \in Task /\ c # Idle /\ CallOK(c)
  BY QuietActionInv DEF WInv, User
<1>2. WaitTypes' /\ UNCHANGED <<state, block_reason, block_object, block_wake_status, object>>
  BY DEF TaskDelay, DelayReturn, tcbVars, waitVars, WInv, WaitTypes
<1>3. /\ Executing(c) /\ pc[c] \in {"app", "spin"} /\ req[c].reason \in {"NONE", "DELAY"}
  BY <1>1, Zenon DEF TaskDelay, DelayReturn, InApp, CallOK
<1>4. /\ \A t \in Task \ {c} : pc'[t] = pc[t] /\ req'[t] = req[t]
      /\ \/ pc'[c] = "enter" /\ req'[c].reason = "DELAY"
         \/ pc'[c] = "app" /\ req'[c].reason = "NONE"
  <2>1. pc \in [Task -> Place] /\ req \in [Task -> [reason : Reason, ticks : Ticks \cup {0}]]
    BY DEF WInv, Inv, TypeOK
  <2>2. \A n \in Ticks : TaskDelay(c, n) =>
          /\ pc' = [pc EXCEPT ![c] = "enter"]
          /\ req' = [req EXCEPT ![c] = [reason |-> "DELAY", ticks |-> n]]
    BY DEF TaskDelay
  <2>3. CASE DelayReturn(c)
    BY <1>1, <2>1, <2>3 DEF DelayReturn, NoReq
  <2> QED BY <1>1, <2>1, <2>2, <2>3
<1>5. \A t \in Task \ {c} : SameTask(t)
  BY <1>2, <1>4 DEF SameTask
<1>6. state[c] = "RUNNING"
  BY <1>3, Runner DEF WInv
<1>7. "NONE" \notin WaitReason /\ "DELAY" \notin WaitReason
  BY DEF WaitReason
<1>8. CallOK(c)'
  BY <1>1, <1>2, <1>3, <1>4, <1>6, <1>7, Zenon DEF CallOK
<1>9. SameWait(c) /\ SameCall(c)
  BY <1>2, <1>3, <1>4, <1>6, <1>7, Zenon DEF SameWait, SameCall, WaitingFor, OnItsWay
<1>10. WInv' /\ \A t \in Task \ {c} : SameWait(t) /\ SameCall(t)
  BY <1>1, <1>2, <1>5, <1>8, OthersSteady, Zenon
<1> QED BY <1>9, <1>10, Zenon

\* rtos_block_current, step by step: the task waits all the while.
LEMMA BlockSteady ==
  ASSUME WInv, NEW c \in User,
         \/ WaitBlockStore(c)
         \/ (BlockCommit(c) \/ BlockMark(c)) /\ UNCHANGED waitVars
  PROVE  WInv' /\ \A t \in Task : SameWait(t) /\ SameCall(t)
<1>1. Inv' /\ c \in Task /\ c # Idle /\ CallOK(c)
  BY QuietActionInv, BlockCommitInv DEF WInv, User, WaitBlockStore
<1>2. /\ pc \in [Task -> Place] /\ block_reason \in [Task -> Reason]
      /\ state \in [Task -> {"UNUSED", "READY", "RUNNING", "BLOCKED", "TERMINATED"}]
      /\ block_object \in [Task -> Object \cup {NULL}] /\ object \in [Task -> Object \cup {NULL}]
      /\ block_wake_status \in [Task -> {"OK", "TIMEOUT"}]
  BY DEF WInv, Inv, TypeOK, WaitTypes
<1>3. ASSUME WaitTypes', \A t \in Task \ {c} : SameTask(t), CallOK(c)', SameWait(c), SameCall(c)
      PROVE  WInv' /\ \A t \in Task : SameWait(t) /\ SameCall(t)
  <2>1. WInv' /\ \A t \in Task \ {c} : SameWait(t) /\ SameCall(t)
    BY <1>1, <1>3, OthersSteady, Zenon
  <2> QED BY <1>3, <2>1, Zenon
<1>4. CASE WaitBlockStore(c)
  <2>1. /\ Executing(c) /\ pc[c] = "enter" /\ pc' = [pc EXCEPT ![c] = "block"]
        /\ block_reason' = [block_reason EXCEPT ![c] = req[c].reason]
        /\ block_object' = [block_object EXCEPT ![c] = object[c]]
        /\ block_wake_status' = [block_wake_status EXCEPT ![c] = "OK"]
        /\ UNCHANGED <<state, req, object>>
    BY <1>4 DEF WaitBlockStore, BlockStore, cpuVars
  <2>2. \A t \in Task \ {c} : SameTask(t)
    BY <1>2, <2>1 DEF SameTask
  <2>3. pc'[c] = "block" /\ block_reason'[c] = req[c].reason /\ block_object'[c] = object[c]
        /\ block_wake_status'[c] = "OK" /\ state[c] = "RUNNING"
    BY <1>1, <1>2, <2>1, Runner DEF WInv
  <2>4. CallOK(c)'
    BY <1>1, <2>1, <2>3, Zenon DEF CallOK
  <2>5. SameWait(c) /\ SameCall(c)
    BY <2>1, <2>3, Zenon DEF SameWait, SameCall, WaitingFor, OnItsWay, Runnable
  <2>6. WaitTypes'
    BY <1>1, <1>2, <2>1 DEF WaitTypes
  <2> QED BY <1>3, <2>2, <2>4, <2>5, <2>6
<1>5. CASE BlockCommit(c) /\ UNCHANGED waitVars
  <2>1. /\ Executing(c) /\ pc[c] = "block" /\ pc' = [pc EXCEPT ![c] = "mark"]
        /\ state' = [state EXCEPT ![c] = "BLOCKED"]
        /\ UNCHANGED <<req, object, block_reason, block_object, block_wake_status>>
    BY <1>5, Zenon DEF BlockCommit, waitVars
  <2>2. (\A t \in Task \ {c} : SameTask(t)) /\ WaitTypes'
    BY <1>2, <2>1 DEF SameTask, WaitTypes
  <2>3. /\ pc'[c] = "mark" /\ state'[c] = "BLOCKED" /\ block_reason[c] = req[c].reason
        /\ block_object[c] = object[c] /\ block_wake_status[c] = "OK" /\ state[c] = "RUNNING"
    <3>1. state[c] = "RUNNING"
      BY <2>1, Runner DEF WInv
    <3> QED BY <1>1, <1>2, <2>1, <3>1, Zenon DEF CallOK
  <2>4. CallOK(c)'
    BY <1>1, <2>1, <2>3, Zenon DEF CallOK
  <2>5. SameWait(c) /\ SameCall(c)
    BY <2>1, <2>3, Zenon DEF SameWait, SameCall, WaitingFor, OnItsWay, Runnable
  <2> QED BY <1>3, <2>2, <2>4, <2>5
<1>6. CASE BlockMark(c) /\ UNCHANGED waitVars
  <2>1. /\ pc[c] = "mark" /\ pc' = [pc EXCEPT ![c] = "spin"]
        /\ UNCHANGED <<state, req, object, block_reason, block_object, block_wake_status>>
    BY <1>6 DEF BlockMark, waitVars, tcbVars
  <2>2. (\A t \in Task \ {c} : SameTask(t)) /\ pc'[c] = "spin" /\ WaitTypes'
    BY <1>1, <1>2, <2>1 DEF SameTask, WaitTypes
  <2>3. CallOK(c)'
    BY <1>1, <2>1, <2>2, Zenon DEF CallOK
  <2>4. SameWait(c) /\ SameCall(c)
    BY <2>1, <2>2, Zenon DEF SameWait, SameCall, WaitingFor, OnItsWay
  <2> QED BY <1>3, <2>2, <2>3, <2>4
<1> QED BY <1>4, <1>5, <1>6

LEMMA KernelStepSteady ==
  ASSUME WInv, KernelStep
  PROVE  WInv' /\ \A t \in Task : SameWait(t) /\ SameCall(t)
<1>1. UNCHANGED waitVars
  BY Zenon DEF KernelStep
<1>2. CASE WakeDelay
  BY <1>1, <1>2, WakeDelaySteady
<1>3. ASSUME NEW c \in User, BlockCommit(c) \/ BlockMark(c)
      PROVE  WInv' /\ \A t \in Task : SameWait(t) /\ SameCall(t)
  BY <1>1, <1>3, BlockSteady
<1>4. ASSUME NEW c \in User, (\E n \in Ticks : TaskDelay(c, n)) \/ DelayReturn(c)
      PROVE  WInv' /\ \A t \in Task : SameWait(t) /\ SameCall(t)
  BY <1>1, <1>4, DelaySteady
<1>5. CASE \/ RtosStart \/ SVC_Handler \/ PendSV_Handler \/ rtos_tick_increment
           \/ WakeSkip \/ SysTickReturn \/ \E c \in User : TaskYield(c)
  BY <1>1, <1>5, SchedulerSteady, Zenon
<1> QED BY <1>2, <1>3, <1>4, <1>5, Zenon DEF KernelStep

\* Who may block calls a function, leaves it by its timeout or goes round its loop;
\* and the end of a call that has woken a task.
LEMMA CallSteady ==
  ASSUME WInv, NEW c \in User,
         \/ \E r \in WaitReason, o \in Object, n \in Ticks \cup {0} : CallWait(c, r, o, n)
         \/ Unblocked(c) \/ Posted(c)
  PROVE  /\ WInv' /\ (MostUrgentRuns => MostUrgentRuns') /\ \A t \in Task : SameWait(t)
         /\ \A t \in Task \ {c} : SameCall(t)
         /\ \/ SameCall(c)
            \/ \E r \in WaitReason, o \in Object, n \in Ticks \cup {0} :
                 CallWait(c, r, o, n) /\ req'[c].reason = r
<1> DEFINE Called == \E r \in WaitReason, o \in Object, n \in Ticks \cup {0} : CallWait(c, r, o, n)
           Asked == \E r \in WaitReason, o \in Object, n \in Ticks \cup {0} :
                      CallWait(c, r, o, n) /\ req'[c].reason = r
<1>1. /\ c \in Task /\ c # Idle /\ CallOK(c)
      /\ pc \in [Task -> Place] /\ req \in [Task -> [reason : Reason, ticks : Ticks \cup {0}]]
      /\ block_object \in [Task -> Object \cup {NULL}] /\ object \in [Task -> Object \cup {NULL}]
      /\ block_wake_status \in [Task -> {"OK", "TIMEOUT"}] /\ NULL \notin Object
      /\ WaitReason \subseteq Reason /\ "NONE" \notin WaitReason
  BY WaitingAssumption DEF User, WInv, Inv, TypeOK, WaitTypes, WaitReason, Reason
<1>2. /\ Executing(c) /\ pc[c] \in {"app", "spin", "posted"}
      /\ UNCHANGED <<ready, tcbVars, registry, tick, current_tcb, isr, phase>>
      /\ UNCHANGED <<block_object, block_wake_status>>
  BY DEF CallWait, InApp, Unblocked, Posted, cpuVars, waitVars
<1>3. UNCHANGED <<state, block_reason>>
  BY <1>2 DEF tcbVars
<1>4. \/ /\ pc[c] = "app" /\ pc' = [pc EXCEPT ![c] = "try"]
         /\ \E r \in WaitReason, o \in Object, n \in Ticks \cup {0} :
              /\ CallWait(c, r, o, n)
              /\ req' = [req EXCEPT ![c] = [reason |-> r, ticks |-> n]]
              /\ object' = [object EXCEPT ![c] = o]
      \/ /\ pc[c] = "spin" /\ state[c] # "BLOCKED" /\ block_wake_status[c] = "TIMEOUT"
         /\ pc' = [pc EXCEPT ![c] = "app"] /\ req' = [req EXCEPT ![c] = NoReq]
         /\ object' = [object EXCEPT ![c] = NULL]
      \/ /\ pc[c] = "spin" /\ state[c] # "BLOCKED" /\ block_wake_status[c] # "TIMEOUT"
         /\ req[c].reason # "DELAY"
         /\ pc' = [pc EXCEPT ![c] = "try"] /\ UNCHANGED <<req, object>>
      \/ /\ pc[c] = "posted" /\ pc' = [pc EXCEPT ![c] = "app"] /\ UNCHANGED <<req, object>>
  <2>1. CASE Called
    BY <2>1, Zenon DEF CallWait, InApp
  <2>2. CASE Unblocked(c)
    BY <2>2, Zenon DEF Unblocked, CallReturn
  <2>3. CASE Posted(c)
    BY <2>3, Zenon DEF Posted, waitVars
  <2> QED BY <2>1, <2>2, <2>3, Zenon
<1>5. /\ \A t \in Task \ {c} : pc'[t] = pc[t] /\ req'[t] = req[t] /\ object'[t] = object[t]
      /\ \/ /\ pc[c] = "app" /\ pc'[c] = "try" /\ req'[c].reason \in WaitReason
            /\ object'[c] \in Object /\ Asked
         \/ /\ pc[c] = "spin" /\ block_wake_status[c] = "TIMEOUT"
            /\ pc'[c] = "app" /\ req'[c].reason = "NONE" /\ object'[c] = NULL
         \/ /\ pc[c] = "spin" /\ block_wake_status[c] = "OK" /\ req[c].reason # "DELAY"
            /\ pc'[c] = "try" /\ req'[c] = req[c] /\ object'[c] = object[c]
         \/ /\ pc[c] = "posted" /\ pc'[c] = "app" /\ req'[c] = req[c] /\ object'[c] = object[c]
  <2>1. \A t \in Task \ {c} : pc'[t] = pc[t] /\ req'[t] = req[t] /\ object'[t] = object[t]
    BY <1>1, <1>4
  <2>2. ASSUME NEW r \in WaitReason, NEW o \in Object, NEW n \in Ticks \cup {0},
               CallWait(c, r, o, n), pc' = [pc EXCEPT ![c] = "try"],
               req' = [req EXCEPT ![c] = [reason |-> r, ticks |-> n]],
               object' = [object EXCEPT ![c] = o]
        PROVE  /\ pc'[c] = "try" /\ req'[c].reason \in WaitReason
               /\ object'[c] \in Object /\ Asked
    <3>1. pc'[c] = "try" /\ req'[c].reason = r /\ object'[c] = o
      BY <1>1, <2>2
    <3> QED BY <2>2, <3>1, Zenon
  <2>3. NoReq.reason = "NONE" /\ block_wake_status[c] \in {"OK", "TIMEOUT"}
    BY <1>1 DEF NoReq
  <2> HIDE DEF Asked
  <2> QED BY <1>1, <1>4, <2>1, <2>2, <2>3, Zenon
<1> HIDE DEF Called
<1>6. /\ pc' \in [Task -> Place] /\ object' \in [Task -> Object \cup {NULL}]
      /\ req' \in [Task -> [reason : Reason, ticks : Ticks \cup {0}]]
  <2>1. pc' \in [Task -> Place]
    BY <1>1, <1>4, Zenon DEF Place
  <2>2. object' \in [Task -> Object \cup {NULL}]
    BY <1>1, <1>4
  <2>3. NoReq \in [reason : Reason, ticks : Ticks \cup {0}]
    BY DEF NoReq, Reason
  <2>4. \A r \in WaitReason, n \in Ticks \cup {0} :
          [reason |-> r, ticks |-> n] \in [reason : Reason, ticks : Ticks \cup {0}]
    BY <1>1
  <2>5. req' \in [Task -> [reason : Reason, ticks : Ticks \cup {0}]]
    <3>1. ASSUME NEW v \in [reason : Reason, ticks : Ticks \cup {0}], req' = [req EXCEPT ![c] = v]
          PROVE  req' \in [Task -> [reason : Reason, ticks : Ticks \cup {0}]]
      BY <1>1, <3>1, Zenon
    <3> QED BY <1>1, <1>4, <2>3, <2>4, <3>1
  <2> QED BY <2>1, <2>2, <2>5
<1>7. pendsv' = TRUE \/ (pendsv' = pendsv /\ pc[c] \notin {"mark", "posted"})
  BY DEF CallWait, InApp, Unblocked, Posted, cpuVars
<1>8. Inv' /\ (MostUrgentRuns => MostUrgentRuns')
  BY <1>2, <1>6, <1>7, PlaceStep, ZenonT(30) DEF WInv
<1>9. (\A t \in Task \ {c} : SameTask(t)) /\ WaitTypes'
  BY <1>1, <1>2, <1>3, <1>5, <1>6 DEF SameTask, WaitTypes
<1>10. state[c] \notin {"UNUSED", "BLOCKED"}
  <2>1. pc[c] = "app" => state[c] = "RUNNING"
    BY <1>2, Runner DEF WInv
  <2> QED BY <1>1, <1>2, <1>4, <2>1, Zenon DEF CallOK
<1> HIDE DEF Asked
<1>11. CallOK(c)'
  <2>1. /\ pc'[c] \in {"app", "posted"} <=> req'[c].reason = "NONE"
        /\ pc'[c] = "try" => req'[c].reason # "DELAY"
        /\ req'[c].reason \in WaitReason <=> object'[c] \in Object
    BY <1>1, <1>5 DEF CallOK, WaitReason
  <2>2. pc'[c] # "block" /\ state'[c] \notin {"UNUSED", "BLOCKED"}
    BY <1>3, <1>5, <1>10, Zenon
  <2> QED BY <1>1, <2>1, <2>2, Zenon DEF CallOK
<1>12. SameWait(c)
  <2>1. \A r, o : ~WaitingFor(c, r, o) /\ ~WaitingFor(c, r, o)'
    BY <1>2, <1>3, <1>5, <1>10, Zenon DEF WaitingFor
  <2>2. \A r \in WaitReason : \A o : OnItsWay(c, r, o) => OnItsWay(c, r, o)'
    BY <1>1, <1>2, <1>3, <1>5, Zenon DEF OnItsWay, CallOK
  <2> QED BY <2>1, <2>2, Zenon DEF SameWait
<1>13. WInv' /\ \A t \in Task \ {c} : SameWait(t) /\ SameCall(t)
  BY <1>1, <1>8, <1>9, <1>11, OthersSteady, Zenon
<1>14. SameCall(c) \/ Asked
  BY <1>5, Zenon DEF SameCall
<1> QED BY <1>8, <1>12, <1>13, <1>14, Zenon DEF Asked

\* The steps of Kernel, of a call under way and of its end, and stuttering.
LEMMA OtherSteady ==
  ASSUME WInv, KernelStep \/ WaitStep \/ (\E c \in User : Posted(c)) \/ UNCHANGED <<vars, waitVars>>
  PROVE  WInv' /\ (MostUrgentRuns => MostUrgentRuns') /\ \A t \in Task : SameWait(t) /\ SameCall(t)
<1>0. Inv
  BY DEF WInv
<1>1. CASE KernelStep
  BY <1>0, <1>1, KernelStepSteady, KernelStepUrgent
<1>2. CASE WaitStep
  <2>1. PICK c \in User : WaitBlockStore(c) \/ Unblocked(c)
    BY <1>2 DEF WaitStep
  <2>2. CASE WaitBlockStore(c)
    <3>1. MostUrgentRuns => MostUrgentRuns'
      BY <1>0, <2>2, KernelStepUrgent, Zenon DEF WaitBlockStore
    <3> QED BY <2>2, <3>1, BlockSteady
  <2>3. CASE Unblocked(c)
    <3>1. \A r, o, n : ~CallWait(c, r, o, n)
      BY <2>3 DEF Unblocked, CallWait, InApp
    <3> QED BY <2>3, <3>1, CallSteady, Zenon
  <2> QED BY <2>1, <2>2, <2>3
<1>3. CASE \E c \in User : Posted(c)
  <2>1. PICK c \in User : Posted(c)
    BY <1>3
  <2>2. \A r, o, n : ~CallWait(c, r, o, n)
    BY <2>1 DEF Posted, CallWait, InApp
  <2> QED BY <2>1, <2>2, CallSteady, Zenon
<1>4. CASE UNCHANGED <<vars, waitVars>>
  BY <1>0, <1>4, SchedulerSteady, KernelStepUrgent
<1> QED BY <1>1, <1>2, <1>3, <1>4

\* A call that did not get what it wants enters the window: its task waits from now.
LEMMA Enters ==
  ASSUME WInv, NEW c \in User, NEW r, AtTry(c, r), Inv', pc' = [pc EXCEPT ![c] = "enter"],
         UNCHANGED <<state, block_reason, req>>, UNCHANGED waitVars
  PROVE  /\ WInv' /\ \A t \in Task \ {c} : SameWait(t)
         /\ \A t \in Task : SameCall(t)
         /\ r \in WaitReason /\ object[c] \in Object /\ ~Waits(c)
         /\ \A s \in WaitReason, o \in Object :
              WaitingFor(c, s, o)' <=> s = r /\ o = object[c]
<1>1. /\ c \in Task /\ c # Idle /\ CallOK(c) /\ Executing(c) /\ pc[c] = "try"
      /\ req[c].reason = r /\ UNCHANGED <<block_object, block_wake_status, object>>
  BY Zenon DEF WInv, AtTry, User, waitVars
<1>2. pc \in [Task -> Place] /\ req \in [Task -> [reason : Reason, ticks : Ticks \cup {0}]]
  BY DEF WInv, Inv, TypeOK
<1>3. r \in WaitReason /\ object[c] \in Object
  <2>1. r \in Reason /\ r # "DELAY" /\ r # "NONE"
    BY <1>1, <1>2 DEF CallOK
  <2>2. r \in WaitReason
    BY <2>1 DEF Reason, WaitReason
  <2> QED BY <1>1, <2>2 DEF CallOK
<1>4. state[c] = "RUNNING"
  <2>1. pc[c] \notin {"mark", "posted"}
    BY ONLY <1>1
  <2> QED BY <1>1, <2>1, Runner, Zenon DEF WInv
<1>5. (\A t \in Task \ {c} : SameTask(t)) /\ pc'[c] = "enter"
  BY <1>1, <1>2 DEF SameTask
<1>6. CallOK(c)' /\ WaitTypes'
  BY <1>1, <1>4, <1>5, Zenon DEF CallOK, WInv, WaitTypes
<1>7. WInv' /\ \A t \in Task \ {c} : SameWait(t) /\ SameCall(t)
  BY <1>1, <1>5, <1>6, OthersSteady, Zenon
<1>8. SameCall(c)
  BY DEF SameCall
<1>9. ~Waits(c) /\ \A s \in WaitReason, o \in Object : WaitingFor(c, s, o)' <=> s = r /\ o = object[c]
  BY <1>1, <1>4, <1>5, ZenonT(30) DEF Waits, WaitingFor, Runnable
<1> QED BY <1>3, <1>7, <1>8, <1>9, Zenon

\* A call got what it wants and returns, its task having woken w or nobody.
LEMMA Returns ==
  ASSUME WInv, NEW c \in User, NEW r, AtTry(c, r), Inv', CallReturn(c), state'[c] = state[c]
  PROVE  /\ CallOK(c)' /\ SameCall(c) /\ ~Waits(c) /\ ~Waits(c)'
         /\ object' \in [Task -> Object \cup {NULL}]
         /\ r \in WaitReason /\ object[c] \in Object
         /\ \A t \in Task \ {c} : pc'[t] = pc[t] /\ req'[t] = req[t] /\ object'[t] = object[t]
         /\ \A s \in WaitReason, o \in Object : OnItsWay(c, s, o) => s = r /\ o = object[c]
<1>1. /\ c \in Task /\ c # Idle /\ CallOK(c) /\ Executing(c) /\ pc[c] = "try"
      /\ req[c].reason = r
  BY Zenon DEF WInv, AtTry, User
<1>2. /\ pc \in [Task -> Place] /\ req \in [Task -> [reason : Reason, ticks : Ticks \cup {0}]]
      /\ object \in [Task -> Object \cup {NULL}]
  BY Zenon DEF WInv, Inv, TypeOK, WaitTypes
<1>3. r \in WaitReason /\ object[c] \in Object
  <2>1. r \in Reason /\ r # "DELAY" /\ r # "NONE"
    BY <1>1, <1>2 DEF CallOK
  <2>2. r \in WaitReason
    BY <2>1 DEF Reason, WaitReason
  <2> QED BY <1>1, <2>2, Zenon DEF CallOK
<1>4. state[c] = "RUNNING"
  BY <1>1, Runner DEF WInv
<1>5. /\ pc'[c] = "app" /\ req'[c].reason = "NONE" /\ object'[c] = NULL
      /\ \A t \in Task \ {c} : pc'[t] = pc[t] /\ req'[t] = req[t] /\ object'[t] = object[t]
      /\ object' \in [Task -> Object \cup {NULL}]
  BY <1>1, <1>2 DEF CallReturn, NoReq
<1>6. CallOK(c)' /\ SameCall(c)
  <2>1. "NONE" \notin WaitReason
    BY DEF WaitReason
  <2> QED BY <1>1, <1>4, <1>5, <2>1, WaitingAssumption, Zenon DEF CallOK, SameCall
<1>7. ~Waits(c) /\ ~Waits(c)'
  BY <1>1, <1>4, <1>5, Zenon DEF Waits, WaitingFor
<1>8. \A s \in WaitReason, o \in Object : OnItsWay(c, s, o) => s = r /\ o = object[c]
  BY <1>1 DEF OnItsWay
<1> QED BY <1>3, <1>5, <1>6, <1>7, <1>8, Zenon

\* The types CallReturn and the stores to pc leave behind.
LEMMA ReturnTypes ==
  ASSUME Inv, NEW c \in User
  PROVE  /\ \A p \in Place : [pc EXCEPT ![c] = p] \in [Task -> Place]
         /\ [req EXCEPT ![c] = NoReq] \in [Task -> [reason : Reason, ticks : Ticks \cup {0}]]
         /\ req \in [Task -> [reason : Reason, ticks : Ticks \cup {0}]]
<1>1. pc \in [Task -> Place] /\ req \in [Task -> [reason : Reason, ticks : Ticks \cup {0}]]
  BY DEF Inv, TypeOK
<1>2. NoReq \in [reason : Reason, ticks : Ticks \cup {0}]
  BY DEF NoReq, Reason
<1> QED BY <1>1, <1>2, Zenon

\* rtos_wake_delayed ends the wait of task s.
LEMMA TimesOut ==
  ASSUME WInv, WakeTimeout, NEW s, s = Scanned
  PROVE  /\ WInv' /\ s \in Task /\ \A t \in Task \ {s} : SameWait(t)
         /\ \A t \in Task : SameCall(t)
         /\ ~Waits(s)' /\ ~(\E r, o : OnItsWay(s, r, o))
         /\ block_reason[s] \in WaitReason /\ block_object[s] \in Object
         /\ block_reason[s] = req[s].reason
         /\ \A r \in WaitReason, o \in Object :
              WaitingFor(s, r, o) <=> r = block_reason[s] /\ o = block_object[s]
<1>1. s \in Task /\ state[s] = "BLOCKED" /\ block_reason[s] \notin {"NONE", "DELAY"}
  BY EntryOfSeq, Zenon DEF WakeTimeout, Due, Scanned, WInv, Inv, TypeOK
<1>2. /\ state' = [state EXCEPT ![s] = "READY"]
      /\ block_reason' = [block_reason EXCEPT ![s] = "NONE"]
      /\ block_object' = [block_object EXCEPT ![s] = NULL]
      /\ block_wake_status' = [block_wake_status EXCEPT ![s] = "TIMEOUT"]
      /\ UNCHANGED <<pc, req, object>>
  BY <1>1, Zenon DEF WakeTimeout, MakeReady, taskVars
<1>3. Inv' /\ WaitTypes'
  <2>1. Inv'
    BY WakeTimeoutInv DEF WInv
  <2> QED BY <1>2, <2>1, Zenon DEF WInv, WaitTypes
<1>4. /\ CallOK(s)' /\ SameCall(s) /\ ~Waits(s)' /\ ~(\E r, o : OnItsWay(s, r, o))
      /\ \A r \in WaitReason, o \in Object :
           WaitingFor(s, r, o) <=> r = block_reason[s] /\ o = block_object[s]
      /\ block_reason[s] = req[s].reason /\ block_object[s] = object[s]
  BY <1>1, <1>2, <1>3, Woken, Zenon
<1>5. \A t \in Task \ {s} : SameTask(t)
  BY <1>2 DEF SameTask, WInv, WaitTypes, Inv, TypeOK
<1>6. WInv' /\ \A t \in Task \ {s} : SameWait(t) /\ SameCall(t)
  <2>1. s \in Task /\ WInv /\ Inv' /\ WaitTypes' /\ CallOK(s)'
    BY <1>1, <1>3, <1>4, ZenonT(30)
  <2> QED BY ONLY <1>5, <2>1, OthersSteady, ZenonT(30)
<1>7. block_reason[s] \in WaitReason /\ block_object[s] \in Object
  <2>1. block_reason[s] \in Reason /\ CallOK(s)
    BY <1>1 DEF WInv, Inv, TypeOK
  <2>2. block_reason[s] \in WaitReason
    BY <1>1, <2>1 DEF Reason, WaitReason
  <2> QED BY <1>4, <2>1, <2>2, Zenon DEF CallOK
<1> QED BY <1>1, <1>4, <1>6, <1>7, Zenon

\* main() creates task x.
LEMMA CreateSteady ==
  ASSUME WInv, NEW x \in User, NEW p \in Priority, TaskCreate(x, p), UNCHANGED waitVars
  PROVE  WInv' /\ \A t \in Task : SameWait(t) /\ SameCall(t)
<1>1. x \in Task /\ state[x] = "UNUSED" /\ Inv'
  BY TaskCreateInv, Zenon DEF TaskCreate, User, WInv
<1>2. /\ UNCHANGED <<block_object, block_wake_status, object, pc, req, block_reason>>
      /\ state' = [state EXCEPT ![x] = "READY"] /\ WaitTypes'
  BY DEF TaskCreate, waitVars, taskVars, cpuVars, WInv, WaitTypes
<1>3. state'[x] = "READY" /\ \A t \in Task \ {x} : state'[t] = state[t]
  BY <1>1, <1>2 DEF WInv, Inv, TypeOK
<1>4. \A t \in Task \ {x} : SameTask(t)
  BY <1>2, <1>3, Zenon DEF SameTask
<1>5. CallOK(x) /\ pc[x] = "app"
  BY <1>1, Zenon DEF WInv, CallOK
<1>6. CallOK(x)' /\ SameWait(x) /\ SameCall(x)
  <2>1. CallOK(x)'
    BY <1>2, <1>3, <1>5, Zenon DEF CallOK
  <2>2. SameWait(x) /\ SameCall(x)
    BY <1>1, <1>2, <1>3, <1>5, Zenon DEF SameWait, SameCall, WaitingFor, OnItsWay
  <2> QED BY <2>1, <2>2
<1>7. WInv' /\ \A t \in Task \ {x} : SameWait(t) /\ SameCall(t)
  BY <1>1, <1>2, <1>4, <1>6, OthersSteady, Zenon
<1> QED BY <1>6, <1>7, Zenon

\* task_delete of x: it waits no more.
LEMMA DeleteSteady ==
  ASSUME WInv, NEW c \in User, NEW x \in User, WaitTaskDelete(c, x)
  PROVE  /\ WInv' /\ (\A t \in Task \ {x} : SameWait(t)) /\ (\A t \in Task : SameCall(t))
         /\ x \in Task /\ x # c /\ ~Waits(x)' /\ pc'[x] = "app"
         /\ \A t \in Task \ {x} : pc'[t] = pc[t] /\ req'[t] = req[t]
<1>1. /\ x \in Task /\ x # Idle /\ x # c /\ TaskDelete(c, x)
  BY Zenon DEF WaitTaskDelete, TaskDelete, User
<1>2. Inv'
  BY <1>1, TaskDeleteInv DEF WInv
<1>3. /\ state' = [state EXCEPT ![x] = "TERMINATED"]
      /\ pc' = [pc EXCEPT ![x] = "app"] /\ req' = [req EXCEPT ![x] = NoReq]
      /\ object' = [object EXCEPT ![x] = NULL] /\ UNCHANGED block_wake_status
      /\ block_reason' \in {block_reason, [block_reason EXCEPT ![x] = "NONE"]}
      /\ block_object' \in {block_object, [block_object EXCEPT ![x] = NULL]}
  BY Zenon DEF WaitTaskDelete, TaskDelete
<1>4. /\ state'[x] = "TERMINATED" /\ pc'[x] = "app" /\ req'[x].reason = "NONE" /\ object'[x] = NULL
      /\ \A t \in Task \ {x} :
           /\ pc'[t] = pc[t] /\ req'[t] = req[t] /\ object'[t] = object[t] /\ state'[t] = state[t]
           /\ block_reason'[t] = block_reason[t] /\ block_object'[t] = block_object[t]
  BY <1>1, <1>3 DEF WInv, WaitTypes, Inv, TypeOK, NoReq
<1>5. \A t \in Task \ {x} : SameTask(t)
  BY <1>3, <1>4 DEF SameTask
<1>6. CallOK(x)' /\ SameCall(x)
  <2>1. "NONE" \notin WaitReason
    BY DEF WaitReason
  <2> QED BY <1>1, <1>4, <2>1, WaitingAssumption, Zenon DEF CallOK, SameCall
<1>7. WaitTypes'
  BY <1>3, Zenon DEF WInv, WaitTypes
<1>8. WInv' /\ \A t \in Task \ {x} : SameWait(t) /\ SameCall(t)
  BY <1>1, <1>2, <1>5, <1>6, <1>7, OthersSteady, Zenon
<1>9. ~Waits(x)'
  BY <1>4, Zenon DEF Waits, WaitingFor, Runnable
<1> QED BY <1>1, <1>4, <1>6, <1>8, <1>9, Zenon

-----------------------------------------------------------------------------
(* Behaviours with no SysTick in a window *)

\* While a task that is in no window runs, or none runs, all windows are closed.
LEMMA NoneInWindow ==
  ASSUME WInv, WindowsClosed,
         phase # "multi" \/ isr # 0 \/ pendsv \/ \E c \in Task : Executing(c) /\ ~InWindow(c)
  PROVE  \A t \in Task : ~InWindow(t)
BY Zenon DEF WindowsClosed, Executing

\* A step of the running task c that leaves the others out of their windows.
LEMMA WindowsActor ==
  ASSUME WindowsClosed, NEW c \in Task, Executing(c),
         \A t \in Task \ {c} : InWindow(t)' => InWindow(t), InWindow(c)' => Executing(c)'
  PROVE  WindowsClosed'
BY DEF WindowsClosed, Executing

\* The steps of Kernel, of a call under way, of creation and of a timeout.
LEMMA WindowsScheduler ==
  ASSUME WInv, WindowsClosed, TickInWindow = FALSE, UNCHANGED <<pc, req>>,
         \/ RtosStart \/ SVC_Handler \/ PendSV_Handler \/ WakeSkip \/ WakeDelay
         \/ (TickAllowed /\ rtos_tick_increment) \/ SysTickReturn \/ WakeTimeout
         \/ (\E c \in User : TaskYield(c)) \/ \E x, p : TaskCreate(x, p)
  PROVE  WindowsClosed'
<1>1. \A t \in Task : ~InWindow(t)
  <2>1. CASE rtos_tick_increment /\ TickAllowed
    <3>1. \A t \in Task : InWindow(t) => t # Idle
      BY DEF WInv, CallOK, InWindow
    <3> QED BY <2>1, <3>1 DEF TickAllowed, WindowsClosed, Executing, User
  <2>2. CASE \E c \in User : TaskYield(c)
    <3>1. PICK c \in User : TaskYield(c)
      BY <2>2
    <3>2. c \in Task /\ Executing(c) /\ ~InWindow(c)
      BY <3>1 DEF TaskYield, InApp, InWindow, User
    <3> QED BY <3>2, NoneInWindow
  <2>3. CASE RtosStart \/ SVC_Handler \/ PendSV_Handler \/ \E x, p : TaskCreate(x, p)
    <3>1. phase # "multi" \/ isr # 0 \/ pendsv
      BY <2>3 DEF RtosStart, SVC_Handler, PendSV_Handler, TaskCreate
    <3> QED BY <3>1, NoneInWindow
  <2>4. CASE WakeSkip \/ WakeDelay \/ SysTickReturn \/ WakeTimeout
    <3>1. WakeSkip \/ WakeDelay \/ SysTickReturn => isr # 0
      <4>1. WakeSkip \/ WakeDelay \/ SysTickReturn =>
              isr \in 1 .. Len(registry) \/ isr = Len(registry) + 1
        BY Zenon DEF WakeSkip, WakeDelay, SysTickReturn
      <4>2. Len(registry) \in Nat
        BY LenOfSeq DEF WInv, Inv, TypeOK
      <4> QED BY ONLY <4>1, <4>2
    <3>2. WakeTimeout => isr # 0
      BY DEF WakeTimeout
    <3> QED BY <2>4, <3>1, <3>2, NoneInWindow, Zenon
  <2> QED BY <2>1, <2>2, <2>3, <2>4, Zenon
<1> QED BY <1>1, Zenon DEF WindowsClosed, InWindow

LEMMA WindowsSteady ==
  ASSUME WInv, WindowsClosed, TickInWindow = FALSE,
         \/ KernelStep \/ WaitStep
         \/ (\E x \in User, p \in Priority : TaskCreate(x, p)) /\ UNCHANGED waitVars
         \/ WakeTimeout \/ (\E c \in User, x \in User : WaitTaskDelete(c, x))
         \/ (\E c \in User : Posted(c)) \/ (\E c \in User : \E r, o, n : CallWait(c, r, o, n))
         \/ UNCHANGED <<vars, waitVars>>
  PROVE  WindowsClosed'
<1>0. pc \in [Task -> Place] /\ req \in [Task -> [reason : Reason, ticks : Ticks \cup {0}]]
  BY DEF WInv, Inv, TypeOK
<1>1. ASSUME NEW c \in User, Executing(c), \A t \in Task \ {c} : pc'[t] = pc[t] /\ req'[t] = req[t],
             ~InWindow(c)' \/ UNCHANGED <<current_tcb, pendsv, isr, phase>>
      PROVE  WindowsClosed'
  <2>1. c \in Task /\ \A t \in Task \ {c} : InWindow(t)' => InWindow(t)
    BY <1>1, Zenon DEF InWindow, User
  <2>2. InWindow(c)' => Executing(c)'
    BY <1>1, Zenon DEF Executing
  <2> QED BY <1>1, <2>1, <2>2, WindowsActor
<1>2. CASE WakeTimeout
  BY <1>2, WindowsScheduler, Zenon DEF WakeTimeout, taskVars
<1>3. CASE \E x \in User, p \in Priority : TaskCreate(x, p)
  BY <1>3, WindowsScheduler, Zenon DEF TaskCreate, taskVars
<1>4. CASE \E c \in User, x \in User : WaitTaskDelete(c, x)
  <2>1. PICK c \in User, x \in User : WaitTaskDelete(c, x)
    BY <1>4
  <2>2. /\ Executing(c) /\ x # c /\ c \in Task /\ pc[c] = "app"
        /\ UNCHANGED <<current_tcb, pendsv, isr, phase>>
    BY <2>1, Zenon DEF WaitTaskDelete, TaskDelete, cpuVars, InApp, User
  <2>3. pc'[x] = "app" /\ \A t \in Task \ {x} : pc'[t] = pc[t] /\ req'[t] = req[t]
    BY <2>1, DeleteSteady, Zenon
  <2>4. \A t \in Task : InWindow(t)' => InWindow(t)
    BY <2>3 DEF InWindow
  <2>5. InWindow(c)' => Executing(c)'
    BY <2>2, Zenon DEF Executing
  <2> QED BY <2>2, <2>4, <2>5, WindowsActor
<1>5. CASE \E c \in User : Posted(c)
  <2>1. PICK c \in User : Posted(c)
    BY <1>5
  <2>2. Executing(c) /\ ~InWindow(c)' /\ \A t \in Task \ {c} : pc'[t] = pc[t] /\ req'[t] = req[t]
    BY <1>0, <2>1 DEF Posted, InWindow, User
  <2> QED BY <1>1, <2>2
<1>6. CASE \E c \in User : \E r, o, n : CallWait(c, r, o, n)
  <2>c. PICK c \in User : \E r, o, n : CallWait(c, r, o, n)
    BY <1>6
  <2>1. PICK r, o, n : CallWait(c, r, o, n)
    BY <2>c, SMTT(20)
  <2>2. Executing(c) /\ ~InWindow(c)' /\ \A t \in Task \ {c} : pc'[t] = pc[t] /\ req'[t] = req[t]
    BY <1>0, <2>1 DEF CallWait, InWindow, User, InApp
  <2> QED BY <1>1, <2>2
<1>7. CASE WaitStep
  <2>1. PICK c \in User : WaitBlockStore(c) \/ Unblocked(c)
    BY <1>7 DEF WaitStep
  <2>2. CASE WaitBlockStore(c)
    <3>1. Executing(c) /\ UNCHANGED <<current_tcb, pendsv, isr, phase>>
      BY <2>2 DEF WaitBlockStore, BlockStore, cpuVars
    <3>2. \A t \in Task \ {c} : pc'[t] = pc[t] /\ req'[t] = req[t]
      BY <1>0, <2>2 DEF WaitBlockStore, BlockStore, User
    <3> QED BY <1>1, <3>1, <3>2, Zenon
  <2>3. CASE Unblocked(c)
    <3>1. Executing(c) /\ UNCHANGED <<current_tcb, pendsv, isr, phase>>
      BY <2>3, ZenonT(30) DEF Unblocked, cpuVars
    <3>2. \A t \in Task \ {c} : pc'[t] = pc[t] /\ req'[t] = req[t]
      BY <1>0, <2>3, Zenon DEF Unblocked, CallReturn, User
    <3> QED BY <1>1, <3>1, <3>2
  <2> QED BY <2>1, <2>2, <2>3
<1>8. CASE UNCHANGED <<vars, waitVars>>
  BY <1>8, Zenon DEF WindowsClosed, InWindow, Executing, vars, taskVars, cpuVars
<1>9. CASE KernelStep
  <2>1. CASE \E c \in User : BlockCommit(c) \/ BlockMark(c) \/ DelayReturn(c)
                             \/ \E n \in Ticks : TaskDelay(c, n)
    <3>1. PICK c \in User : BlockCommit(c) \/ BlockMark(c) \/ DelayReturn(c)
                             \/ \E n \in Ticks : TaskDelay(c, n)
      BY <2>1
    <3>2. CallOK(c) /\ c \in Task
      BY SMTT(20) DEF WInv, User
    <3>3. /\ Executing(c) /\ ~InWindow(c)'
          /\ \A t \in Task \ {c} : pc'[t] = pc[t] /\ req'[t] = req[t]
      <4>1. CASE BlockCommit(c) \/ BlockMark(c)
        BY <1>0, <3>2, <4>1 DEF BlockCommit, BlockMark, InWindow
      <4>2. CASE DelayReturn(c)
        BY <1>0, <3>2, <4>2 DEF DelayReturn, InWindow
      <4>3. CASE \E n \in Ticks : TaskDelay(c, n)
        BY <1>0, <3>2, <4>3 DEF TaskDelay, InWindow, InApp
      <4> QED BY <3>1, <4>1, <4>2, <4>3, Zenon
    <3> QED BY <1>1, <3>3, Zenon
  <2>2. CASE \/ RtosStart \/ SVC_Handler \/ PendSV_Handler \/ WakeSkip \/ WakeDelay
             \/ (TickAllowed /\ rtos_tick_increment) \/ SysTickReturn
             \/ \E c \in User : TaskYield(c)
    <3>1. UNCHANGED <<pc, req>>
      BY <2>2, Zenon DEF RtosStart, SVC_Handler, PendSV_Handler, WakeSkip, WakeDelay,
                         rtos_tick_increment, SysTickReturn, TaskYield, taskVars
    <3> QED BY <2>2, <3>1, WindowsScheduler, ZenonT(30)
  <2> QED BY <1>9, <2>1, <2>2, SMTT(20) DEF KernelStep
<1> QED BY <1>2, <1>3, <1>4, <1>5, <1>6, <1>7, <1>8, <1>9

-----------------------------------------------------------------------------
(* A running task wakes a waiter *)

\* c, at an end of its call or in none, makes w READY.
LEMMA Wakes ==
  ASSUME WInv, Inv', NEW c \in Task, NEW w \in Task, state[w] = "BLOCKED", CallOK(c)',
         MakeReady(w, ready), UNCHANGED block_wake_status, w # c,
         object' \in [Task -> Object \cup {NULL}],
         \A t \in Task \ {c} : pc'[t] = pc[t] /\ req'[t] = req[t] /\ object'[t] = object[t]
  PROVE  /\ WInv' /\ (\A t \in Task \ {c, w} : SameWait(t)) /\ (\A t \in Task \ {c} : SameCall(t))
         /\ ~Waits(w)'
         /\ \A r \in WaitReason, o \in Object :
              /\ ~OnItsWay(w, r, o)
              /\ OnItsWay(w, r, o)' <=> WaitingFor(w, r, o)
<1>1. /\ state' = [state EXCEPT ![w] = "READY"]
      /\ block_reason' = [block_reason EXCEPT ![w] = "NONE"]
      /\ block_object' = [block_object EXCEPT ![w] = NULL]
  BY Zenon DEF MakeReady
<1>2. WaitTypes'
  BY <1>1, ZenonT(30) DEF WInv, WaitTypes
<1>3. pc'[w] = pc[w] /\ req'[w] = req[w] /\ object'[w] = object[w]
  BY Zenon
<1>4. /\ CallOK(w)' /\ SameCall(w) /\ ~Waits(w)' /\ ~(\E r, o : OnItsWay(w, r, o))
      /\ \A r \in WaitReason, o \in Object :
           WaitingFor(w, r, o) <=> r = block_reason[w] /\ o = block_object[w]
      /\ block_reason[w] = req[w].reason /\ block_object[w] = object[w]
      /\ \A r \in WaitReason, o \in Object :
           OnItsWay(w, r, o)' <=> /\ r = req[w].reason /\ o = object[w]
                                  /\ block_wake_status'[w] = "OK"
  BY <1>1, <1>2, <1>3, Woken, Zenon
<1>5. block_wake_status[w] = "OK"
  BY Zenon DEF WInv, CallOK
<1>6. \A t \in Task \ {c, w} : SameTask(t)
  <2>1. \A t \in Task \ {c, w} :
          /\ state'[t] = state[t] /\ block_reason'[t] = block_reason[t]
          /\ block_object'[t] = block_object[t]
    <3>1. DOMAIN state = Task /\ DOMAIN block_reason = Task /\ DOMAIN block_object = Task
      BY DEF WInv, Inv, TypeOK, WaitTypes
    <3> QED BY ONLY <1>1, <3>1
  <2> QED BY <2>1, ZenonT(30) DEF SameTask
<1>7. \A t \in Task \cap {c, w} : CallOK(t)'
  BY <1>4, Zenon
<1>8. WInv' /\ \A t \in Task \ {c, w} : SameWait(t) /\ SameCall(t)
  BY <1>2, <1>6, <1>7, OthersSteady, Zenon
<1>9. \A r \in WaitReason, o \in Object : OnItsWay(w, r, o)' <=> WaitingFor(w, r, o)
  BY <1>4, <1>5, Zenon
<1> QED BY <1>4, <1>8, <1>9, Zenon

\* Who waits, after a step that changes only the waits of the tasks of X.
LEMMA WaitSetStep ==
  ASSUME NEW X, \A t \in Task \ X : SameWait(t), NEW r \in WaitReason, NEW o \in Object
  PROVE  WaitSet(r, o)' \ X = WaitSet(r, o) \ X
<1>1. \A t \in Task \ X : WaitingFor(t, r, o)' <=> WaitingFor(t, r, o)
  BY Zenon DEF SameWait
<1> QED BY <1>1, Zenon DEF WaitSet

\* A queue that w is taken off, when w waits no more.
LEMMA ListsLeft ==
  ASSUME NEW X, NEW q, NEW S, NEW r \in WaitReason, NEW o \in Object, Lists(q, S \ X),
         S = WaitSet(r, o), \A t \in Task \ X : SameWait(t), \A t \in Task \cap X : ~Waits(t)'
  PROVE  Lists(q, WaitSet(r, o)')
<1>1. \A t \in Task \cap X : ~WaitingFor(t, r, o)'
  BY Zenon DEF Waits
<1>2. WaitSet(r, o)' = S \ X
  BY <1>1, WaitSetStep DEF WaitSet
<1> QED BY <1>2

-----------------------------------------------------------------------------
(* How many are on their way *)

Takers(r, o) == {t \in Task : OnItsWay(t, r, o)}

\* A step that takes nobody off the way but c.
LEMMA TakersLose ==
  ASSUME IsFiniteSet(Task), NEW r, NEW o, NEW c,
         \A t \in Task \ {c} : OnItsWay(t, r, o) => OnItsWay(t, r, o)'
  PROVE  /\ Cardinality(Takers(r, o)) \in Nat /\ Cardinality(Takers(r, o)') \in Nat
         /\ Cardinality(Takers(r, o)) <= Cardinality(Takers(r, o)') + 1
<1> DEFINE S == Takers(r, o)  U == Takers(r, o)'
<1>1. S \in SUBSET Task /\ U \in SUBSET Task /\ S \ {c} \in SUBSET U
  BY DEF Takers
<1> HIDE DEF S, U
<1>2. /\ IsFiniteSet(S) /\ IsFiniteSet(U) /\ IsFiniteSet(S \ {c})
  BY <1>1, FS_Subset
<1>3. Cardinality(S) \in Nat /\ Cardinality(U) \in Nat /\ Cardinality(S \ {c}) \in Nat
  BY <1>2, FS_CardinalityType
<1>4. Cardinality(S \ {c}) <= Cardinality(U)
  BY <1>1, <1>2, FS_Subset
<1>5. Cardinality(S \ {c}) = IF c \in S THEN Cardinality(S) - 1 ELSE Cardinality(S)
  BY <1>2, FS_RemoveElement
<1> QED BY <1>3, <1>4, <1>5 DEF S, U

\* A step that takes nobody off the way.
LEMMA TakersKept ==
  ASSUME IsFiniteSet(Task), NEW r, NEW o,
         \A t \in Task : OnItsWay(t, r, o) => OnItsWay(t, r, o)'
  PROVE  /\ Cardinality(Takers(r, o)) \in Nat /\ Cardinality(Takers(r, o)') \in Nat
         /\ Cardinality(Takers(r, o)) <= Cardinality(Takers(r, o)')
<1> DEFINE S == Takers(r, o)  U == Takers(r, o)'
<1>1. S \in SUBSET Task /\ U \in SUBSET Task /\ S \in SUBSET U
  BY DEF Takers
<1> HIDE DEF S, U
<1>2. IsFiniteSet(S) /\ IsFiniteSet(U)
  BY <1>1, FS_Subset
<1>3. Cardinality(S) \in Nat /\ Cardinality(U) \in Nat
  BY <1>2, FS_CardinalityType
<1>4. Cardinality(S) <= Cardinality(U)
  BY <1>1, <1>2, FS_Subset
<1> QED BY <1>3, <1>4 DEF S, U

\* A step that sends w on its way and takes off nobody.
LEMMA TakersGain ==
  ASSUME IsFiniteSet(Task), NEW r, NEW o, NEW w \in Task,
         \A t \in Task : OnItsWay(t, r, o) => OnItsWay(t, r, o)',
         ~OnItsWay(w, r, o), OnItsWay(w, r, o)'
  PROVE  /\ Cardinality(Takers(r, o)) \in Nat /\ Cardinality(Takers(r, o)') \in Nat
         /\ Cardinality(Takers(r, o)) + 1 <= Cardinality(Takers(r, o)')
<1> DEFINE S == Takers(r, o)  U == Takers(r, o)'
<1>1. S \in SUBSET Task /\ U \in SUBSET Task /\ S \cup {w} \in SUBSET U /\ w \notin S
  BY DEF Takers
<1> HIDE DEF S, U
<1>2. IsFiniteSet(S) /\ IsFiniteSet(U) /\ IsFiniteSet(S \cup {w})
  BY <1>1, FS_Subset, FS_AddElement
<1>3. Cardinality(S) \in Nat /\ Cardinality(U) \in Nat /\ Cardinality(S \cup {w}) \in Nat
  BY <1>2, FS_CardinalityType
<1>4. Cardinality(S \cup {w}) <= Cardinality(U)
  BY <1>1, <1>2, FS_Subset
<1>5. Cardinality(S \cup {w}) = Cardinality(S) + 1
  BY <1>1, <1>2, FS_AddElement
<1> QED BY <1>3, <1>4, <1>5 DEF S, U

-----------------------------------------------------------------------------
(* Waiters are woken in time *)

\* rtos_wake_delayed has a branch for every BLOCKED task.
LEMMA BlockedHasReason == WInv => BlockedForReason
<1> SUFFICES ASSUME WInv, NEW t \in Task, state[t] = "BLOCKED" PROVE block_reason[t] # "NONE"
  BY DEF BlockedForReason
<1>1. CallOK(t)
  BY DEF WInv
<1> QED BY <1>1 DEF CallOK

\* Steps that move neither the counter nor SysTick and make at most one task READY.
LEMMA WakingOnTime ==
  ASSUME WInv, OnTime, UNCHANGED <<wake_time, tick, isr, registry>>,
         UNCHANGED state \/ \E w : state' = [state EXCEPT ![w] = "READY"]
  PROVE  OnTime'
<1>1. state \in [Task -> {"UNUSED", "READY", "RUNNING", "BLOCKED", "TERMINATED"}]
  BY DEF WInv, Inv, TypeOK
<1>2. \A t \in Task : state'[t] = "BLOCKED" => state[t] = "BLOCKED"
  BY ONLY <1>1, UNCHANGED state \/ \E w : state' = [state EXCEPT ![w] = "READY"]
<1> QED BY <1>2, QuietOnTime

\* *_wake_timeout: the waiter the loop of rtos_wake_delayed has come to is woken.
LEMMA TimeoutOnTime ==
  ASSUME WInv, OnTime, WakeTimeout
  PROVE  OnTime'
<1>1. /\ isr \in 1 .. Len(registry) /\ isr' = isr + 1
      /\ state' = [state EXCEPT ![Scanned] = "READY"] /\ UNCHANGED <<wake_time, tick, registry>>
  BY Zenon DEF WakeTimeout, MakeReady
<1>2. /\ state \in [Task -> {"UNUSED", "READY", "RUNNING", "BLOCKED", "TERMINATED"}]
      /\ registry \in Seq(Task) /\ Inv
  BY DEF WInv, Inv, TypeOK
<1>3. Scanned \in Task
  BY <1>1, <1>2, EntryOfSeq DEF Scanned
<1>4. /\ state'[Scanned] # "BLOCKED"
      /\ \A t \in Task : state'[t] = "BLOCKED" => state[t] = "BLOCKED"
  BY ONLY <1>1, <1>2, <1>3
<1>5. BlockedForReason
  BY BlockedHasReason
<1> QED BY <1>1, <1>2, <1>4, <1>5, ScanOnTime, Zenon

\* What the objects leave to Kernel and Waiting keeps every sleeper in time.
LEMMA WaitOnTime ==
  ASSUME NoWrap, WInv, OnTime,
         \/ KernelStep \/ WaitStep \/ WakeTimeout \/ (\E c \in User : Posted(c))
         \/ (\E t \in User, p \in Priority : TaskCreate(t, p))
         \/ (\E c, t \in User : WaitTaskDelete(c, t))
         \/ (\E c \in User : \E r, o, n : CallWait(c, r, o, n))
         \/ UNCHANGED vars
  PROVE  OnTime'
<1>0. Inv /\ BlockedForReason
  BY BlockedHasReason DEF WInv
<1>1. CASE KernelStep
  <2>1. Boot \/ SysTick_Handler \/ PendSV_Handler \/ \E c \in User : TaskStep(c)
    BY <1>1, Zenon DEF KernelStep, Boot, SysTick_Handler, TaskStep, Block
  <2> QED BY <1>0, <2>1, StepOnTime, Zenon
<1>2. CASE WaitStep
  <2>1. PICK c \in User : WaitBlockStore(c) \/ Unblocked(c)
    BY <1>2 DEF WaitStep
  <2>2. CASE WaitBlockStore(c)
    <3>1. TaskStep(c)
      BY <2>2, Zenon DEF WaitBlockStore, TaskStep, Block
    <3> QED BY <1>0, <3>1, StepOnTime, Zenon
  <2>3. CASE Unblocked(c)
    <3>1. UNCHANGED <<wake_time, tick, isr, registry>> /\ UNCHANGED state
      BY <2>3, Zenon DEF Unblocked, tcbVars, cpuVars
    <3> QED BY <3>1, WakingOnTime, Zenon
  <2> QED BY <2>1, <2>2, <2>3
<1>3. ASSUME NEW c \in User, Posted(c) PROVE OnTime'
  <2>1. UNCHANGED <<wake_time, tick, isr, registry>> /\ UNCHANGED state
    BY <1>3, Zenon DEF Posted, tcbVars
  <2> QED BY <2>1, WakingOnTime, Zenon
<1>4. CASE \E t \in User, p \in Priority : TaskCreate(t, p)
  <2>1. Boot
    BY <1>4, Zenon DEF Boot
  <2> QED BY <1>0, <2>1, StepOnTime, Zenon
<1>5. ASSUME NEW c \in User, NEW t \in User, WaitTaskDelete(c, t) PROVE OnTime'
  <2>1. TaskStep(c)
    BY <1>5, Zenon DEF WaitTaskDelete, TaskStep
  <2> QED BY <1>0, <2>1, StepOnTime, Zenon
<1>6. ASSUME NEW c \in User, NEW r, NEW o, NEW n, CallWait(c, r, o, n) PROVE OnTime'
  <2>1. UNCHANGED <<wake_time, tick, isr, registry>> /\ UNCHANGED state
    BY <1>6, Zenon DEF CallWait, tcbVars, cpuVars
  <2> QED BY <2>1, WakingOnTime, Zenon
<1>7. CASE UNCHANGED vars
  BY <1>0, <1>7, StepOnTime, Zenon
<1> QED BY <1>1, <1>2, <1>3, <1>4, <1>5, <1>6, <1>7, TimeoutOnTime, Zenon
=============================================================================

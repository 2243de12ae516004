---------------------------- MODULE SemaphoreProofs ----------------------------
(***************************************************************************)
(* The semaphore keeps its wait queue exact, loses no wakeup and serves    *)
(* timeouts when they end, for any number of tasks, any count and any      *)
(* configuration in which no poster runs while a waiter is between         *)
(* enqueueing and blocking.                                                *)
(***************************************************************************)
EXTENDS Semaphore, WaitingProofs

\* Every waiter is more urgent than every poster.
WaitersFirst ==
  /\ Waiter \cap Poster = {}
  /\ \A p \in WaiterPriority, q \in PosterPriority : PrioBucket(p) < PrioBucket(q)

\* No poster runs while a waiter is in a window.
Restricted == TickInWindow = FALSE \/ WaitersFirst

Created(t) == t \in Members(registry)

Roles ==
  /\ \A t \in Task : \/ req[t].reason \in {"NONE", "DELAY"}
                     \/ req[t].reason = "SEMAPHORE" /\ t \in Waiter
  /\ WaitersFirst =>
       \A t \in Task : Created(t) =>
         /\ t \in Waiter => \E p \in WaiterPriority : prio_bucket[t] = PrioBucket(p)
         /\ t \in Poster => \E p \in PosterPriority : prio_bucket[t] = PrioBucket(p)

\* The inductive invariant.
SInv ==
  /\ WInv /\ MostUrgentRuns /\ Roles
  /\ count \in 0 .. SemMax /\ waiters \in Seq(Waiter) /\ WaitQueueExact
  /\ TickInWindow = FALSE => WindowsClosed

-----------------------------------------------------------------------------
LEMMA SemConstants ==
  /\ Sem \in Object /\ "SEMAPHORE" \in WaitReason /\ Waiter \subseteq Task /\ IsFiniteSet(Task)
  /\ SemMax \in Nat
BY SemaphoreAssumption DEF WaitReason, User

\* No step but task_create gives a task its bucket, and none takes another role.
LEMMA RolesKept ==
  ASSUME Roles, UNCHANGED prio_bucket, \A t \in Task : Created(t)' => Created(t),
         \A t \in Task : SameCall(t) \/ (req'[t].reason = "SEMAPHORE" /\ t \in Waiter)
  PROVE  Roles'
<1>1. \A t \in Task : \/ req'[t].reason \in {"NONE", "DELAY"}
                      \/ req'[t].reason = "SEMAPHORE" /\ t \in Waiter
  BY DEF Roles, SameCall
<1>2. WaitersFirst =>
       \A t \in Task : Created(t)' =>
         /\ t \in Waiter => \E p \in WaiterPriority : prio_bucket'[t] = PrioBucket(p)
         /\ t \in Poster => \E p \in PosterPriority : prio_bucket'[t] = PrioBucket(p)
  BY Zenon DEF Roles
<1> QED BY <1>1, <1>2, Zenon DEF Roles, WaitersFirst

\* Where waiters are more urgent, none is runnable while a poster runs.
LEMMA PosterAlone ==
  ASSUME SInv, WaitersFirst, NEW c \in User, c \in Poster, InApp(c), NEW t \in Task, t \in Waiter
  PROVE  state[t] \notin Runnable
<1>1. Inv /\ Executing(c) /\ pc[c] = "app" /\ c = current_tcb
  BY DEF SInv, WInv, InApp, Executing
<1>2. c \in Task /\ state[c] = "RUNNING" /\ Settled
  BY <1>1, Runner
<1>3. SUFFICES ASSUME state[t] \in Runnable PROVE FALSE
  OBVIOUS
<1>4. Created(c) /\ Created(t)
  BY <1>1, <1>2, <1>3 DEF Created, Inv, RegistryExact, Live, Runnable
<1>5. /\ \E p \in WaiterPriority : prio_bucket[t] = PrioBucket(p)
      /\ \E p \in PosterPriority : prio_bucket[c] = PrioBucket(p)
  BY <1>2, <1>4, Zenon DEF SInv, Roles
<1>6. prio_bucket[t] < prio_bucket[c]
  BY <1>5, Zenon DEF WaitersFirst
<1>7. prio_bucket[c] <= prio_bucket[t]
  BY <1>1, <1>2, <1>3, Zenon DEF SInv, MostUrgentRuns
<1>8. prio_bucket[c] \in Int /\ prio_bucket[t] \in Int
  BY <1>1, <1>2 DEF Inv, TypeOK, Bucket
<1> QED BY <1>6, <1>7, <1>8

\* A task in the queue is BLOCKED when a poster looks at it.
LEMMA WaiterBlocked ==
  ASSUME SInv, Restricted, NEW c \in User, c \in Poster, InApp(c),
         NEW w \in Task, WaitingFor(w, "SEMAPHORE", Sem)
  PROVE  state[w] = "BLOCKED" /\ w # c
<1>1. Inv /\ WInv /\ Executing(c) /\ pc[c] = "app" /\ c \in Task
  BY DEF SInv, WInv, InApp, User
<1>2. state[c] = "RUNNING"
  BY <1>1, Runner
<1>3. w # c
  BY <1>1, <1>2 DEF WaitingFor
<1>4. CASE state[w] \in Runnable /\ req[w].reason = "SEMAPHORE" /\ pc[w] \in {"enter", "block"}
  <2>1. w \in Waiter
    BY <1>4 DEF SInv, Roles
  <2>2. CASE WaitersFirst
    BY <1>4, <2>1, <2>2, PosterAlone
  <2>3. CASE TickInWindow = FALSE
    <3>1. InWindow(w) /\ ~InWindow(c)
      BY <1>1, <1>4 DEF InWindow
    <3>2. \A t \in Task : ~InWindow(t)
      BY <1>1, <2>3, <3>1, NoneInWindow, Zenon DEF SInv
    <3> QED BY <3>1, <3>2
  <2> QED BY <2>2, <2>3, Zenon DEF Restricted
<1> QED BY <1>3, <1>4 DEF WaitingFor

-----------------------------------------------------------------------------
(* The steps *)

LEMMA TokensKept ==
  ASSUME TokensHaveTakers, count \in Nat, UNCHANGED count, waiters' # <<>> => waiters # <<>>,
         \A t \in Task : OnItsWay(t, "SEMAPHORE", Sem) => OnItsWay(t, "SEMAPHORE", Sem)'
  PROVE  TokensHaveTakers'
<1> DEFINE T == Takers("SEMAPHORE", Sem)
<1>1. /\ Cardinality(T) \in Nat /\ Cardinality(T)' \in Nat /\ Cardinality(T) <= Cardinality(T)'
  BY TakersKept, SemConstants
<1>2. waiters # <<>> => count <= Cardinality(T)
  BY DEF TokensHaveTakers, Takers
<1>3. waiters' # <<>> => count' <= Cardinality(T)'
  BY <1>1, <1>2
<1> QED BY <1>3 DEF TokensHaveTakers, Takers

\* The steps that leave the semaphore alone.
LEMMA SteadyS ==
  ASSUME SInv, WInv', MostUrgentRuns', UNCHANGED semVars, UNCHANGED <<prio_bucket, registry>>,
         \A t \in Task : SameWait(t), TickInWindow = FALSE => WindowsClosed',
         \A t \in Task : SameCall(t) \/ (req'[t].reason = "SEMAPHORE" /\ t \in Waiter)
  PROVE  SInv' /\ (TokensHaveTakers => TokensHaveTakers')
<1>1. Roles'
  BY RolesKept DEF SInv, Created
<1>2. WaitQueueExact'
  <2>1. Lists(waiters, WaitSet("SEMAPHORE", Sem)')
    BY ListsKept, SemConstants DEF SInv, WaitQueueExact, QueueExact
  <2> QED BY <2>1 DEF WaitQueueExact, QueueExact, semVars
<1>3. \A t \in Task : OnItsWay(t, "SEMAPHORE", Sem) => OnItsWay(t, "SEMAPHORE", Sem)'
  BY SemConstants, Zenon DEF SameWait
<1>4. TokensHaveTakers => TokensHaveTakers'
  BY <1>3, TokensKept, SemConstants DEF SInv, semVars
<1>5. count' \in 0 .. SemMax /\ waiters' \in Seq(Waiter)
  BY DEF SInv, semVars
<1> QED BY <1>1, <1>2, <1>4, <1>5, Zenon DEF SInv

LEMMA OtherStepS ==
  ASSUME SInv, UNCHANGED semVars,
         KernelStep \/ WaitStep \/ (\E c \in User : Posted(c)) \/ UNCHANGED <<vars, waitVars>>
  PROVE  SInv' /\ (TokensHaveTakers => TokensHaveTakers')
<1>0. WInv /\ Inv /\ MostUrgentRuns
  BY DEF SInv, WInv
<1>1. UNCHANGED <<prio_bucket, registry>>
  <2>1. CASE KernelStep
    BY <2>1, Zenon DEF KernelStep, RtosStart, SVC_Handler, PendSV_Handler, rtos_tick_increment,
       WakeSkip, WakeDelay, SysTickReturn, TaskYield, BlockCommit, BlockMark, DelayReturn, TaskDelay,
       tcbVars
  <2>2. CASE WaitStep
    BY <2>2, Zenon DEF WaitStep, WaitBlockStore, BlockStore, Unblocked, tcbVars
  <2>3. CASE \E c \in User : Posted(c)
    BY <2>3, Zenon DEF Posted, tcbVars
  <2>4. CASE UNCHANGED <<vars, waitVars>>
    BY <2>4, Zenon DEF vars, tcbVars
  <2> QED BY <2>1, <2>2, <2>3, <2>4
<1>2. TickInWindow = FALSE => WindowsClosed'
  BY <1>0, WindowsSteady, Zenon DEF SInv
<1>3. WInv' /\ MostUrgentRuns' /\ \A t \in Task : SameWait(t) /\ SameCall(t)
  BY <1>0, OtherSteady, Zenon
<1> QED BY <1>1, <1>2, <1>3, SteadyS, Zenon

LEMMA SemWaitS ==
  ASSUME SInv, NEW c \in User, NEW n \in Ticks \cup {0}, SemWait(c, n)
  PROVE  SInv' /\ (TokensHaveTakers => TokensHaveTakers')
<1>0. WInv /\ Inv /\ MostUrgentRuns /\ c \in Waiter /\ CallWait(c, "SEMAPHORE", Sem, n) /\ c \in Task
  BY DEF SInv, WInv, SemWait, User
<1>1. UNCHANGED <<prio_bucket, registry>> /\ UNCHANGED semVars
  BY DEF SemWait, CallWait, tcbVars
<1>2. TickInWindow = FALSE => WindowsClosed'
  BY <1>0, WindowsSteady, Zenon DEF SInv
<1>3. /\ WInv' /\ MostUrgentRuns' /\ \A t \in Task : SameWait(t)
      /\ \A t \in Task \ {c} : SameCall(t)
  BY <1>0, CallSteady, SemConstants
<1>4. req'[c].reason = "SEMAPHORE"
  BY <1>0 DEF CallWait, Inv, TypeOK
<1> QED BY <1>0, <1>1, <1>2, <1>3, <1>4, SteadyS, Zenon

\* main() gives the tasks their buckets.
LEMMA SemTaskCreateS ==
  ASSUME SInv, SemTaskCreate, UNCHANGED semVars
  PROVE  SInv' /\ (TokensHaveTakers => TokensHaveTakers')
<1>1. PICK x \in User, p \in Priority :
        /\ TaskCreate(x, p)
        /\ (x \in Waiter /\ p \in WaiterPriority) \/ (x \in Poster /\ p \in PosterPriority)
  BY SemaphoreAssumption, Zenon DEF SemTaskCreate
<1>2. UNCHANGED waitVars /\ WInv /\ Inv /\ x \in Task
  BY DEF SemTaskCreate, SInv, WInv, User
<1>3. WInv' /\ \A t \in Task : SameWait(t) /\ SameCall(t)
  BY <1>1, <1>2, CreateSteady
<1>4. MostUrgentRuns' /\ (TickInWindow = FALSE => WindowsClosed')
  <2>1. MostUrgentRuns'
    BY <1>1, <1>2, KernelStepUrgent DEF SInv
  <2>2. TickInWindow = FALSE => WindowsClosed'
    BY <1>1, <1>2, WindowsSteady, Zenon DEF SInv
  <2> QED BY <2>1, <2>2
<1>5. Roles'
  <2>1. \A t \in Task : \/ req'[t].reason \in {"NONE", "DELAY"}
                        \/ req'[t].reason = "SEMAPHORE" /\ t \in Waiter
    BY <1>3 DEF SInv, Roles, SameCall
  <2>2. /\ prio_bucket'[x] = PrioBucket(p)
        /\ \A t \in Task \ {x} : prio_bucket'[t] = prio_bucket[t] /\ (Created(t)' => Created(t))
    <3>1. prio_bucket' = [prio_bucket EXCEPT ![x] = PrioBucket(p)] /\ registry' = Append(registry, x)
      BY <1>1 DEF TaskCreate
    <3>2. registry \in Seq(Task) /\ prio_bucket \in [Task -> Bucket]
      BY <1>2 DEF Inv, TypeOK
    <3>3. Members(Append(registry, x)) = Members(registry) \cup {x}
      <4>1. Len(registry) \in Nat
        BY <3>2, LenOfSeq
      <4> QED BY <1>2, <3>2, <4>1, AppendSeq DEF Members
    <3> QED BY <1>2, <3>1, <3>2, <3>3 DEF Created
  <2>3. WaitersFirst =>
         \A t \in Task : Created(t)' =>
           /\ t \in Waiter => \E q \in WaiterPriority : prio_bucket'[t] = PrioBucket(q)
           /\ t \in Poster => \E q \in PosterPriority : prio_bucket'[t] = PrioBucket(q)
    <3>1. SUFFICES ASSUME WaitersFirst, NEW t \in Task, Created(t)'
                   PROVE  /\ t \in Waiter => \E q \in WaiterPriority : prio_bucket'[t] = PrioBucket(q)
                          /\ t \in Poster => \E q \in PosterPriority : prio_bucket'[t] = PrioBucket(q)
      BY Zenon
    <3>2. CASE t = x
      <4>1. ~(t \in Waiter /\ t \in Poster)
        BY <3>1 DEF WaitersFirst
      <4> QED BY <1>1, <2>2, <3>2, <4>1, Zenon
    <3>3. CASE t # x
      BY <2>2, <3>1, <3>3, Zenon DEF SInv, Roles
    <3> QED BY <3>2, <3>3
  <2> QED BY <2>1, <2>3, Zenon DEF Roles, WaitersFirst
<1>6. WaitQueueExact' /\ count' \in 0 .. SemMax /\ waiters' \in Seq(Waiter)
  <2>1. Lists(waiters, WaitSet("SEMAPHORE", Sem)')
    BY <1>3, ListsKept, SemConstants DEF SInv, WaitQueueExact, QueueExact
  <2> QED BY <2>1 DEF WaitQueueExact, QueueExact, semVars, SInv
<1>7. TokensHaveTakers => TokensHaveTakers'
  <2>1. \A t \in Task : OnItsWay(t, "SEMAPHORE", Sem) => OnItsWay(t, "SEMAPHORE", Sem)'
    BY <1>3, SemConstants, Zenon DEF SameWait
  <2> QED BY <2>1, TokensKept, SemConstants DEF SInv, semVars
<1> QED BY <1>3, <1>4, <1>5, <1>6, <1>7, Zenon DEF SInv

\* A token is taken: one taker less, one token less.
LEMMA SemTakeS ==
  ASSUME SInv, NEW c \in User, SemTake(c)
  PROVE  SInv' /\ (TokensHaveTakers => TokensHaveTakers')
<1>0. /\ WInv /\ Inv /\ c \in Task /\ AtTry(c, "SEMAPHORE") /\ Executing(c) /\ pc[c] = "try"
      /\ count > 0 /\ count' = count - 1 /\ CallReturn(c)
      /\ UNCHANGED <<ready, tcbVars, registry, tick, waiters, current_tcb, pendsv, isr, phase>>
      /\ UNCHANGED <<block_object, block_wake_status>>
  BY DEF SInv, WInv, SemTake, AtTry, User, cpuVars
<1>1. pc' \in [Task -> Place] /\ req' \in [Task -> [reason : Reason, ticks : Ticks \cup {0}]]
  <2>1. "app" \in Place
    BY DEF Place
  <2> QED BY <1>0, <2>1, ReturnTypes, Zenon DEF CallReturn
<1>2. Inv' /\ MostUrgentRuns'
  BY <1>0, <1>1, PlaceStep, Zenon DEF SInv
<1>3. /\ CallOK(c)' /\ SameCall(c) /\ ~Waits(c) /\ ~Waits(c)'
      /\ object' \in [Task -> Object \cup {NULL}]
      /\ \A t \in Task \ {c} : pc'[t] = pc[t] /\ req'[t] = req[t] /\ object'[t] = object[t]
  BY <1>0, <1>2, Returns, Zenon DEF tcbVars
<1>4. \A t \in Task \ {c} : SameTask(t)
  BY <1>0, <1>3, Zenon DEF SameTask, tcbVars
<1>5. WaitTypes'
  BY <1>0, <1>3, Zenon DEF WInv, WaitTypes
<1>6. WInv' /\ \A t \in Task \ {c} : SameWait(t) /\ SameCall(t)
  BY <1>0, <1>2, <1>3, <1>4, <1>5, OthersSteady, Zenon
<1>7. Roles'
  BY <1>0, <1>3, <1>6, RolesKept DEF SInv, Created, tcbVars
<1>8. WaitQueueExact'
  <2>1. c \notin WaitSet("SEMAPHORE", Sem)
    BY <1>3, SemConstants DEF WaitSet, Waits
  <2>2. WaitSet("SEMAPHORE", Sem) = WaitSet("SEMAPHORE", Sem) \ {c}
    BY <2>1
  <2>3. Lists(waiters, WaitSet("SEMAPHORE", Sem) \ {c})
    BY <2>2, Zenon DEF SInv, WaitQueueExact, QueueExact
  <2>4. (\A t \in Task \ {c} : SameWait(t)) /\ (\A t \in Task \cap {c} : ~Waits(t)')
    BY <1>3, <1>6
  <2>5. Lists(waiters, WaitSet("SEMAPHORE", Sem)')
    BY <2>3, <2>4, ListsLeft, SemConstants, Zenon
  <2> QED BY <1>0, <2>5 DEF WaitQueueExact, QueueExact
<1>9. count' \in 0 .. SemMax /\ waiters' \in Seq(Waiter)
  BY <1>0, SemConstants DEF SInv
<1>10. TickInWindow = FALSE => WindowsClosed'
  <2>1. \A t \in Task \ {c} : InWindow(t)' => InWindow(t)
    BY <1>3, Zenon DEF InWindow
  <2>2. pc'[c] = "app"
    BY <1>0 DEF CallReturn, Inv, TypeOK
  <2>3. ~InWindow(c)'
    BY <2>2 DEF InWindow
  <2> QED BY <1>0, <2>1, <2>3, WindowsActor DEF SInv
<1>11. TokensHaveTakers => TokensHaveTakers'
  <2> DEFINE T == Takers("SEMAPHORE", Sem)
  <2>1. \A t \in Task \ {c} : OnItsWay(t, "SEMAPHORE", Sem) => OnItsWay(t, "SEMAPHORE", Sem)'
    BY <1>6, SemConstants, Zenon DEF SameWait
  <2>2. /\ Cardinality(T) \in Nat /\ Cardinality(T)' \in Nat
        /\ Cardinality(T) <= Cardinality(T)' + 1
    BY <2>1, TakersLose, SemConstants, Zenon
  <2>3. TokensHaveTakers => (waiters # <<>> => count <= Cardinality(T))
    BY DEF TokensHaveTakers, Takers
  <2>4. count \in Nat
    BY SemConstants DEF SInv
  <2>5. TokensHaveTakers => (waiters' # <<>> => count' <= Cardinality(T)')
    BY <1>0, <2>2, <2>3, <2>4
  <2> QED BY <2>5 DEF TokensHaveTakers, Takers
<1> QED BY <1>2, <1>6, <1>7, <1>8, <1>9, <1>10, <1>11, Zenon DEF SInv

LEMMA SemEnqueueS ==
  ASSUME SInv, NEW c \in User, SemEnqueue(c)
  PROVE  SInv' /\ (TokensHaveTakers => TokensHaveTakers')
<1>0. /\ WInv /\ Inv /\ c \in Task /\ AtTry(c, "SEMAPHORE") /\ Executing(c) /\ pc[c] = "try"
      /\ count = 0 /\ count' = count /\ pc' = [pc EXCEPT ![c] = "enter"]
      /\ waiters' = Enqueued(waiters, c) /\ req[c].reason = "SEMAPHORE"
      /\ UNCHANGED <<ready, tcbVars, registry, tick, current_tcb, pendsv, isr, phase>>
      /\ UNCHANGED <<state, block_reason, req>> /\ UNCHANGED waitVars
  BY DEF SInv, WInv, SemEnqueue, AtTry, User, cpuVars, tcbVars
<1>1. pc' \in [Task -> Place] /\ req' \in [Task -> [reason : Reason, ticks : Ticks \cup {0}]]
  <2>1. "enter" \in Place
    BY DEF Place
  <2> QED BY <1>0, <2>1, ReturnTypes, Zenon
<1>2. Inv' /\ MostUrgentRuns'
  BY <1>0, <1>1, PlaceStep, Zenon DEF SInv
<1>3. /\ WInv' /\ (\A t \in Task \ {c} : SameWait(t)) /\ (\A t \in Task : SameCall(t))
      /\ ~Waits(c) /\ object[c] \in Object
      /\ \A s \in WaitReason, o \in Object :
           WaitingFor(c, s, o)' <=> s = "SEMAPHORE" /\ o = object[c]
  BY <1>0, <1>2, Enters, Zenon
<1>4. Roles' /\ c \in Waiter
  BY <1>0, <1>3, RolesKept, Zenon DEF SInv, Created, tcbVars, Roles
<1>5. WaitQueueExact' /\ waiters' \in Seq(Waiter)
  <2> DEFINE S == WaitSet("SEMAPHORE", Sem)
  <2>1. c \notin S /\ Lists(waiters, S) /\ waiters \in Seq(Waiter)
    BY <1>3, SemConstants DEF WaitSet, Waits, SInv, WaitQueueExact, QueueExact
  <2>2. Lists(waiters', S \cup {c}) /\ waiters' \in Seq(Waiter)
    BY <1>0, <1>4, <2>1, ListsAppend, Zenon
  <2>3. WaitingFor(c, "SEMAPHORE", Sem)'
    BY <1>3, SemConstants, SemaphoreAssumption
  <2>4. S' \ {c} = S \ {c}
    BY <1>3, WaitSetStep, SemConstants, Zenon
  <2>5. c \in S'
    BY <1>0, <2>3 DEF WaitSet
  <2>6. S' = S \cup {c}
    BY <2>4, <2>5
  <2> QED BY <2>2, <2>6 DEF WaitQueueExact, QueueExact
<1>6. count' \in 0 .. SemMax
  BY <1>0 DEF SInv
<1>7. TickInWindow = FALSE => WindowsClosed'
  <2>1. \A t \in Task \ {c} : InWindow(t)' => InWindow(t)
    BY <1>0 DEF InWindow, Inv, TypeOK
  <2>2. Executing(c)'
    BY <1>0, Zenon DEF Executing
  <2> QED BY <1>0, <2>1, <2>2, WindowsActor DEF SInv
<1>8. TokensHaveTakers'
  <2>1. IsFiniteSet({t \in Task : OnItsWay(t, "SEMAPHORE", Sem)'})
    BY SemConstants, FS_Subset
  <2>2. Cardinality({t \in Task : OnItsWay(t, "SEMAPHORE", Sem)'}) \in Nat
    BY <2>1, FS_CardinalityType
  <2>3. count' = 0
    BY <1>0
  <2> QED BY ONLY <2>2, <2>3 DEF TokensHaveTakers
<1> QED BY <1>2, <1>3, <1>4, <1>5, <1>6, <1>7, <1>8, Zenon DEF SInv

\* Nobody waits: the poster goes to scheduler_mark_reschedule.
LEMMA SemPostFreeS ==
  ASSUME SInv, NEW c \in User, SemPostFree(c)
  PROVE  SInv' /\ (TokensHaveTakers => TokensHaveTakers')
<1>0. /\ WInv /\ Inv /\ c \in Task /\ Executing(c) /\ pc[c] = "app" /\ c # Idle
      /\ count < SemMax /\ count' = count + 1 /\ pc' = [pc EXCEPT ![c] = "posted"]
      /\ waiters = <<>> /\ UNCHANGED waiters
      /\ UNCHANGED <<ready, tcbVars, registry, tick, current_tcb, pendsv, isr, phase>>
      /\ UNCHANGED <<state, block_reason, req>> /\ UNCHANGED waitVars
  BY DEF SInv, WInv, SemPostFree, InApp, User, cpuVars, tcbVars
<1>1. pc' \in [Task -> Place] /\ req' \in [Task -> [reason : Reason, ticks : Ticks \cup {0}]]
  <2>1. "posted" \in Place
    BY DEF Place
  <2> QED BY <1>0, <2>1, ReturnTypes, Zenon
<1>2. Inv' /\ MostUrgentRuns'
  BY <1>0, <1>1, PlaceStep, Zenon DEF SInv
<1>3. (\A t \in Task \ {c} : pc'[t] = pc[t]) /\ pc'[c] = "posted" /\ state[c] = "RUNNING"
  <2>1. state[c] = "RUNNING"
    BY <1>0, Runner
  <2> QED BY <1>0, <2>1 DEF Inv, TypeOK
<1>4. \A t \in Task \ {c} : SameTask(t)
  BY <1>0, <1>3, Zenon DEF SameTask, waitVars
<1>5. CallOK(c)' /\ WaitTypes'
  <2>1. CallOK(c)
    BY <1>0 DEF WInv
  <2> QED BY <1>0, <1>3, <2>1 DEF CallOK, WInv, WaitTypes, waitVars
<1>6. WInv' /\ \A t \in Task \ {c} : SameWait(t) /\ SameCall(t)
  BY <1>0, <1>2, <1>4, <1>5, OthersSteady, Zenon
<1>7. SameWait(c) /\ SameCall(c)
  <2>1. /\ pc[c] = "app" /\ pc'[c] = "posted" /\ state[c] = "RUNNING" /\ state'[c] = state[c]
        /\ req' = req
    BY <1>0, <1>3, Zenon DEF tcbVars, InApp
  <2>2. \A r, o : /\ ~WaitingFor(c, r, o) /\ ~WaitingFor(c, r, o)' /\ ~OnItsWay(c, r, o)
    BY ONLY <2>1 DEF WaitingFor, OnItsWay
  <2> QED BY ONLY <2>1, <2>2, Zenon DEF SameWait, SameCall
<1>8. Roles'
  BY <1>0, <1>6, <1>7, RolesKept DEF SInv, Created, tcbVars
<1>9. WaitQueueExact' /\ count' \in 0 .. SemMax /\ waiters' \in Seq(Waiter)
  <2>1. Lists(waiters, WaitSet("SEMAPHORE", Sem)')
    BY <1>6, <1>7, ListsKept, SemConstants DEF SInv, WaitQueueExact, QueueExact
  <2> QED BY <1>0, <2>1, SemConstants DEF WaitQueueExact, QueueExact, SInv
<1>10. TickInWindow = FALSE => WindowsClosed'
  <2>1. \A t \in Task \ {c} : InWindow(t)' => InWindow(t)
    BY <1>0, <1>3, Zenon DEF InWindow
  <2>2. ~InWindow(c)'
    BY <1>3 DEF InWindow
  <2> QED BY <1>0, <2>1, <2>2, WindowsActor DEF SInv
<1>11. TokensHaveTakers'
  BY <1>0 DEF TokensHaveTakers
<1> QED BY <1>2, <1>6, <1>8, <1>9, <1>10, <1>11, Zenon DEF SInv

\* The head of the queue is woken: one taker more, one token more.
LEMMA SemPostWakeS ==
  ASSUME SInv, Restricted, NEW c \in User, SemPostWake(c)
  PROVE  SInv' /\ (TokensHaveTakers => TokensHaveTakers')
<1> DEFINE S == WaitSet("SEMAPHORE", Sem)
<1>w. PICK w : w = Head(waiters)
  OBVIOUS
<1>0. /\ WInv /\ Inv /\ c \in Task /\ Executing(c) /\ pc[c] = "app" /\ c # Idle
      /\ InApp(c) /\ c \in Poster
      /\ count < SemMax /\ count' = count + 1 /\ pc' = [pc EXCEPT ![c] = "posted"]
      /\ waiters # <<>> /\ waiters' = Tail(waiters) /\ MakeReady(w, ready)
      /\ UNCHANGED <<prio_bucket, wake_time, time_slice_counter, registry, tick, current_tcb, isr,
                     phase>>
      /\ UNCHANGED <<pendsv, req, block_wake_status, object>>
  BY <1>w DEF SInv, WInv, SemPostWake, InApp, User, cpuVars
<1>1. w \in S /\ waiters' \in Seq(Waiter) /\ Lists(waiters', S \ {w})
  BY <1>w, <1>0, ListsTail, Zenon DEF SInv, WaitQueueExact, QueueExact
<1>2. w \in Task /\ WaitingFor(w, "SEMAPHORE", Sem)
  BY <1>1 DEF WaitSet
<1>3. state[w] = "BLOCKED" /\ w # c
  BY <1>0, <1>2, WaiterBlocked
<1>4. pc' \in [Task -> Place] /\ req' \in [Task -> [reason : Reason, ticks : Ticks \cup {0}]]
  <2>1. "posted" \in Place
    BY DEF Place
  <2> QED BY <1>0, <2>1, ReturnTypes, Zenon
<1>5. (\A t \in Task \ {c} : pc'[t] = pc[t]) /\ pc'[c] = "posted" /\ pendsv \in BOOLEAN
  BY <1>0 DEF Inv, TypeOK
<1>6. Inv' /\ MostUrgentRuns'
  BY <1>0, <1>2, <1>3, <1>4, <1>5, MakeReadyInv
<1>7. state[c] = "RUNNING" /\ state'[c] = state[c] /\ block_reason'[c] = block_reason[c]
      /\ block_object'[c] = block_object[c]
  <2>1. state[c] = "RUNNING"
    BY <1>0, Runner, SMTT(20)
  <2> QED BY <1>0, <1>3, <2>1, Zenon DEF MakeReady, WInv, Inv, TypeOK, WaitTypes
<1>8. CallOK(c)'
  <2>1. CallOK(c)
    BY <1>0 DEF WInv
  <2> QED BY <1>0, <1>5, <1>7, <2>1 DEF CallOK
<1>9. object' \in [Task -> Object \cup {NULL}]
  BY <1>0 DEF WInv, WaitTypes
<1>10. /\ WInv' /\ (\A t \in Task \ {c, w} : SameWait(t)) /\ (\A t \in Task \ {c} : SameCall(t))
       /\ ~Waits(w)'
       /\ \A r \in WaitReason, o \in Object :
            /\ ~OnItsWay(w, r, o)
            /\ OnItsWay(w, r, o)' <=> WaitingFor(w, r, o)
  BY <1>0, <1>2, <1>3, <1>5, <1>6, <1>8, <1>9, Wakes, Zenon
<1>11. SameWait(c) /\ SameCall(c)
  BY <1>0, <1>5, <1>7 DEF SameWait, SameCall, WaitingFor, OnItsWay
<1>12. \A t \in Task \ {w} : SameWait(t)
  BY <1>10, <1>11, SMTT(20)
<1>13. Roles'
  BY <1>0, <1>10, <1>11, RolesKept, Zenon DEF SInv, Created
<1>14. WaitQueueExact'
  <2>1. \A t \in Task \cap {w} : ~Waits(t)'
    BY <1>10
  <2>2. Lists(waiters', WaitSet("SEMAPHORE", Sem)')
    BY <1>1, <1>12, <2>1, ListsLeft, SemConstants, Zenon
  <2> QED BY <2>2 DEF WaitQueueExact, QueueExact
<1>15. count' \in 0 .. SemMax
  BY <1>0, SemConstants DEF SInv
<1>16. TickInWindow = FALSE => WindowsClosed'
  <2>1. \A t \in Task \ {c} : InWindow(t)' => InWindow(t)
    BY <1>0, <1>5, Zenon DEF InWindow
  <2>2. ~InWindow(c)'
    BY <1>5 DEF InWindow
  <2> QED BY <1>0, <2>1, <2>2, WindowsActor DEF SInv
<1>17. TokensHaveTakers => TokensHaveTakers'
  <2> DEFINE T == Takers("SEMAPHORE", Sem)
  <2>1. ~OnItsWay(w, "SEMAPHORE", Sem) /\ OnItsWay(w, "SEMAPHORE", Sem)'
    BY <1>2, <1>10, SemConstants
  <2>2. \A t \in Task : OnItsWay(t, "SEMAPHORE", Sem) => OnItsWay(t, "SEMAPHORE", Sem)'
    <3>1. \A t \in Task \ {w} : OnItsWay(t, "SEMAPHORE", Sem) => OnItsWay(t, "SEMAPHORE", Sem)'
      BY <1>12, SemConstants, Zenon DEF SameWait
    <3> QED BY <2>1, <3>1, Zenon
  <2>3. /\ Cardinality(T) \in Nat /\ Cardinality(T)' \in Nat
        /\ Cardinality(T) + 1 <= Cardinality(T)'
    BY <1>2, <2>1, <2>2, TakersGain, SemConstants, Zenon
  <2>4. TokensHaveTakers => count <= Cardinality(T)
    BY <1>0 DEF TokensHaveTakers, Takers
  <2>5. count \in Nat
    BY SemConstants DEF SInv
  <2>6. TokensHaveTakers => count' <= Cardinality(T)'
    BY <1>0, <2>3, <2>4, <2>5
  <2> QED BY <2>6 DEF TokensHaveTakers, Takers
<1> QED BY <1>1, <1>6, <1>10, <1>13, <1>14, <1>15, <1>16, <1>17, Zenon DEF SInv

LEMMA WakeSemaphoreS ==
  ASSUME SInv, WakeSemaphore
  PROVE  SInv' /\ (TokensHaveTakers => TokensHaveTakers')
<1> DEFINE S == WaitSet("SEMAPHORE", Sem)
<1>0. WInv /\ Inv /\ WakeTimeout /\ UNCHANGED count
  BY DEF SInv, WInv, WakeSemaphore
<1>1. PICK x : x = Scanned
  OBVIOUS
<1>2. /\ WInv' /\ x \in Task /\ (\A t \in Task \ {x} : SameWait(t))
      /\ \A t \in Task : SameCall(t)
      /\ ~Waits(x)' /\ ~(\E r, o : OnItsWay(x, r, o)) /\ block_object[x] \in Object
  BY <1>0, <1>1, TimesOut, Zenon
<1>3. waiters' = Unqueue(waiters, x)
  BY <1>1, <1>2, WaitingAssumption DEF WakeSemaphore
<1>4. waiters' \in Seq(Waiter) /\ Lists(waiters', S \ {x})
  BY <1>3, ListsUnqueue, Zenon DEF SInv, WaitQueueExact, QueueExact
<1>5. WaitQueueExact'
  <2>1. \A t \in Task \cap {x} : ~Waits(t)'
    BY <1>2
  <2>2. Lists(waiters', WaitSet("SEMAPHORE", Sem)')
    BY <1>2, <1>4, <2>1, ListsLeft, SemConstants, Zenon
  <2> QED BY <2>2 DEF WaitQueueExact, QueueExact
<1>6. Roles'
  BY <1>0, <1>2, RolesKept DEF SInv, Created, WakeTimeout
<1>7. MostUrgentRuns' /\ (TickInWindow = FALSE => WindowsClosed')
  <2>1. TickInWindow = FALSE => WindowsClosed'
    BY <1>0, WindowsSteady, Zenon DEF SInv
  <2> QED BY <1>0, <2>1, WakeTimeoutInv
<1>8. TokensHaveTakers => TokensHaveTakers'
  <2>1. \A t \in Task \ {x} : OnItsWay(t, "SEMAPHORE", Sem) => OnItsWay(t, "SEMAPHORE", Sem)'
    BY <1>2, SemConstants, Zenon DEF SameWait
  <2>2. \A t \in Task : OnItsWay(t, "SEMAPHORE", Sem) => OnItsWay(t, "SEMAPHORE", Sem)'
    BY <1>2, <2>1, Zenon
  <2>3. count \in Nat /\ (waiters' # <<>> => waiters # <<>>)
    BY <1>3, UnqueueEmpty, SemConstants DEF SInv
  <2> QED BY <1>0, <2>2, <2>3, TokensKept
<1> QED BY <1>0, <1>2, <1>4, <1>5, <1>6, <1>7, <1>8, Zenon DEF SInv

\* task_delete by a poster; only it can take away a task that was woken.
LEMMA SemTaskDeleteS ==
  ASSUME SInv, Restricted, NEW c \in User, NEW x \in User, SemTaskDelete(c, x)
  PROVE  SInv' /\ (WaitersFirst /\ TokensHaveTakers => TokensHaveTakers')
<1> DEFINE S == WaitSet("SEMAPHORE", Sem)
<1>0. /\ WInv /\ Inv /\ c \in Task /\ c \in Poster /\ InApp(c) /\ WaitTaskDelete(c, x)
      /\ TaskDelete(c, x) /\ UNCHANGED <<count, prio_bucket>>
      /\ registry' = RegistryRemove(registry, x)
  BY DEF SInv, WInv, SemTaskDelete, WaitTaskDelete, TaskDelete, User
<1>2. /\ WInv' /\ x \in Task /\ (\A t \in Task \ {x} : SameWait(t))
      /\ (\A t \in Task : SameCall(t)) /\ ~Waits(x)'
  BY <1>0, DeleteSteady, Zenon
<1>3. waiters' \in Seq(Waiter) /\ Lists(waiters', S \ {x}) /\ (waiters' # <<>> => waiters # <<>>)
  <2>0. waiters \in Seq(Waiter) /\ Lists(waiters, S)
    BY DEF SInv, WaitQueueExact, QueueExact
  <2>1. CASE state[x] = "BLOCKED" /\ block_reason[x] = "SEMAPHORE"
    <3>1. waiters' = Unqueue(waiters, x)
      BY <2>1 DEF SemTaskDelete
    <3> QED BY <2>0, <3>1, ListsUnqueue, UnqueueEmpty, Zenon
  <2>2. CASE ~(state[x] = "BLOCKED" /\ block_reason[x] = "SEMAPHORE")
    <3>1. waiters' = waiters
      BY <2>2 DEF SemTaskDelete
    <3>2. ~WaitingFor(x, "SEMAPHORE", Sem)
      <4>1. SUFFICES ASSUME WaitingFor(x, "SEMAPHORE", Sem) PROVE FALSE
        OBVIOUS
      <4>2. state[x] = "BLOCKED"
        BY <1>0, <1>2, <4>1, WaiterBlocked
      <4> QED BY <2>2, <4>1, <4>2 DEF WaitingFor, Runnable
    <3>3. S \ {x} = S
      BY <3>2 DEF WaitSet
    <3> QED BY <2>0, <3>1, <3>3, Zenon
  <2> QED BY <2>1, <2>2
<1>5. WaitQueueExact'
  <2>1. \A t \in Task \cap {x} : ~Waits(t)'
    BY <1>2
  <2>2. Lists(waiters', WaitSet("SEMAPHORE", Sem)')
    BY <1>2, <1>3, <2>1, ListsLeft, SemConstants, Zenon
  <2> QED BY <2>2 DEF WaitQueueExact, QueueExact
<1>6. Roles'
  <2>1. Members(registry') = Members(registry) \ {x}
    BY <1>0, <1>2, RegistryRemoveIsExact, Zenon DEF Inv, RegistryExact, TypeOK, TaskDelete
  <2>2. \A t \in Task : Created(t)' => Created(t)
    BY <2>1 DEF Created
  <2> QED BY <1>0, <1>2, <2>2, RolesKept, ZenonT(30) DEF SInv
<1>7. MostUrgentRuns' /\ (TickInWindow = FALSE => WindowsClosed')
  <2>1. TickInWindow = FALSE => WindowsClosed'
    BY <1>0, WindowsSteady, Zenon DEF SInv
  <2>2. MostUrgentRuns'
    BY <1>0, KernelStepUrgent DEF SInv
  <2> QED BY <2>1, <2>2
<1>8. WaitersFirst /\ TokensHaveTakers => TokensHaveTakers'
  <2>1. SUFFICES ASSUME WaitersFirst, TokensHaveTakers PROVE TokensHaveTakers'
    OBVIOUS
  <2>2. ~OnItsWay(x, "SEMAPHORE", Sem)
    <3>1. SUFFICES ASSUME OnItsWay(x, "SEMAPHORE", Sem) PROVE FALSE
      OBVIOUS
    <3>2. state[x] \in Runnable /\ x \in Waiter
      BY <1>2, <3>1 DEF OnItsWay, SInv, Roles
    <3> QED BY <1>0, <1>2, <2>1, <3>2, PosterAlone, SMTT(20)
  <2>3. \A t \in Task \ {x} : OnItsWay(t, "SEMAPHORE", Sem) => OnItsWay(t, "SEMAPHORE", Sem)'
    BY <1>2, SemConstants, Zenon DEF SameWait
  <2>4. \A t \in Task : OnItsWay(t, "SEMAPHORE", Sem) => OnItsWay(t, "SEMAPHORE", Sem)'
    BY <2>2, <2>3, Zenon
  <2>5. count \in Nat
    BY SemConstants DEF SInv
  <2> QED BY <1>0, <1>3, <2>1, <2>4, <2>5, TokensKept
<1> QED BY <1>0, <1>2, <1>3, <1>5, <1>6, <1>7, <1>8, Zenon DEF SInv

-----------------------------------------------------------------------------
(* Theorems *)

LEMMA SInit == SemInit => SInv /\ TokensHaveTakers
<1> SUFFICES ASSUME SemInit PROVE SInv /\ TokensHaveTakers
  OBVIOUS
<1>1. Init /\ WaitInit /\ count = SemInitial /\ waiters = <<>>
  BY DEF SemInit, WaitInit
<1>2. Inv
  BY <1>1, InitInv
<1>3. /\ \A t \in Task : pc[t] = "app" /\ req[t].reason = "NONE" /\ object[t] = NULL
      /\ \A t \in Task : state[t] \in {"READY", "UNUSED"}
  <2>1. \A t \in Task : pc[t] = "app" /\ req[t] = NoReq /\ object[t] = NULL
    BY <1>1, Zenon DEF Init, WaitInit
  <2>2. \A t \in Task : state[t] \in {"READY", "UNUSED"}
    BY <1>1, Zenon DEF Init
  <2>3. NoReq.reason = "NONE"
    BY DEF NoReq
  <2> QED BY <2>1, <2>2, <2>3, Zenon
<1>4. WInv
  <2>1. WaitTypes
    BY <1>1 DEF WaitInit, WaitTypes
  <2>2. \A t \in Task : CallOK(t)
    BY <1>3, WaitingAssumption, Zenon DEF CallOK, WaitReason
  <2> QED BY <1>2, <2>1, <2>2 DEF WInv
<1>5. MostUrgentRuns
  BY <1>1, Zenon DEF Init, MostUrgentRuns, Settled
<1>6. Roles
  <2>1. Members(registry) = {Idle}
    BY <1>1 DEF Init, Members
  <2>2. Idle \notin Waiter /\ Idle \notin Poster
    BY SemaphoreAssumption DEF User
  <2> QED BY <1>3, <2>1, <2>2, SMTT(20) DEF Roles, Created
<1>7. WaitQueueExact
  <2>1. WaitSet("SEMAPHORE", Sem) = {}
    BY <1>3 DEF WaitSet, WaitingFor
  <2> QED BY <1>1, <2>1 DEF WaitQueueExact, QueueExact, Lists, Members
<1>8. WindowsClosed
  BY <1>3 DEF WindowsClosed, InWindow
<1>9. waiters \in Seq(Waiter) /\ count \in 0 .. SemMax /\ TokensHaveTakers
  BY <1>1, SemaphoreAssumption DEF TokensHaveTakers
<1> QED BY <1>4, <1>5, <1>6, <1>7, <1>8, <1>9 DEF SInv

LEMMA SNext ==
  ASSUME SInv, Restricted, [SemNext]_allVars
  PROVE  /\ SInv'
         /\ (WaitersFirst \/ "delete" \notin Calls) /\ TokensHaveTakers => TokensHaveTakers'
<1>1. CASE WakeSemaphore
  BY <1>1, WakeSemaphoreS
<1>2. CASE OtherStep /\ UNCHANGED semVars
  BY <1>2, OtherStepS, SemTaskCreateS DEF OtherStep
<1>3. CASE UNCHANGED allVars
  BY <1>3, OtherStepS DEF allVars, semVars
<1>4. CASE \E c \in User :
             \/ \E n \in Ticks \cup {0} : SemWait(c, n)
             \/ SemTake(c) \/ SemEnqueue(c) \/ SemPostFree(c) \/ SemPostWake(c)
             \/ \E t \in User : SemTaskDelete(c, t)
  <2>1. PICK c \in User :
             \/ \E n \in Ticks \cup {0} : SemWait(c, n)
             \/ SemTake(c) \/ SemEnqueue(c) \/ SemPostFree(c) \/ SemPostWake(c)
             \/ \E t \in User : SemTaskDelete(c, t)
    BY <1>4
  <2>2. CASE \E t \in User : SemTaskDelete(c, t)
    <3>1. "delete" \in Calls
      BY <2>2 DEF SemTaskDelete, WaitTaskDelete, TaskDelete
    <3> QED BY <2>2, <3>1, SemTaskDeleteS
  <2> QED BY <2>1, <2>2, SemWaitS, SemTakeS, SemEnqueueS, SemPostFreeS, SemPostWakeS
<1> QED BY <1>1, <1>2, <1>3, <1>4 DEF SemNext, SemStep

\* The semaphore keeps SInv: its types, an exact wait queue, exact ready rings and
\* strict-priority preemption, through every interleaving of semaphore_wait,
\* semaphore_post, timeouts and task_delete.
THEOREM SemaphoreInvariance ==
  ASSUME Restricted
  PROVE  SemSpec => []SInv
<1>1. SemInit => SInv
  BY SInit
<1>2. SInv /\ [SemNext]_allVars => SInv'
  BY SNext
<1> QED BY <1>1, <1>2, PTL DEF SemSpec

\* The fields of the semaphore and of the TCBs keep their types: in particular
\* semaphore_post never lets count pass the maximum that semaphore_init was given.
THEOREM SemTypesKept ==
  ASSUME Restricted
  PROVE  SemSpec => []SemTypeOK
<1>1. SInv => SemTypeOK
  BY DEF SInv, WInv, Inv, WaitTypes, SemTypeOK, WaitTypeOK
<1> QED BY <1>1, SemaphoreInvariance, PTL

\* The queue linked by mutex_wait_next holds each task that waits for the semaphore
\* once, and no other, whatever order posts, timeouts and task_delete come in.
THEOREM WaitQueueStaysExact ==
  ASSUME Restricted
  PROVE  SemSpec => []WaitQueueExact
<1>1. SInv => WaitQueueExact
  BY DEF SInv
<1> QED BY <1>1, SemaphoreInvariance, PTL

\* The ready rings hold exactly the runnable tasks, and the most urgent of them
\* runs once a post or a timeout has woken a waiter and the reschedule is done.
THEOREM SemaphoreScheduling ==
  ASSUME Restricted
  PROVE  SemSpec => [](ReadyRingsExact /\ MostUrgentRuns)
<1>1. SInv => ReadyRingsExact /\ MostUrgentRuns
  BY DEF SInv, WInv, Inv
<1> QED BY <1>1, SemaphoreInvariance, PTL

\* No wakeup of semaphore_post is lost: while tasks are queued every token has a
\* task on its way.  Where a poster may delete a task that it woke, this needs the
\* waiters to be the more urgent tasks.
THEOREM NoWakeupLost ==
  ASSUME WaitersFirst \/ (TickInWindow = FALSE /\ "delete" \notin Calls)
  PROVE  SemSpec => []TokensHaveTakers
<1>1. Restricted /\ (WaitersFirst \/ "delete" \notin Calls)
  BY DEF Restricted
<1>2. SemInit => SInv /\ TokensHaveTakers
  BY SInit
<1>3. SInv /\ TokensHaveTakers /\ [SemNext]_allVars => SInv' /\ TokensHaveTakers'
  BY <1>1, SNext
<1> QED BY <1>2, <1>3, PTL DEF SemSpec

LEMMA SemOnTime ==
  ASSUME NoWrap, SInv, OnTime, [SemNext]_allVars
  PROVE  OnTime'
<1>0. WInv
  BY DEF SInv
<1>1. CASE WakeSemaphore
  BY <1>0, <1>1, WaitOnTime, Zenon DEF WakeSemaphore
<1>2. CASE OtherStep
  <2>1. CASE SemTaskCreate
    <3>1. \E t \in User, p \in Priority : TaskCreate(t, p)
      BY <2>1, SemaphoreAssumption DEF SemTaskCreate
    <3> QED BY <1>0, <3>1, WaitOnTime, Zenon
  <2> QED BY <1>0, <1>2, <2>1, WaitOnTime, Zenon DEF OtherStep
<1>3. CASE UNCHANGED allVars
  <2>1. UNCHANGED vars
    BY <1>3 DEF allVars
  <2> QED BY <1>0, <2>1, WaitOnTime, Zenon
<1>4. ASSUME NEW c \in User, NEW n, SemWait(c, n) PROVE OnTime'
  <2>1. CallWait(c, "SEMAPHORE", Sem, n)
    BY <1>4 DEF SemWait
  <2> QED BY <1>0, <2>1, WaitOnTime, Zenon
<1>5. ASSUME NEW c \in User, SemTake(c) \/ SemEnqueue(c) \/ SemPostFree(c) \/ SemPostWake(c)
      PROVE  OnTime'
  <2>1. UNCHANGED <<wake_time, tick, isr, registry>>
    BY <1>5, Zenon DEF SemTake, SemEnqueue, SemPostFree, SemPostWake, tcbVars, cpuVars
  <2>2. UNCHANGED state \/ \E w : state' = [state EXCEPT ![w] = "READY"]
    BY <1>5, Zenon DEF SemTake, SemEnqueue, SemPostFree, SemPostWake, MakeReady, tcbVars
  <2> QED BY <1>0, <2>1, <2>2, WakingOnTime, Zenon
<1>6. ASSUME NEW c \in User, NEW t \in User, SemTaskDelete(c, t) PROVE OnTime'
  <2>1. WaitTaskDelete(c, t)
    BY <1>6 DEF SemTaskDelete
  <2> QED BY <1>0, <2>1, WaitOnTime, Zenon
<1> QED BY <1>1, <1>2, <1>3, <1>4, <1>5, <1>6, Zenon DEF SemNext, SemStep

\* Timeouts come on time: outside SysTick no task is still BLOCKED at a tick that has
\* reached its wake_time, neither in task_delay nor in semaphore_wait, although
\* rtos_wake_delayed wakes the two by different branches and posts, timeouts and
\* task_delete change who is blocked between ticks.  For a counter that does not wrap.
THEOREM SemaphoreTimeoutsInTime ==
  ASSUME Restricted, NoWrap
  PROVE  SemSpec => []NoOverdueSleeper
<1>0. SemInit => Init
  BY Zenon DEF SemInit, WaitInit
<1>1. SemInit => SInv /\ OnTime
  BY <1>0, SInit, InitOnTime, Zenon
<1>2. SInv /\ OnTime /\ [SemNext]_allVars => SInv' /\ OnTime'
  BY SNext, SemOnTime
<1> QED BY <1>1, <1>2, OnTimeSuffices, PTL DEF SemSpec
=============================================================================

----------------------------- MODULE MutexProofs -----------------------------
(***************************************************************************)
(* The mutex, for any number of tasks and mutexes.  Mutual exclusion and   *)
(* the end of a boost hold in all behaviours of MutexSpec.  The wait       *)
(* queues, the handover, the ready rings, timeouts and priority            *)
(* inheritance are right in the behaviours that MCMutex checks: no SysTick *)
(* in the window of mutex_lock and no mutex_unlock by a task boosted into  *)
(* another bucket.                                                         *)
(***************************************************************************)
EXTENDS Mutex, WaitingProofs

\* The two restrictions.
Restricted == TickInWindow = FALSE /\ UnlockBoosted = FALSE

\* The application's priorities and that of the idle task.
Prios == Priority \cup {255}

MutexTypes ==
  /\ owner \in [Object -> Task \cup {NULL}]
  /\ queue \in [Object -> Seq(User)]
  /\ priority \in [Task -> Prios]
  /\ base_priority \in [Task -> Prios]
  /\ holds \in [Task -> SUBSET Object]

\* Tasks wait for mutexes and for time only.
MutexOnly == \A t \in Task : req[t].reason \in {"NONE", "DELAY", "MUTEX"}

\* The inductive invariant.
MInv == WInv /\ MutexTypes /\ MutexOnly /\ WindowsClosed /\ MutexQueuesExact /\ OwnerComes

-----------------------------------------------------------------------------
(* Mutual exclusion and the end of a boost, without restrictions *)

\* The call a task waits in has a mutex for its argument.
ArgumentGiven ==
  \A t \in Task : req[t].reason \notin {"NONE", "DELAY"} => object[t] \in Object

UInv ==
  /\ DOMAIN req = Task /\ DOMAIN object = Task /\ ArgumentGiven
  /\ DOMAIN owner = Object /\ DOMAIN holds = Task
  /\ DOMAIN priority = Task /\ DOMAIN base_priority = Task
  /\ MutualExclusion /\ BoostEnds

LEMMA InitUInv == MutexInit => UInv
BY DEF MutexInit, WaitInit, Init, NoReq, UInv, ArgumentGiven, MutualExclusion, BoostEnds

\* Steps that leave owners, holders and priorities alone.
LEMMA FrameUInv ==
  ASSUME UInv, UNCHANGED <<owner, holds, priority, base_priority>>,
         DOMAIN req' = Task, DOMAIN object' = Task, ArgumentGiven'
  PROVE  UInv'
BY DEF UInv, MutualExclusion, BoostEnds

LEMMA LockUInv ==
  ASSUME UInv, NEW c \in User, LockTake(c) \/ LockWait(c)
  PROVE  UInv'
<1>1. c \in Task /\ c # NULL
  BY NullIsNoTask DEF User
<1>2. CASE LockTake(c)
  <2>1. /\ owner' = [owner EXCEPT ![object[c]] = c]
        /\ holds' = [holds EXCEPT ![c] = holds[c] \cup {object[c]}]
        /\ owner[object[c]] \in {NULL, c} /\ UNCHANGED <<priority, base_priority>>
        /\ req' = [req EXCEPT ![c] = NoReq] /\ object' = [object EXCEPT ![c] = NULL]
    BY <1>2 DEF LockTake, CallReturn
  <2>2. MutualExclusion'
    <3> SUFFICES ASSUME NEW m \in Object, NEW t \in Task, m \in holds'[t] PROVE owner'[m] = t
      BY DEF MutualExclusion
    <3>1. CASE m = object[c]
      <4>1. owner'[m] = c
        BY <2>1, <3>1 DEF UInv
      <4>2. t # c => m \in holds[t]
        BY <2>1 DEF UInv
      <4>3. t # c => owner[m] = t
        BY <4>2 DEF UInv, MutualExclusion
      <4> QED BY <2>1, <3>1, <4>1, <4>3, NullIsNoTask
    <3>2. CASE m # object[c]
      <4>1. owner'[m] = owner[m]
        BY <2>1, <3>2 DEF UInv
      <4>2. m \in holds[t]
        BY <1>1, <2>1, <3>2 DEF UInv
      <4> QED BY <4>1, <4>2 DEF UInv, MutualExclusion
    <3> QED BY <3>1, <3>2
  <2>3. BoostEnds'
    <3>1. \A m \in Object : owner[m] # owner'[m] => owner[m] = NULL
      BY <2>1 DEF UInv
    <3> QED BY <2>1, <3>1, NullIsNoTask DEF UInv, BoostEnds
  <2>4. DOMAIN req' = Task /\ DOMAIN object' = Task /\ ArgumentGiven'
    BY <2>1 DEF UInv, ArgumentGiven, NoReq
  <2> QED BY <2>1, <2>2, <2>3, <2>4 DEF UInv
<1>3. CASE LockWait(c)
  <2> DEFINE o == owner[object[c]]
  <2>1. /\ UNCHANGED <<owner, holds, base_priority, req, object>> /\ o # NULL
        /\ ApplyPI(o, Enqueued(queue[object[c]], c)) /\ req[c].reason = "MUTEX"
    BY <1>3 DEF LockWait, AtTry, waitVars
  <2>2. DOMAIN priority' = Task /\ \A t \in Task : t # o => priority'[t] = priority[t]
    BY <2>1 DEF ApplyPI, UInv
  <2>3. object[c] \in Object
    BY <1>1, <2>1 DEF UInv, ArgumentGiven
  <2>4. \A t \in Task : (\A m \in Object : owner[m] # t) => priority'[t] = priority[t]
    BY <2>2, <2>3
  <2> QED BY <2>1, <2>2, <2>4 DEF UInv, ArgumentGiven, MutualExclusion, BoostEnds
<1> QED BY <1>2, <1>3

LEMMA UnlockUInv ==
  ASSUME UInv, NEW c \in User, NEW m \in Object, UnlockFree(c, m) \/ UnlockHandOver(c, m)
  PROVE  UInv'
<1>1. /\ c \in Task /\ owner[m] = c /\ UNCHANGED <<req, object, base_priority>>
      /\ priority' = [priority EXCEPT ![c] = base_priority[c]]
      /\ holds' = [holds EXCEPT ![c] = holds[c] \ {m}]
  BY DEF User, UnlockFree, UnlockHandOver, Unlock, Restored
<1>2. DOMAIN owner' = Object /\ \A n \in Object : n # m => owner'[n] = owner[n]
  BY DEF UnlockFree, UnlockHandOver, UInv
<1>3. MutualExclusion'
  <2> SUFFICES ASSUME NEW n \in Object, NEW t \in Task, n \in holds'[t] PROVE owner'[n] = t
    BY DEF MutualExclusion
  <2>1. n \in holds[t]
    BY <1>1 DEF UInv
  <2>2. owner[n] = t
    BY <2>1 DEF UInv, MutualExclusion
  <2>3. n # m
    BY <1>1, <2>2 DEF UInv
  <2> QED BY <1>2, <2>2, <2>3
<1>4. BoostEnds'
  <2> SUFFICES ASSUME NEW t \in Task, \A n \in Object : owner'[n] # t
               PROVE  priority'[t] = base_priority'[t]
    BY DEF BoostEnds
  <2>1. CASE t = c
    BY <1>1, <2>1 DEF UInv
  <2>2. CASE t # c
    <3>1. \A n \in Object : owner[n] # t
      BY <1>1, <1>2, <2>2
    <3>2. priority[t] = base_priority[t]
      BY <3>1 DEF UInv, BoostEnds
    <3> QED BY <1>1, <2>2, <3>2 DEF UInv
  <2> QED BY <2>1, <2>2
<1> QED BY <1>1, <1>2, <1>3, <1>4 DEF UInv, ArgumentGiven

LEMMA NextUInv == UInv /\ [MutexNext]_allVars => UInv'
<1> SUFFICES ASSUME UInv, [MutexNext]_allVars PROVE UInv'
  OBVIOUS
<1> USE DEF mutexVars, waitVars, taskVars, cpuVars
<1>1. CASE WakeMutex
  BY <1>1, FrameUInv DEF WakeMutex, WakeTimeout, UInv, ArgumentGiven
<1>2. ASSUME NEW t \in User, NEW p \in Priority, MutexTaskCreate(t, p) PROVE UInv'
  BY <1>2 DEF MutexTaskCreate, TaskCreate, UInv, ArgumentGiven, MutualExclusion, BoostEnds, User
<1>3. ASSUME NEW c \in User, NEW m \in Object, NEW n \in Ticks \cup {0}, MutexLock(c, m, n)
      PROVE  UInv'
  <2>1. /\ req' = [req EXCEPT ![c] = [reason |-> "MUTEX", ticks |-> n]]
        /\ object' = [object EXCEPT ![c] = m]
        /\ UNCHANGED <<owner, holds, priority, base_priority>>
    BY <1>3 DEF MutexLock, CallWait
  <2>2. DOMAIN req' = Task /\ DOMAIN object' = Task /\ ArgumentGiven'
    BY <2>1 DEF UInv, ArgumentGiven
  <2> QED BY <2>1, <2>2, FrameUInv
<1>4. ASSUME NEW c \in User, NEW t \in User, MutexTaskDelete(c, t) PROVE UInv'
  <2>1. /\ req' = [req EXCEPT ![t] = NoReq] /\ object' = [object EXCEPT ![t] = NULL]
        /\ UNCHANGED <<owner, holds, priority, base_priority>>
    BY <1>4 DEF MutexTaskDelete, WaitTaskDelete, TaskDelete
  <2>2. DOMAIN req' = Task /\ DOMAIN object' = Task /\ ArgumentGiven'
    BY <2>1 DEF UInv, ArgumentGiven, NoReq
  <2> QED BY <2>1, <2>2, FrameUInv
<1>5. CASE OtherStep /\ UNCHANGED mutexVars
  <2> DEFINE Kept == /\ DOMAIN req' = Task /\ DOMAIN object' = Task
                     /\ \A t \in Task : \/ req'[t].reason \in {"NONE", "DELAY"}
                                        \/ req'[t] = req[t] /\ object'[t] = object[t]
  <2>1. Kept
    <3>1. CASE KernelStep
      <4>1. \/ req' = req
            \/ \E c \in User : req' = [req EXCEPT ![c] = NoReq]
            \/ \E c \in User, n \in Ticks : req' = [req EXCEPT ![c] = [reason |-> "DELAY", ticks |-> n]]
        <5>1. CASE RtosStart \/ SVC_Handler \/ PendSV_Handler \/ rtos_tick_increment
          BY <5>1 DEF RtosStart, SVC_Handler, PendSV_Handler, rtos_tick_increment
        <5>2. CASE WakeSkip \/ WakeDelay \/ SysTickReturn
          BY <5>2 DEF WakeSkip, WakeDelay, SysTickReturn
        <5>3. ASSUME NEW c \in User, TaskYield(c) \/ BlockCommit(c) \/ BlockMark(c) PROVE req' = req
          BY <5>3 DEF TaskYield, BlockCommit, BlockMark
        <5> QED BY <3>1, <5>1, <5>2, <5>3, Zenon DEF KernelStep, DelayReturn, TaskDelay
      <4> QED BY <3>1, <4>1 DEF UInv, NoReq, KernelStep
    <3>2. CASE WaitStep \/ \E c \in User : Posted(c)
      <4>1. \A c \in User : WaitBlockStore(c) \/ Posted(c) => UNCHANGED <<req, object>>
        BY DEF WaitBlockStore, BlockStore, Posted
      <4>2. ASSUME NEW c \in User, Unblocked(c)
            PROVE  \/ UNCHANGED <<req, object>>
                   \/ req' = [req EXCEPT ![c] = NoReq] /\ object' = [object EXCEPT ![c] = NULL]
        BY <4>2, Zenon DEF Unblocked, CallReturn
      <4>3. \/ UNCHANGED <<req, object>>
            \/ \E c \in User : /\ req' = [req EXCEPT ![c] = NoReq]
                              /\ object' = [object EXCEPT ![c] = NULL]
        BY <3>2, <4>1, <4>2, Zenon DEF WaitStep
      <4> QED BY <4>3 DEF UInv, NoReq
    <3> QED BY <1>5, <3>1, <3>2 DEF OtherStep
  <2>2. ArgumentGiven'
    BY <2>1 DEF UInv, ArgumentGiven
  <2> QED BY <1>5, <2>1, <2>2, FrameUInv
<1>6. CASE UNCHANGED allVars
  BY <1>6 DEF allVars, vars, UInv, ArgumentGiven, MutualExclusion, BoostEnds
<1> QED BY <1>1, <1>2, <1>3, <1>4, <1>5, <1>6, LockUInv, UnlockUInv DEF MutexNext, MutexStep

\* mutex_lock returns RTOS_OK to one task at a time, whatever SysTicks, timeouts,
\* handovers and deletions come in between, and for any number of tasks and mutexes.
THEOREM MutualExclusionHolds == MutexSpec => []MutualExclusion
<1>1. UInv => MutualExclusion
  BY DEF UInv
<1> QED BY <1>1, InitUInv, NextUInv, PTL DEF MutexSpec

\* A task that owns no mutex has the priority it was created with.
THEOREM BoostAlwaysEnds == MutexSpec => []BoostEnds
<1>1. UInv => BoostEnds
  BY DEF UInv
<1> QED BY <1>1, InitUInv, NextUInv, PTL DEF MutexSpec

-----------------------------------------------------------------------------
(* The searches through a wait queue *)

LEMMA PriorityIsNat ==
  ASSUME MutexTypes, NEW t \in Task
  PROVE  priority[t] \in Prios /\ priority[t] \in Nat
<1>1. priority[t] \in Prios
  BY Zenon DEF MutexTypes
<1>2. \A p \in Prios : p \in Nat
  BY KernelAssumption DEF Prios
<1> QED BY <1>1, <1>2, Zenon

\* _min_wait_priority_value is the priority of a waiter, and the most urgent one.
LEMMA MinWaitFound ==
  ASSUME NEW q \in Seq(User), q # <<>>, MutexTypes
  PROVE  /\ MinWaitPriority(q) \in Prios
         /\ \A t \in Members(q) : MinWaitPriority(q) <= priority[t]
<1> DEFINE P == {priority[t] : t \in Members(q)}
<1>1. Members(q) \subseteq Task /\ Members(q) # {}
  <2>1. Len(q) \in Nat /\ Len(q) # 0 /\ \A i \in 1 .. Len(q) : q[i] \in Task
    BY LenOfSeq, NonEmptySeq DEF User
  <2>2. q[1] \in Members(q)
    BY <2>1 DEF Members
  <2> QED BY <2>1, <2>2 DEF Members
<1>2. P \in SUBSET (Prios) /\ P \in SUBSET Nat /\ P # {}
  <2>1. \A t \in Members(q) : priority[t] \in Prios /\ priority[t] \in Nat
    BY <1>1, PriorityIsNat, Zenon
  <2>2. \A S : (\A t \in Members(q) : priority[t] \in S) => P \in SUBSET S
    BY Zenon
  <2>3. P # {}
    BY <1>1, Zenon
  <2> QED BY <2>1, <2>2, <2>3, Zenon
<1>3. \E p \in P : \A x \in P : p <= x
  BY <1>2, LeastNat, Zenon
<1>4. \E p \in P : \A t \in Members(q) : p <= priority[t]
  BY <1>3, Zenon
<1>5. MinWaitPriority(q) \in P /\ \A t \in Members(q) : MinWaitPriority(q) <= priority[t]
  BY <1>4, Zenon DEF MinWaitPriority
<1> QED BY <1>2, <1>5, Zenon

\* _wait_pop_highest finds a waiter, and no other is more urgent.
LEMMA HighestFound ==
  ASSUME NEW q \in Seq(User), q # <<>>, MutexTypes
  PROVE  /\ Highest(q) \in Members(q)
         /\ \A t \in Members(q) : priority[Highest(q)] <= priority[t]
<1>1. Len(q) \in Nat /\ Len(q) # 0 /\ \A i \in 1 .. Len(q) : q[i] \in Task
  BY LenOfSeq, NonEmptySeq DEF User
<1> DEFINE D == 1 .. Len(q)
           P == {priority[q[i]] : i \in D}
<1>0. \A i \in D : priority[q[i]] \in Nat
  BY <1>1, PriorityIsNat, Zenon
<1>2. P \in SUBSET Nat /\ P # {}
  <2>1. 1 \in D
    BY <1>1
  <2> QED BY <1>0, <2>1, ZenonT(30)
<1>3. PICK p \in P : \A x \in P : p <= x
  BY <1>2, LeastNat, Zenon
<1> DEFINE I == {i \in D : priority[q[i]] = p}
<1>4. I \in SUBSET Nat /\ I # {}
  BY <1>1, <1>3
<1>5. PICK k \in I : \A x \in I : k <= x
  BY <1>4, LeastNat, Zenon
<1>6. /\ k \in D
      /\ \A j \in D : \/ priority[q[k]] < priority[q[j]]
                      \/ priority[q[k]] = priority[q[j]] /\ k <= j
  <2>1. k \in D /\ priority[q[k]] = p /\ \A j \in D : p <= priority[q[j]]
    BY <1>3, <1>5, Zenon
  <2>2. \A j \in D : priority[q[j]] = p => k <= j
    BY <1>5, Zenon
  <2> QED BY <1>0, <2>1, <2>2
<1> DEFINE First(i) == \A j \in D : \/ priority[q[i]] < priority[q[j]]
                                    \/ priority[q[i]] = priority[q[j]] /\ i <= j
           h == CHOOSE i \in D : First(i)
<1>7. \E i \in D : First(i)
  BY <1>6, Zenon
<1> HIDE DEF First
<1>8. h \in D /\ First(h)
  BY <1>7, Zenon
<1>9. Highest(q) = q[h]
  BY DEF Highest, First
<1>10. \A j \in D : priority[q[h]] <= priority[q[j]]
  <2> SUFFICES ASSUME NEW j \in D PROVE priority[q[h]] <= priority[q[j]]
    OBVIOUS
  <2>1. \/ priority[q[h]] < priority[q[j]]
        \/ priority[q[h]] = priority[q[j]]
    BY <1>8, Zenon DEF First
  <2>2. priority[q[h]] \in Nat /\ priority[q[j]] \in Nat
    BY <1>0, <1>8, Zenon
  <2> HIDE DEF h
  <2> QED BY ONLY <2>1, <2>2
<1> QED BY <1>8, <1>9, <1>10, Zenon DEF Members

-----------------------------------------------------------------------------
(* Kernel's inductive invariant under the steps of the mutex *)

\* A call of mutex_lock has a mutex for its argument.
LEMMA LockArgument ==
  ASSUME MInv, NEW c \in User, AtTry(c, "MUTEX")
  PROVE  object[c] \in Object
<1>1. c \in Task /\ "MUTEX" \in WaitReason
  BY DEF User, WaitReason
<1> QED BY <1>1, Zenon DEF MInv, WInv, CallOK, AtTry

\* scheduler_rebucket_task of a task that is not RUNNING moves it from ring to ring.
LEMMA RebucketRings ==
  ASSUME Inv, NEW o \in Task, NEW b \in Bucket, state[o] # "RUNNING",
         ready' = Rebucketed(o, b), prio_bucket' = [prio_bucket EXCEPT ![o] = b],
         state' = state
  PROVE  ready' \in RingState(Bucket) /\ ReadyRingsExact' /\ prio_bucket' \in [Task -> Bucket]
<1> DEFINE a == prio_bucket[o]
           g == [x \in Bucket |-> RunnableIn(x) \ {o}]
           mid == RingRemove(ready, a, o)
<1>1. /\ a \in Bucket /\ prio_bucket \in [Task -> Bucket] /\ prio_bucket' \in [Task -> Bucket]
      /\ state \in [Task -> {"UNUSED", "READY", "RUNNING", "BLOCKED", "TERMINATED"}]
  BY DEF Inv, TypeOK
<1>2. ready \in RingState(Bucket) /\ Rings(ready, Bucket, ReadySets)
  BY RingsOfReady DEF Inv
<1>3. CASE b # a /\ state[o] = "READY"
  <2>1. Loses(Bucket, ReadySets, g, a, o)
    BY DEF Loses, ReadySets, RunnableIn
  <2>2. Gains(Bucket, g, ReadySets', b, o)
    BY <1>1, <1>3 DEF Gains, ReadySets, RunnableIn, Runnable
  <2>3. ready' = RingInsert(mid, b, o)
    BY <1>3 DEF Rebucketed
  <2> HIDE DEF g, mid
  <2>4. mid \in RingState(Bucket) /\ mid.stuck = ready.stuck /\ Rings(mid, Bucket, g)
    BY <1>1, <1>2, <2>1, RemoveRings DEF mid
  <2>5. /\ ready' \in RingState(Bucket) /\ ready'.stuck = mid.stuck
        /\ Rings(ready', Bucket, ReadySets')
    BY <2>2, <2>3, <2>4, InsertRings
  <2> QED BY <1>1, <2>4, <2>5, ReadyOfRings DEF Inv, ReadyRingsExact
<1>4. CASE ~(b # a /\ state[o] = "READY")
  <2>1. ready' = ready
    BY <1>4 DEF Rebucketed
  <2>2. ReadySets' = ReadySets
    BY <1>1, <1>4 DEF ReadySets, RunnableIn, Runnable
  <2> QED BY <1>1, <1>2, <2>1, <2>2, ReadyOfRings DEF Inv, ReadyRingsExact
<1> QED BY <1>3, <1>4

LEMMA LockWaitInv ==
  ASSUME MInv, NEW c \in User, LockWait(c)
  PROVE  Inv'
<1> DEFINE m == object[c]
           o == owner[m]
           q == Enqueued(queue[m], c)
           hp == MinWaitPriority(q)
<1>1. /\ c \in Task /\ m \in Object /\ o \in Task /\ o # c /\ Executing(c) /\ pc[c] = "try"
      /\ q \in Seq(User) /\ q # <<>>
  <2>1. c \in Task /\ Executing(c) /\ pc[c] = "try" /\ o \notin {NULL, c}
    BY DEF LockWait, AtTry, User
  <2>2. m \in Object
    BY <2>1, LockArgument, Zenon DEF LockWait
  <2>3. o \in Task /\ queue[m] \in Seq(User)
    BY SMTT(20), ZenonT(30), <2>1, <2>2 DEF MInv, MutexTypes
  <2>4. q \in Seq(User) /\ q # <<>>
    BY <2>3, AppendSeq DEF Enqueued
  <2> QED BY <2>1, <2>2, <2>3, <2>4
<1>2. /\ ApplyPI(o, q) /\ pc' = [pc EXCEPT ![c] = "enter"]
      /\ UNCHANGED <<state, wake_time, block_reason, time_slice_counter, registry, tick,
                     current_tcb, pendsv, isr, phase, req>>
  BY DEF LockWait, cpuVars
<1>3. PrioBucket(hp) \in Bucket
  <2>1. hp \in Prios
    BY <1>1, MinWaitFound, Zenon DEF MInv
  <2>2. \A p \in Prios : p \in 0 .. 255
    BY KernelAssumption DEF Prios
  <2> QED BY <2>1, <2>2, PrioBucketType, Zenon
<1>4. Inv /\ state[c] = "RUNNING" /\ state[o] # "RUNNING"
  BY <1>1 DEF MInv, WInv, Inv, RunnerRuns, Settled, Executing, LoneRunner
<1> HIDE DEF o, q, hp, m
<1>5. ready' \in RingState(Bucket) /\ ReadyRingsExact' /\ prio_bucket' \in [Task -> Bucket]
  <2>1. CASE hp < priority[o]
    BY SMTT(20), ZenonT(30), <1>1, <1>2, <1>3, <1>4, <2>1, RebucketRings DEF ApplyPI, hp
  <2>2. CASE ~(hp < priority[o])
    <3>1. UNCHANGED <<ready, prio_bucket, state, registry, current_tcb, phase>>
      BY <1>2, <2>2 DEF ApplyPI, hp
    <3> QED BY <1>4, <3>1, QuietStep, RingsOfReady DEF Inv, TypeOK
  <2> QED BY <2>1, <2>2
<1>6. TypeOK'
  BY SMTT(20), ZenonT(30), <1>1, <1>2, <1>4, <1>5 DEF Inv, TypeOK, Place, RingState, Links
<1>7. RegistryExact'
  BY <1>2, <1>4, RegistryKept DEF Inv
<1>8. RunnerRuns' /\ IdleRunnable' /\ LoneRunner'
  BY <1>1, <1>2, <1>4 DEF Inv, RunnerRuns, IdleRunnable, LoneRunner, Executing
<1> QED BY <1>5, <1>6, <1>7, <1>8 DEF Inv

\* What mutex_unlock has in common whether or not anybody waits: a task that is
\* not boosted into another bucket stays in its ring.
LEMMA UnlockStays ==
  ASSUME MInv, Restricted, NEW c \in User, NEW m \in Object, Unlock(c, m)
  PROVE  /\ c \in Task /\ Executing(c) /\ pc[c] = "app" /\ state[c] = "RUNNING"
         /\ prio_bucket' = prio_bucket
         /\ Rebucketed(c, PrioBucket(Restored(c))) = ready
         /\ pc' = [pc EXCEPT ![c] = "posted"] /\ pc' \in [Task -> Place]
         /\ UNCHANGED <<wake_time, time_slice_counter, registry, tick, current_tcb, pendsv, isr,
                        phase, req>>
<1>1. /\ c \in Task /\ Executing(c) /\ pc[c] = "app"
      /\ PrioBucket(Restored(c)) = prio_bucket[c]
      /\ prio_bucket' = [prio_bucket EXCEPT ![c] = prio_bucket[c]]
      /\ pc' = [pc EXCEPT ![c] = "posted"]
      /\ UNCHANGED <<wake_time, time_slice_counter, registry, tick, current_tcb, pendsv, isr,
                     phase, req>>
  BY Zenon DEF Restricted, Unlock, InApp, Restored, User, cpuVars
<1>2. prio_bucket' = prio_bucket /\ pc' \in [Task -> Place]
  BY <1>1 DEF MInv, WInv, Inv, TypeOK, Place
<1>3. state[c] = "RUNNING"
  BY <1>1 DEF MInv, WInv, Inv, RunnerRuns, Settled, Executing
<1> QED BY <1>1, <1>2, <1>3 DEF Rebucketed

LEMMA UnlockFreeInv ==
  ASSUME MInv, Restricted, NEW c \in User, NEW m \in Object, UnlockFree(c, m)
  PROVE  Inv'
<1>1. /\ Unlock(c, m) /\ ready' = Rebucketed(c, PrioBucket(Restored(c)))
      /\ UNCHANGED <<state, block_reason>>
  BY Zenon DEF UnlockFree
<1>2. /\ Executing(c) /\ pc[c] = "app" /\ pc' \in [Task -> Place]
      /\ UNCHANGED <<ready, tcbVars, registry, tick, current_tcb, isr, phase, pendsv, req>>
  BY <1>1, UnlockStays DEF tcbVars
<1> QED BY <1>2, PlaceStep, Zenon DEF MInv, WInv, Inv, TypeOK

\* The task the mutex is handed to sleeps in rtos_block_current.
LEMMA HandOverTarget ==
  ASSUME MInv, Restricted, NEW c \in User, NEW m \in Object, UnlockHandOver(c, m)
  PROVE  LET w == Highest(queue[m])
         IN  /\ w \in Task /\ w # c /\ w \in Members(queue[m]) /\ state[w] = "BLOCKED"
             /\ block_reason[w] = "MUTEX" /\ block_object[w] = m
<1> DEFINE w == Highest(queue[m])
<1>1. queue[m] \in Seq(User) /\ queue[m] # <<>> /\ MutexTypes
  BY DEF UnlockHandOver, MInv, MutexTypes
<1>2. w \in Members(queue[m])
  BY <1>1, HighestFound
<1>3. w \in Task /\ WaitingFor(w, "MUTEX", m)
  BY <1>2 DEF MInv, MutexQueuesExact, QueueExact, Lists, WaitSet
<1>4. Executing(c) /\ pc[c] = "app" /\ state[c] = "RUNNING"
  BY UnlockStays DEF UnlockHandOver
<1>5. state[w] = "BLOCKED" /\ block_reason[w] = "MUTEX" /\ block_object[w] = m
  <2>1. SUFFICES ASSUME req[w].reason = "MUTEX", pc[w] \in {"enter", "block"} PROVE FALSE
    BY <1>3 DEF WaitingFor
  <2>2. Executing(w)
    BY <1>3, <2>1 DEF MInv, WindowsClosed, InWindow
  <2> QED BY <1>4, <2>1, <2>2, SMTT(20) DEF Executing
<1> QED BY <1>2, <1>3, <1>4, <1>5

-----------------------------------------------------------------------------
(* The steps *)

LEMMA MutexIsReason == "MUTEX" \in WaitReason
BY DEF WaitReason

LEMMA OnlyKept ==
  ASSUME MutexOnly, \A t \in Task : SameCall(t) \/ req'[t].reason = "MUTEX"
  PROVE  MutexOnly'
BY DEF MutexOnly, SameCall

\* No wait queue changes and nobody's wait does.
LEMMA QueuesKept ==
  ASSUME MInv, queue' = queue, \A m \in Object : owner'[m] = NULL => queue[m] = <<>>,
         \A t \in Task, m \in Object : WaitingFor(t, "MUTEX", m)' <=> WaitingFor(t, "MUTEX", m)
  PROVE  MutexQueuesExact'
<1> SUFFICES ASSUME NEW m \in Object
             PROVE  QueueExact(queue[m], "MUTEX", m)' /\ (owner'[m] = NULL => queue'[m] = <<>>)
  BY DEF MutexQueuesExact
<1>1. Lists(queue[m], WaitSet("MUTEX", m))
  BY DEF MInv, MutexQueuesExact, QueueExact
<1>2. WaitSet("MUTEX", m)' = WaitSet("MUTEX", m)
  BY Zenon DEF WaitSet
<1>3. Lists(queue'[m], WaitSet("MUTEX", m)')
  BY <1>1, <1>2
<1> QED BY <1>3 DEF QueueExact

\* Task w is taken off the queue of m and waits no more; nothing else changes for
\* anybody's wait.
LEMMA QueuesShrink ==
  ASSUME MInv, NEW m \in Object, NEW w \in Members(queue[m]),
         queue' = [queue EXCEPT ![m] = Unqueue(queue[m], w)],
         \A n \in Object : ~WaitingFor(w, "MUTEX", n)',
         \A n \in Object \ {m} : ~WaitingFor(w, "MUTEX", n),
         \A t \in Task \ {w}, n \in Object : WaitingFor(t, "MUTEX", n)' <=> WaitingFor(t, "MUTEX", n),
         \A n \in Object : owner'[n] = NULL => owner[n] = NULL
  PROVE  MutexQueuesExact' /\ queue' \in [Object -> Seq(User)]
<1>1. /\ queue \in [Object -> Seq(User)] /\ Lists(queue[m], WaitSet("MUTEX", m))
      /\ owner[m] = NULL => queue[m] = <<>>
  BY DEF MInv, MutexTypes, MutexQueuesExact, QueueExact
<1>2. Unqueue(queue[m], w) \in Seq(User) /\ Lists(Unqueue(queue[m], w), WaitSet("MUTEX", m) \ {w})
  BY <1>1, ListsUnqueue, Zenon
<1>3. owner[m] # NULL
  BY <1>1 DEF Members
<1>4. ASSUME NEW n \in Object
      PROVE  QueueExact(queue[n], "MUTEX", n)' /\ (owner'[n] = NULL => queue'[n] = <<>>)
  <2>1. Lists(queue[n], WaitSet("MUTEX", n)) /\ (owner[n] = NULL => queue[n] = <<>>)
    BY Zenon DEF MInv, MutexQueuesExact, QueueExact
  <2>2. CASE n # m
    <3>1. queue'[n] = queue[n]
      BY <1>1, <2>2, Zenon
    <3>2. WaitSet("MUTEX", n)' = WaitSet("MUTEX", n)
      BY <2>2 DEF WaitSet
    <3> QED BY <2>1, <3>1, <3>2 DEF QueueExact
  <2>3. CASE n = m
    <3>1. queue'[n] = Unqueue(queue[m], w)
      BY <1>1, <2>3, Zenon
    <3>2. WaitSet("MUTEX", n)' = WaitSet("MUTEX", n) \ {w}
      BY DEF WaitSet
    <3> QED BY <1>2, <1>3, <2>3, <3>1, <3>2, Zenon DEF QueueExact
  <2> QED BY <2>2, <2>3
<1>5. MutexQueuesExact'
  BY <1>4 DEF MutexQueuesExact
<1>6. queue' \in [Object -> Seq(User)]
  BY <1>1, <1>2
<1> QED BY <1>5, <1>6

\* Every wait stays as it is, and so does the mutex.
LEMMA SteadyM ==
  ASSUME MInv, WInv', UNCHANGED <<owner, queue, holds>>, MutexTypes', WindowsClosed',
         \A t \in Task : SameWait(t), \A t \in Task : SameCall(t) \/ req'[t].reason = "MUTEX"
  PROVE  MInv'
<1>1. \A t \in Task, m \in Object : /\ WaitingFor(t, "MUTEX", m)' <=> WaitingFor(t, "MUTEX", m)
                                    /\ OnItsWay(t, "MUTEX", m) => OnItsWay(t, "MUTEX", m)'
  BY MutexIsReason, Zenon DEF SameWait
<1>2. MutexQueuesExact'
  BY <1>1, QueuesKept DEF MInv, MutexQueuesExact
<1>3. OwnerComes'
  BY <1>1, Zenon DEF MInv, OwnerComes
<1>4. MutexOnly'
  BY OnlyKept DEF MInv
<1> QED BY <1>2, <1>3, <1>4 DEF MInv

LEMMA OtherStepM ==
  ASSUME MInv, Restricted, UNCHANGED mutexVars,
         KernelStep \/ WaitStep \/ (\E c \in User : Posted(c)) \/ UNCHANGED <<vars, waitVars>>
  PROVE  MInv'
<1>0. WInv /\ Inv
  BY DEF MInv, WInv
<1>1. UNCHANGED <<owner, queue, holds>> /\ MutexTypes'
  BY DEF mutexVars, MInv, MutexTypes
<1>2. WindowsClosed'
  BY <1>0, WindowsSteady, Zenon DEF MInv, Restricted
<1>3. WInv' /\ \A t \in Task : SameWait(t) /\ SameCall(t)
  BY <1>0, OtherSteady, Zenon
<1> QED BY <1>1, <1>2, <1>3, SteadyM

LEMMA MutexLockM ==
  ASSUME MInv, Restricted, NEW c \in User, NEW m \in Object, NEW n \in Ticks \cup {0},
         MutexLock(c, m, n)
  PROVE  MInv'
<1>0. WInv /\ Inv /\ CallWait(c, "MUTEX", m, n) /\ c \in Task
  BY DEF MInv, WInv, MutexLock, User
<1>1. UNCHANGED <<owner, queue, holds>> /\ MutexTypes'
  BY DEF MutexLock, mutexVars, MInv, MutexTypes
<1>2. WindowsClosed'
  BY <1>0, WindowsSteady, Zenon DEF MInv, Restricted
<1>3. WInv' /\ (\A t \in Task : SameWait(t)) /\ \A t \in Task \ {c} : SameCall(t)
  BY <1>0, CallSteady, MutexIsReason
<1>4. req'[c].reason = "MUTEX"
  BY <1>0, SMTT(20) DEF CallWait, Inv, TypeOK
<1> QED BY <1>1, <1>2, <1>3, <1>4, SteadyM

LEMMA MutexTaskCreateM ==
  ASSUME MInv, Restricted, NEW x \in User, NEW p \in Priority, MutexTaskCreate(x, p)
  PROVE  MInv'
<1>0. WInv /\ Inv /\ TaskCreate(x, p) /\ UNCHANGED waitVars /\ UNCHANGED <<owner, queue, holds>>
  BY DEF MInv, WInv, MutexTaskCreate
<1>1. MutexTypes'
  BY <1>0, ZenonT(30) DEF MutexTaskCreate, MInv, MutexTypes, Prios
<1>2. WindowsClosed'
  BY <1>0, WindowsSteady, Zenon DEF MInv, Restricted
<1>3. WInv' /\ \A t \in Task : SameWait(t) /\ SameCall(t)
  BY <1>0, CreateSteady
<1> QED BY <1>0, <1>1, <1>2, <1>3, SteadyM

LEMMA LockTakeM ==
  ASSUME MInv, NEW c \in User, LockTake(c)
  PROVE  MInv'
<1>0. /\ WInv /\ Inv /\ c \in Task /\ AtTry(c, "MUTEX") /\ Executing(c) /\ pc[c] = "try"
      /\ owner' = [owner EXCEPT ![object[c]] = c]
      /\ holds' = [holds EXCEPT ![c] = @ \cup {object[c]}] /\ CallReturn(c)
      /\ UNCHANGED <<ready, tcbVars, registry, tick, current_tcb, pendsv, isr, phase>>
      /\ UNCHANGED <<block_object, block_wake_status, queue, priority, base_priority>>
  BY DEF MInv, WInv, LockTake, AtTry, User, cpuVars
<1>1. pc' \in [Task -> Place] /\ req' \in [Task -> [reason : Reason, ticks : Ticks \cup {0}]]
  <2>1. "app" \in Place
    BY SMTT(20) DEF Place
  <2> QED BY <1>0, <2>1, ReturnTypes, Zenon DEF CallReturn
<1>2. Inv'
  BY <1>0, <1>1, PlaceStep, Zenon
<1>3. /\ CallOK(c)' /\ SameCall(c) /\ ~Waits(c) /\ ~Waits(c)' /\ object[c] \in Object
      /\ object' \in [Task -> Object \cup {NULL}]
      /\ \A t \in Task \ {c} : pc'[t] = pc[t] /\ req'[t] = req[t] /\ object'[t] = object[t]
      /\ \A s \in WaitReason, o \in Object : OnItsWay(c, s, o) => s = "MUTEX" /\ o = object[c]
  BY <1>0, <1>2, Returns, Zenon DEF tcbVars
<1>4. \A t \in Task \ {c} : SameTask(t)
  BY <1>0, <1>3, Zenon DEF SameTask, tcbVars
<1>5. WaitTypes'
  BY <1>0, <1>3, Zenon DEF WInv, WaitTypes
<1>6. WInv' /\ \A t \in Task \ {c} : SameWait(t) /\ SameCall(t)
  BY <1>0, <1>2, <1>3, <1>4, <1>5, OthersSteady, Zenon
<1>7. MutexOnly'
  BY <1>3, <1>6, OnlyKept, Zenon DEF MInv
<1>8. owner \in [Object -> Task \cup {NULL}] /\ holds \in [Task -> SUBSET Object] /\ NULL \notin Task
  BY NullIsNoTask, SMTT(20) DEF MInv, MutexTypes
<1>9. MutexTypes'
  BY <1>0, <1>3, <1>8, ZenonT(30) DEF MInv, MutexTypes
<1>10. MutexQueuesExact'
  <2>1. \A t \in Task, m \in Object : WaitingFor(t, "MUTEX", m)' <=> WaitingFor(t, "MUTEX", m)
    BY <1>3, <1>6, MutexIsReason, ZenonT(30) DEF SameWait, Waits
  <2>2. \A m \in Object : owner'[m] = NULL => owner[m] = NULL
    BY <1>0, <1>3, <1>8, Zenon
  <2> QED BY <1>0, <2>1, <2>2, QueuesKept, Zenon DEF MInv, MutexQueuesExact
<1>11. OwnerComes'
  <2>1. SUFFICES ASSUME NEW m \in Object, NEW t \in Task, owner'[m] = t, m \notin holds'[t]
                 PROVE  OnItsWay(t, "MUTEX", m)'
    BY SMTT(20) DEF OwnerComes
  <2>2. m # object[c] /\ owner[m] = t /\ m \notin holds[t]
    BY <1>0, <1>3, <1>8, <2>1, Zenon
  <2>3. OnItsWay(t, "MUTEX", m)
    BY <2>2, SMTT(20) DEF MInv, OwnerComes
  <2>4. t # c
    <3>1. OnItsWay(c, "MUTEX", m) => m = object[c]
      BY <1>3, MutexIsReason, Zenon
    <3> QED BY ONLY <2>2, <2>3, <3>1, Zenon
  <2> QED BY <1>6, <2>3, <2>4, MutexIsReason, Zenon DEF SameWait
<1>12. WindowsClosed'
  <2>1. \A t \in Task \ {c} : InWindow(t)' => InWindow(t)
    BY <1>3, Zenon DEF InWindow
  <2>2. pc'[c] = "app"
    BY <1>0 DEF CallReturn, Inv, TypeOK
  <2>3. ~InWindow(c)'
    BY <2>2 DEF InWindow
  <2> QED BY <1>0, <2>1, <2>3, WindowsActor DEF MInv
<1> QED BY <1>6, <1>7, <1>9, <1>10, <1>11, <1>12 DEF MInv

LEMMA LockWaitM ==
  ASSUME MInv, NEW c \in User, LockWait(c)
  PROVE  MInv'
<1>k. PICK m : m = object[c]
  BY SMTT(20)
<1>0. /\ WInv /\ Inv /\ c \in Task /\ AtTry(c, "MUTEX") /\ Executing(c) /\ pc[c] = "try"
      /\ owner[m] \notin {NULL, c} /\ queue' = [queue EXCEPT ![m] = Enqueued(queue[m], c)]
      /\ ApplyPI(owner[m], Enqueued(queue[m], c)) /\ pc' = [pc EXCEPT ![c] = "enter"]
      /\ UNCHANGED <<state, block_reason, req>> /\ UNCHANGED waitVars
      /\ UNCHANGED <<current_tcb, pendsv, isr, phase, owner, base_priority, holds>>
  BY <1>k, Zenon DEF MInv, WInv, LockWait, AtTry, User, cpuVars
<1>2. Inv'
  BY LockWaitInv
<1>3. /\ WInv' /\ (\A t \in Task \ {c} : SameWait(t)) /\ (\A t \in Task : SameCall(t))
      /\ ~Waits(c) /\ m \in Object
      /\ \A s \in WaitReason, o \in Object : WaitingFor(c, s, o)' <=> s = "MUTEX" /\ o = m
  BY <1>k, <1>0, <1>2, Enters, ZenonT(30)
<1>4. MutexOnly'
  BY <1>3, OnlyKept DEF MInv
<1>5. queue[m] \in Seq(User) /\ queue \in [Object -> Seq(User)] /\ owner[m] \in Task
  BY <1>0, <1>3 DEF MInv, MutexTypes
<1>6. /\ Enqueued(queue[m], c) \in Seq(User) /\ Enqueued(queue[m], c) # <<>>
      /\ Lists(Enqueued(queue[m], c), WaitSet("MUTEX", m) \cup {c})
  <2>1. c \notin WaitSet("MUTEX", m) /\ Lists(queue[m], WaitSet("MUTEX", m))
    BY <1>3, MutexIsReason, Zenon DEF WaitSet, Waits, MInv, MutexQueuesExact, QueueExact
  <2> QED BY <1>5, <2>1, ListsAppend, ZenonT(30)
<1>7. MutexTypes'
  <2>1. priority' \in [Task -> Prios]
    <3>1. MinWaitPriority(Enqueued(queue[m], c)) \in Prios
      BY <1>6, MinWaitFound, Zenon DEF MInv
    <3> QED BY <1>0, <1>5, <3>1, Zenon DEF ApplyPI, MInv, MutexTypes
  <2>2. queue' \in [Object -> Seq(User)]
    BY <1>0, <1>5, <1>6, Zenon
  <2> QED BY <1>0, <2>1, <2>2, SMTT(20) DEF MInv, MutexTypes
<1>8. MutexQueuesExact'
  <2> SUFFICES ASSUME NEW n \in Object
               PROVE  QueueExact(queue[n], "MUTEX", n)' /\ (owner'[n] = NULL => queue'[n] = <<>>)
    BY DEF MutexQueuesExact
  <2>1. WaitSet("MUTEX", n)' \ {c} = WaitSet("MUTEX", n) \ {c} /\ c \notin WaitSet("MUTEX", n)
    <3>1. WaitSet("MUTEX", n)' \ {c} = WaitSet("MUTEX", n) \ {c}
      BY <1>3, WaitSetStep, MutexIsReason, Zenon
    <3> QED BY <1>3, <3>1, MutexIsReason DEF WaitSet, Waits
  <2>2. CASE n = m
    <3>1. c \in WaitSet("MUTEX", n)'
      BY <1>0, <1>3, <2>2, MutexIsReason DEF WaitSet
    <3>2. WaitSet("MUTEX", n)' = WaitSet("MUTEX", m) \cup {c}
      BY <2>1, <2>2, <3>1
    <3>3. queue'[n] = Enqueued(queue[m], c)
      BY <1>0, <1>5, <2>2, Zenon
    <3> QED BY <1>0, <1>6, <2>2, <3>2, <3>3, Zenon DEF QueueExact
  <2>3. CASE n # m
    <3>1. c \notin WaitSet("MUTEX", n)'
      BY <1>3, <2>3, MutexIsReason DEF WaitSet
    <3>2. WaitSet("MUTEX", n)' = WaitSet("MUTEX", n)
      BY <2>1, <3>1
    <3>3. queue'[n] = queue[n]
      BY <1>0, <1>5, <2>3, Zenon
    <3> QED BY <1>0, <3>2, <3>3 DEF MInv, MutexQueuesExact, QueueExact
  <2> QED BY <2>2, <2>3
<1>9. OwnerComes'
  <2>1. SUFFICES ASSUME NEW n \in Object, NEW t \in Task, owner[n] = t, n \notin holds[t]
                 PROVE  OnItsWay(t, "MUTEX", n)'
    BY <1>0, Zenon DEF OwnerComes
  <2>2. OnItsWay(t, "MUTEX", n)
    BY <2>1, SMTT(20) DEF MInv, OwnerComes
  <2>3. t # c
    BY <1>0, <1>k, <2>1, <2>2, Zenon DEF OnItsWay
  <2> QED BY <1>3, <2>2, <2>3, MutexIsReason, Zenon DEF SameWait
<1>10. WindowsClosed'
  <2>1. \A t \in Task \ {c} : InWindow(t)' => InWindow(t)
    BY <1>0 DEF InWindow, Inv, TypeOK
  <2>2. Executing(c)'
    BY <1>0, Zenon DEF Executing
  <2> QED BY <1>0, <2>1, <2>2, WindowsActor, SMTT(20) DEF MInv
<1> QED BY <1>3, <1>4, <1>7, <1>8, <1>9, <1>10 DEF MInv

LEMMA UnlockFreeM ==
  ASSUME MInv, Restricted, NEW c \in User, NEW m \in Object, UnlockFree(c, m)
  PROVE  MInv'
<1>0. /\ WInv /\ Inv /\ Unlock(c, m) /\ queue[m] = <<>> /\ owner' = [owner EXCEPT ![m] = NULL]
      /\ UNCHANGED <<state, block_reason, block_object, queue>>
      /\ holds' = [holds EXCEPT ![c] = @ \ {m}] /\ owner[m] = c
      /\ UNCHANGED <<block_wake_status, object, base_priority>>
      /\ priority' = [priority EXCEPT ![c] = base_priority[c]]
  BY Zenon DEF MInv, WInv, UnlockFree, Unlock, Restored
<1>1. /\ c \in Task /\ Executing(c) /\ pc[c] = "app" /\ state[c] = "RUNNING"
      /\ pc' = [pc EXCEPT ![c] = "posted"] /\ UNCHANGED <<current_tcb, pendsv, isr, phase, req>>
  BY <1>0, UnlockStays, Zenon
<1>2. Inv'
  BY UnlockFreeInv, SMTT(20)
<1>3. (\A t \in Task \ {c} : pc'[t] = pc[t]) /\ pc'[c] = "posted"
  BY <1>0, <1>1, Zenon DEF Inv, TypeOK
<1>4. \A t \in Task \ {c} : SameTask(t)
  BY <1>0, <1>1, <1>3, Zenon DEF SameTask
<1>5. CallOK(c)' /\ WaitTypes'
  <2>1. CallOK(c)
    BY <1>0, <1>1, ZenonT(30) DEF WInv
  <2>2. CallOK(c)'
    BY <1>0, <1>1, <1>3, <2>1, Zenon DEF CallOK, User
  <2>3. WaitTypes'
    BY <1>0, Zenon DEF WInv, WaitTypes
  <2> QED BY <2>2, <2>3, SMTT(20)
<1>6. WInv' /\ \A t \in Task \ {c} : SameWait(t) /\ SameCall(t)
  BY <1>0, <1>1, <1>2, <1>4, <1>5, OthersSteady, Zenon
<1>7. SameWait(c) /\ SameCall(c)
  BY <1>0, <1>1, <1>3, ZenonT(30) DEF SameWait, SameCall, WaitingFor, OnItsWay
<1>8. MutexOnly'
  BY <1>6, <1>7, OnlyKept, SMTT(20) DEF MInv
<1>9. MutexTypes'
  BY <1>0, <1>1, ZenonT(30) DEF MInv, MutexTypes
<1>10. MutexQueuesExact'
  <2>1. \A t \in Task, n \in Object : WaitingFor(t, "MUTEX", n)' <=> WaitingFor(t, "MUTEX", n)
    BY <1>6, <1>7, MutexIsReason, Zenon DEF SameWait
  <2>2. \A n \in Object : owner'[n] = NULL => queue[n] = <<>>
    BY <1>0 DEF MInv, MutexTypes, MutexQueuesExact
  <2> QED BY <1>0, <2>1, <2>2, QueuesKept, Zenon
<1>11. OwnerComes'
  <2>1. SUFFICES ASSUME NEW n \in Object, NEW t \in Task, owner'[n] = t, n \notin holds'[t]
                 PROVE  OnItsWay(t, "MUTEX", n)'
    BY SMTT(20) DEF OwnerComes
  <2>2. n # m /\ owner[n] = t /\ n \notin holds[t]
    <3>1. /\ owner \in [Object -> Task \cup {NULL}] /\ holds \in [Task -> SUBSET Object]
          /\ NULL \notin Task
      BY NullIsNoTask, Zenon DEF MInv, MutexTypes
    <3>2. owner' = [owner EXCEPT ![m] = NULL] /\ holds' = [holds EXCEPT ![c] = @ \ {m}]
      BY <1>0
    <3> QED BY ONLY <2>1, <3>1, <3>2, n \in Object, m \in Object, t \in Task, Zenon
  <2>3. OnItsWay(t, "MUTEX", n)
    BY <2>2, Zenon DEF MInv, OwnerComes
  <2> QED BY <1>6, <1>7, <2>3, MutexIsReason, Zenon DEF SameWait
<1>12. WindowsClosed'
  <2>1. \A t \in Task \ {c} : InWindow(t)' => InWindow(t)
    BY <1>1, <1>3, Zenon DEF InWindow
  <2>2. ~InWindow(c)'
    BY <1>3 DEF InWindow
  <2> QED BY <1>1, <2>1, <2>2, WindowsActor DEF MInv
<1> QED BY <1>6, <1>8, <1>9, <1>10, <1>11, <1>12 DEF MInv

LEMMA HandOverM ==
  ASSUME MInv, Restricted, NEW c \in User, NEW m \in Object, UnlockHandOver(c, m)
  PROVE  MInv'
<1>w. PICK w : w = Highest(queue[m])
  OBVIOUS
<1>0. /\ WInv /\ Inv /\ Unlock(c, m) /\ owner' = [owner EXCEPT ![m] = w]
      /\ queue' = [queue EXCEPT ![m] = Unqueue(queue[m], w)]
      /\ MakeReady(w, Rebucketed(c, PrioBucket(Restored(c))))
      /\ holds' = [holds EXCEPT ![c] = @ \ {m}] /\ owner[m] = c
      /\ UNCHANGED <<block_wake_status, object, base_priority>>
      /\ priority' = [priority EXCEPT ![c] = base_priority[c]]
  BY <1>w, ZenonT(30) DEF MInv, WInv, UnlockHandOver, Unlock, Restored
<1>1. /\ c \in Task /\ Executing(c) /\ pc[c] = "app" /\ state[c] = "RUNNING"
      /\ pc' = [pc EXCEPT ![c] = "posted"] /\ pc' \in [Task -> Place]
      /\ prio_bucket' = prio_bucket /\ Rebucketed(c, PrioBucket(Restored(c))) = ready
      /\ UNCHANGED <<wake_time, time_slice_counter, registry, tick, current_tcb, pendsv, isr,
                     phase, req>>
  BY <1>0, UnlockStays, ZenonT(30)
<1>2. /\ w \in Task /\ w # c /\ w \in Members(queue[m]) /\ state[w] = "BLOCKED"
      /\ block_reason[w] = "MUTEX" /\ block_object[w] = m /\ MakeReady(w, ready)
  <2>1. /\ Highest(queue[m]) \in Task /\ Highest(queue[m]) # c
        /\ Highest(queue[m]) \in Members(queue[m]) /\ state[Highest(queue[m])] = "BLOCKED"
        /\ block_reason[Highest(queue[m])] = "MUTEX" /\ block_object[Highest(queue[m])] = m
    BY HandOverTarget, Zenon
  <2>2. MakeReady(w, ready)
    BY <1>0, <1>1, Zenon
  <2> QED BY ONLY <1>w, <2>1, <2>2, Zenon
<1>3. (\A t \in Task \ {c} : pc'[t] = pc[t]) /\ pc'[c] = "posted" /\ pendsv \in BOOLEAN
      /\ req \in [Task -> [reason : Reason, ticks : Ticks \cup {0}]]
  BY <1>0, <1>1, ZenonT(30) DEF Inv, TypeOK
<1>4. Inv'
  BY <1>0, <1>1, <1>2, <1>3, MakeReadyInv, Zenon
<1>5. state'[c] = state[c] /\ block_reason'[c] = block_reason[c] /\ block_object'[c] = block_object[c]
  <2>1. /\ state' = [state EXCEPT ![w] = "READY"] /\ block_reason' = [block_reason EXCEPT ![w] = "NONE"]
        /\ block_object' = [block_object EXCEPT ![w] = NULL]
    BY <1>2, Zenon DEF MakeReady
  <2>2. DOMAIN state = Task /\ DOMAIN block_reason = Task /\ DOMAIN block_object = Task
    BY <1>0 DEF WInv, Inv, TypeOK, WaitTypes
  <2>3. c \in Task /\ w # c
    BY <1>1, <1>2
  <2> QED BY ONLY <2>1, <2>2, <2>3
<1>6. CallOK(c)' /\ object' \in [Task -> Object \cup {NULL}]
  <2>1. CallOK(c)
    BY <1>0, <1>1, ZenonT(30) DEF WInv
  <2>2. CallOK(c)'
    BY <1>0, <1>1, <1>3, <1>5, <2>1, Zenon DEF CallOK, User
  <2> QED BY <1>0, <2>2 DEF WInv, WaitTypes
<1>7. /\ WInv' /\ (\A t \in Task \ {c, w} : SameWait(t)) /\ (\A t \in Task \ {c} : SameCall(t))
      /\ ~Waits(w)'
      /\ \A r \in WaitReason, o \in Object : OnItsWay(w, r, o)' <=> WaitingFor(w, r, o)
      /\ \A r \in WaitReason, o \in Object : ~OnItsWay(w, r, o)
  BY <1>0, <1>1, <1>2, <1>3, <1>4, <1>6, Wakes, Zenon
<1>8. SameWait(c) /\ SameCall(c)
  BY <1>0, <1>1, <1>3, <1>5, ZenonT(30) DEF SameWait, SameCall, WaitingFor, OnItsWay
<1>9. MutexOnly'
  BY <1>7, <1>8, OnlyKept, Zenon DEF MInv
<1>10. owner \in [Object -> Task \cup {NULL}] /\ holds \in [Task -> SUBSET Object] /\ NULL \notin Task
  BY NullIsNoTask DEF MInv, MutexTypes
<1>11. MutexQueuesExact' /\ queue' \in [Object -> Seq(User)]
  <2>1. \A n \in Object : ~WaitingFor(w, "MUTEX", n)'
    BY <1>7, MutexIsReason, Zenon DEF Waits
  <2>2. \A n \in Object \ {m} : ~WaitingFor(w, "MUTEX", n)
    BY <1>2 DEF WaitingFor, Runnable
  <2>3. \A t \in Task \ {w}, n \in Object : WaitingFor(t, "MUTEX", n)' <=> WaitingFor(t, "MUTEX", n)
    BY <1>7, <1>8, MutexIsReason, ZenonT(30) DEF SameWait
  <2>4. \A n \in Object : owner'[n] = NULL => owner[n] = NULL
    BY <1>0, <1>2, <1>10, ZenonT(30)
  <2> QED BY <1>0, <1>2, <2>1, <2>2, <2>3, <2>4, QueuesShrink, Zenon
<1>12. MutexTypes'
  BY <1>0, <1>1, <1>2, <1>11, Zenon DEF MInv, MutexTypes
<1>13. OwnerComes'
  <2>1. SUFFICES ASSUME NEW n \in Object, NEW t \in Task, owner'[n] = t, n \notin holds'[t]
                 PROVE  OnItsWay(t, "MUTEX", n)'
    BY DEF OwnerComes
  <2>2. CASE n = m
    <3>1. t = w
      BY <1>0, <1>10, <2>1, <2>2, SMTT(20)
    <3>2. WaitingFor(w, "MUTEX", m)
      BY <1>2, Zenon DEF WaitingFor
    <3> QED BY <1>7, <2>2, <3>1, <3>2, MutexIsReason
  <2>3. CASE n # m
    <3>1. owner[n] = t /\ n \notin holds[t]
      BY <1>0, <1>1, <1>10, <2>1, <2>3, ZenonT(30)
    <3>2. OnItsWay(t, "MUTEX", n)
      BY <3>1 DEF MInv, OwnerComes
    <3>3. t # w
      BY <1>7, <3>2, MutexIsReason
    <3> QED BY <1>7, <1>8, <3>2, <3>3, MutexIsReason, Zenon DEF SameWait
  <2> QED BY <2>2, <2>3
<1>14. WindowsClosed'
  <2>1. \A t \in Task \ {c} : InWindow(t)' => InWindow(t)
    BY <1>1, <1>3, Zenon DEF InWindow
  <2>2. ~InWindow(c)'
    BY <1>3 DEF InWindow
  <2> QED BY <1>1, <2>1, <2>2, WindowsActor DEF MInv
<1> QED BY <1>7, <1>9, <1>11, <1>12, <1>13, <1>14 DEF MInv

\* A waiter leaves the queue it is in, for another reason than a handover.
LEMMA LeavesM ==
  ASSUME MInv, NEW x \in Task, NEW m \in Object, WInv', WindowsClosed', WaitingFor(x, "MUTEX", m),
         \A n \in Object \ {m} : ~WaitingFor(x, "MUTEX", n),
         \A t \in Task \ {x} : SameWait(t), \A t \in Task : SameCall(t), ~Waits(x)',
         \A n \in Object : ~OnItsWay(x, "MUTEX", n),
         queue' = [queue EXCEPT ![m] = Unqueue(queue[m], x)],
         UNCHANGED <<owner, priority, base_priority, holds>>
  PROVE  MInv'
<1>1. MutexOnly'
  BY OnlyKept, Zenon DEF MInv
<1>2. x \in Members(queue[m])
  BY DEF MInv, MutexQueuesExact, QueueExact, Lists, WaitSet
<1>3. MutexQueuesExact' /\ queue' \in [Object -> Seq(User)]
  <2>1. \A n \in Object : ~WaitingFor(x, "MUTEX", n)'
    BY MutexIsReason, Zenon DEF Waits
  <2>2. \A t \in Task \ {x}, n \in Object : WaitingFor(t, "MUTEX", n)' <=> WaitingFor(t, "MUTEX", n)
    BY MutexIsReason, Zenon DEF SameWait
  <2> QED BY <1>2, <2>1, <2>2, QueuesShrink, Zenon
<1>4. MutexTypes'
  BY <1>3 DEF MInv, MutexTypes
<1>5. OwnerComes'
  <2>1. SUFFICES ASSUME NEW n \in Object, NEW t \in Task, owner[n] = t, n \notin holds[t]
                 PROVE  OnItsWay(t, "MUTEX", n)'
    BY Zenon DEF OwnerComes
  <2>2. OnItsWay(t, "MUTEX", n)
    BY <2>1 DEF MInv, OwnerComes
  <2>3. t # x
    BY <2>2, SMTT(20)
  <2> QED BY <2>2, <2>3, MutexIsReason, Zenon DEF SameWait
<1> QED BY <1>1, <1>3, <1>4, <1>5, SMTT(20) DEF MInv

LEMMA WakeMutexM ==
  ASSUME MInv, Restricted, WakeMutex
  PROVE  MInv'
<1>0. WInv /\ WakeTimeout /\ UNCHANGED <<owner, priority, base_priority, holds>>
  BY DEF MInv, WakeMutex
<1>1. PICK x : x = Scanned
  OBVIOUS
<1>2. /\ WInv' /\ x \in Task /\ (\A t \in Task \ {x} : SameWait(t)) /\ (\A t \in Task : SameCall(t))
      /\ ~Waits(x)' /\ ~(\E r, o : OnItsWay(x, r, o)) /\ block_object[x] \in Object
      /\ block_reason[x] \in WaitReason /\ block_reason[x] = req[x].reason
      /\ \A r \in WaitReason, o \in Object :
           WaitingFor(x, r, o) <=> r = block_reason[x] /\ o = block_object[x]
  BY <1>0, <1>1, TimesOut, ZenonT(30)
<1>3. block_reason[x] = "MUTEX"
  BY <1>2, Zenon DEF MInv, MutexOnly, WaitReason
<1>4. PICK m \in Object : m = block_object[x]
  BY <1>2, Zenon
<1>5. WaitingFor(x, "MUTEX", m) /\ \A n \in Object \ {m} : ~WaitingFor(x, "MUTEX", n)
  BY <1>2, <1>3, <1>4, MutexIsReason, Zenon
<1>6. queue' = [queue EXCEPT ![m] = Unqueue(queue[m], x)]
  BY <1>1, <1>4, ZenonT(30) DEF WakeMutex, MInv, MutexTypes
<1>7. WindowsClosed'
  BY <1>0, WindowsSteady, Zenon DEF MInv, Restricted
<1> QED BY <1>0, <1>2, <1>5, <1>6, <1>7, LeavesM, Zenon

\* mutex_detach_waiter; a task that owns no mutex is deleted.
LEMMA MutexTaskDeleteM ==
  ASSUME MInv, Restricted, NEW c \in User, NEW x \in User, MutexTaskDelete(c, x)
  PROVE  MInv'
<1>0. /\ WInv /\ WaitTaskDelete(c, x) /\ UNCHANGED <<owner, priority, base_priority, holds>>
      /\ InApp(c) /\ c \in Task /\ \A m \in Object : owner[m] # x
  BY Zenon DEF MInv, MutexTaskDelete, WaitTaskDelete, TaskDelete, User
<1>1. /\ WInv' /\ x \in Task /\ (\A t \in Task \ {x} : SameWait(t))
      /\ (\A t \in Task : SameCall(t)) /\ ~Waits(x)'
  BY <1>0, DeleteSteady, Zenon
<1>2. WindowsClosed'
  BY <1>0, WindowsSteady, Zenon DEF MInv, Restricted
<1>3. ~InWindow(x)
  <2>1. Executing(c) /\ ~InWindow(c)
    BY <1>0, ZenonT(30) DEF InApp, InWindow
  <2> QED BY <1>0, <1>1, <2>1, NoneInWindow, ZenonT(30) DEF MInv
<1>4. \A n \in Object : WaitingFor(x, "MUTEX", n) <=>
        state[x] = "BLOCKED" /\ block_reason[x] = "MUTEX" /\ block_object[x] = n
  BY <1>3, Zenon DEF WaitingFor, InWindow
<1>5. CASE \E m \in Object : WaitingFor(x, "MUTEX", m)
  <2>1. PICK m \in Object : WaitingFor(x, "MUTEX", m)
    BY <1>5
  <2>2. state[x] = "BLOCKED" /\ block_reason[x] = "MUTEX" /\ block_object[x] = m
    BY <1>4, <2>1, ZenonT(30)
  <2>3. queue' = [queue EXCEPT ![m] = Unqueue(queue[m], x)]
    BY <2>2, ZenonT(30) DEF MutexTaskDelete, MInv, MutexTypes
  <2>4. \A n \in Object : ~OnItsWay(x, "MUTEX", n)
    BY <2>2, ZenonT(30) DEF OnItsWay, Runnable
  <2>5. \A n \in Object \ {m} : ~WaitingFor(x, "MUTEX", n)
    BY <1>4, <2>2, Zenon
  <2> QED BY <1>0, <1>1, <1>2, <2>1, <2>3, <2>4, <2>5, LeavesM, ZenonT(30)
<1>6. CASE \A m \in Object : ~WaitingFor(x, "MUTEX", m)
  <2>1. queue' = queue
    BY <1>4, <1>6 DEF MutexTaskDelete, MInv, MutexTypes
  <2>2. \A t \in Task, m \in Object : WaitingFor(t, "MUTEX", m)' <=> WaitingFor(t, "MUTEX", m)
    BY <1>1, <1>6, MutexIsReason, ZenonT(30) DEF SameWait, Waits
  <2>3. MutexQueuesExact'
    BY <1>0, <2>1, <2>2, QueuesKept, Zenon DEF MInv, MutexQueuesExact
  <2>4. OwnerComes'
    <3>1. SUFFICES ASSUME NEW n \in Object, NEW t \in Task, owner[n] = t, n \notin holds[t]
                   PROVE  OnItsWay(t, "MUTEX", n)'
      BY <1>0, ZenonT(30) DEF OwnerComes
    <3>2. OnItsWay(t, "MUTEX", n) /\ t # x
      BY <1>0, <3>1, ZenonT(30) DEF MInv, OwnerComes
    <3> QED BY <1>1, <3>2, MutexIsReason, Zenon DEF SameWait
  <2>5. MutexOnly' /\ MutexTypes'
    BY <1>0, <1>1, <2>1, OnlyKept, Zenon DEF MInv, MutexTypes
  <2> QED BY <1>1, <1>2, <2>3, <2>4, <2>5, SMTT(20) DEF MInv
<1> QED BY <1>5, <1>6

-----------------------------------------------------------------------------
(* The theorems *)

LEMMA InitMInv == MutexInit => MInv
<1> SUFFICES ASSUME MutexInit PROVE MInv
  OBVIOUS
<1>1. Init /\ WaitInit
  BY DEF MutexInit, WaitInit
<1>2. MutexTypes
  BY DEF MutexInit, MutexTypes, Prios
<1>3. \A t \in Task : /\ pc[t] = "app" /\ req[t].reason = "NONE" /\ object[t] = NULL
                      /\ state[t] # "BLOCKED"
  <2>1. \A t \in Task : pc[t] = "app" /\ req[t] = NoReq /\ object[t] = NULL
    BY <1>1, Zenon DEF WaitInit, Init
  <2>2. \A t \in Task : state[t] \in {"READY", "UNUSED"}
    BY <1>1, Zenon DEF Init
  <2>3. NoReq.reason = "NONE"
    BY DEF NoReq
  <2> QED BY <2>1, <2>2, <2>3, Zenon
<1>4. WInv
  <2>1. Inv
    BY <1>1, InitInv
  <2>2. WaitTypes
    BY <1>1, SMTT(20) DEF WaitInit, WaitTypes
  <2>3. \A t \in Task : CallOK(t)
    BY <1>3, WaitingAssumption, ZenonT(30) DEF CallOK, WaitReason
  <2> QED BY <2>1, <2>2, <2>3 DEF WInv
<1>5. \A m \in Object : WaitSet("MUTEX", m) = {}
  <2>1. \A t \in Task, m \in Object : ~WaitingFor(t, "MUTEX", m)
    BY ONLY <1>3 DEF WaitingFor
  <2> QED BY ONLY <2>1 DEF WaitSet
<1>6. MutexQueuesExact
  <2>1. \A m \in Object : queue[m] = <<>> /\ Len(queue[m]) = 0
    BY SMTT(20) DEF MutexInit
  <2>0. 1 .. 0 = {}
    OBVIOUS
  <2>2. \A m \in Object : Members(queue[m]) = {}
    BY <2>0, <2>1, Zenon DEF Members
  <2>3. ASSUME NEW m \in Object PROVE Lists(queue[m], WaitSet("MUTEX", m))
    <3>1. 1 .. Len(queue[m]) = {}
      BY <2>0, <2>1, Zenon
    <3> QED BY <1>5, <2>2, <3>1, ZenonT(30) DEF Lists
  <2> QED BY <2>1, <2>3, Zenon DEF MutexQueuesExact, QueueExact
<1>7. OwnerComes
  BY NullIsNoTask DEF MutexInit, OwnerComes
<1>8. WindowsClosed /\ MutexOnly
  BY <1>3 DEF WindowsClosed, InWindow, MutexOnly
<1> QED BY <1>2, <1>4, <1>6, <1>7, <1>8 DEF MInv

LEMMA NextMInv ==
  ASSUME Restricted, MInv, [MutexNext]_allVars
  PROVE  MInv'
<1>1. CASE MutexStep
  BY <1>1, WakeMutexM, MutexTaskCreateM, MutexLockM, UnlockFreeM, HandOverM, LockTakeM, LockWaitM,
     MutexTaskDeleteM DEF MutexStep
<1>2. CASE OtherStep /\ UNCHANGED mutexVars
  BY <1>2, OtherStepM DEF OtherStep
<1>3. CASE UNCHANGED allVars
  BY <1>3, OtherStepM DEF allVars
<1> QED BY <1>1, <1>2, <1>3 DEF MutexNext

\* Under the two restrictions, for any number of tasks and mutexes:
THEOREM MutexInvariance ==
  ASSUME Restricted
  PROVE  MutexSpec => []MInv
<1>1. MInv /\ [MutexNext]_allVars => MInv'
  BY NextMInv
<1> QED BY <1>1, InitMInv, PTL DEF MutexSpec

\* The fields of the mutexes and of the TCBs keep their types: an owner is a task,
\* only tasks of the application are linked by mutex_wait_next, and a boosted
\* priority is one that some task was created with.
THEOREM MutexTypesKept ==
  ASSUME Restricted
  PROVE  MutexSpec => []MutexTypeOK
<1>1. MInv => MutexTypeOK
  BY DEF MInv, WInv, Inv, WaitTypes, MutexTypes, Prios, MutexTypeOK, WaitTypeOK
<1> QED BY <1>1, MutexInvariance, PTL

\* The wait queue of every mutex holds exactly the tasks that wait for it.
THEOREM WaitQueuesExact ==
  ASSUME Restricted
  PROVE  MutexSpec => []MutexQueuesExact
<1>1. MInv => MutexQueuesExact
  BY DEF MInv
<1> QED BY <1>1, MutexInvariance, PTL

\* mutex_unlock hands a mutex only to a task that comes for it.
THEOREM HandoverReachesItsTask ==
  ASSUME Restricted
  PROVE  MutexSpec => []OwnerComes
<1>1. MInv => OwnerComes
  BY DEF MInv
<1> QED BY <1>1, MutexInvariance, PTL

\* Priority inheritance moves tasks from ring to ring and loses none.
THEOREM RingsExactUnderInheritance ==
  ASSUME Restricted
  PROVE  MutexSpec => []ReadyRingsExact
<1>1. MInv => ReadyRingsExact
  BY DEF MInv, WInv, Inv
<1> QED BY <1>1, MutexInvariance, PTL

-----------------------------------------------------------------------------
(* Priority inheritance.  _restore_owner_priority gives back the boosts of *)
(* all mutexes at once, so it holds only where there is one mutex.         *)

OneMutex == \A m, n \in Object : m = n

\* main() creates the tasks before any of them runs.
BootFree == phase = "boot" => \A m \in Object : owner[m] = NULL

PInv == MInv /\ BootFree /\ Inherited

\* Fewer waiters, the same priorities.
LEMMA FewerWaiters ==
  ASSUME PInv, priority' = priority, \A m \in Object : Members(queue'[m]) \subseteq Members(queue[m]),
         \A m \in Object : owner'[m] # owner[m] => queue'[m] = <<>> \/ owner'[m] = NULL
  PROVE  Inherited'
<1> SUFFICES ASSUME NEW m \in Object, owner'[m] # NULL, NEW t \in Members(queue'[m])
             PROVE  priority[owner'[m]] <= priority[t]
  BY DEF Inherited
<1>1. queue'[m] # <<>>
  BY DEF Members
<1>2. owner'[m] = owner[m] /\ t \in Members(queue[m])
  BY <1>1, Zenon
<1> QED BY <1>2, Zenon DEF PInv, Inherited

LEMMA LockWaitInherits ==
  ASSUME PInv, OneMutex, NEW c \in User, LockWait(c)
  PROVE  Inherited'
<1>1. c \in Task /\ object[c] \in Object /\ MInv /\ MutexTypes
  BY LockArgument, Zenon DEF PInv, LockWait, User, MInv
<1>2. PICK m \in Object : m = object[c]
  BY SMTT(20), ZenonT(30), <1>1
<1>0. queue[m] \in Seq(User) /\ priority \in [Task -> Prios]
  BY SMTT(20), ZenonT(30), <1>1 DEF MInv, MutexTypes
<1>3. PICK q \in Seq(User) : q = Append(queue[m], c)
  BY <1>0, <1>1, AppendSeq, Zenon
<1>4. PICK o \in Task : o = owner[m]
  BY <1>2, Zenon DEF LockWait, MInv, PInv, MutexTypes
<1>5. /\ queue' = [queue EXCEPT ![m] = q] /\ ApplyPI(o, q) /\ owner' = owner
  BY <1>2, <1>3, <1>4, Zenon DEF LockWait, Enqueued
<1>6. priority \in [Task -> Prios] /\ q # <<>>
  BY SMTT(20), ZenonT(30), <1>0, <1>1, <1>3, AppendSeq
<1>7. PICK h \in Prios : h = MinWaitPriority(q) /\ \A t \in Members(q) : h <= priority[t]
  BY <1>1, <1>6, MinWaitFound, Zenon
<1>8. Members(q) \subseteq Task
  <2>1. \A i \in 1 .. Len(q) : q[i] \in User
    BY EntryOfSeq, Zenon
  <2> QED BY <2>1, Zenon DEF Members, User
<1>9. /\ priority' = IF h < priority[o]
                     THEN [priority EXCEPT ![o] = h] ELSE priority
  BY <1>5, <1>7, Zenon DEF ApplyPI
<1>10. ASSUME NEW t \in Members(q) PROVE priority'[o] <= priority'[t]
  <2>1. t \in Task /\ h <= priority[t]
    BY <1>7, <1>8
  <2>2. priority[o] \in Nat /\ priority[t] \in Nat /\ h \in Nat
    <3>1. priority[o] \in Nat /\ priority[t] \in Nat
      BY <1>1, <2>1, PriorityIsNat, Zenon
    <3>2. h \in Nat
      BY KernelAssumption DEF Prios
    <3> QED BY <3>1, <3>2
  <2>3. CASE h < priority[o]
    <3>1. priority'[o] = h /\ (t # o => priority'[t] = priority[t])
      <4>1. priority' = [priority EXCEPT ![o] = h]
        BY <1>9, <2>3, Zenon
      <4> QED BY <1>6, <2>1, <4>1, Zenon
    <3> QED BY ONLY <2>1, <2>2, <2>3, <3>1
  <2>4. CASE ~(h < priority[o])
    <3>1. priority' = priority
      BY <1>9, <2>4, Zenon
    <3> QED BY ONLY <2>1, <2>2, <2>4, <3>1
  <2> QED BY <2>3, <2>4
<1>11. queue'[m] = q
  BY <1>1, <1>5 DEF MInv, MutexTypes
<1> QED BY <1>4, <1>5, <1>10, <1>11 DEF Inherited, OneMutex

LEMMA UnqueueInside ==
  ASSUME MInv, NEW m \in Object, NEW w
  PROVE  Members(Unqueue(queue[m], w)) \subseteq Members(queue[m])
<1>1. queue[m] \in Seq(User) /\ Lists(queue[m], WaitSet("MUTEX", m))
  BY DEF MInv, MutexTypes, MutexQueuesExact, QueueExact
<1>2. Lists(Unqueue(queue[m], w), WaitSet("MUTEX", m) \ {w})
  BY <1>1, ListsUnqueue, Zenon
<1> QED BY <1>1, <1>2 DEF Lists

LEMMA UnlockInherits ==
  ASSUME PInv, Restricted, OneMutex, NEW c \in User, NEW m \in Object,
         UnlockFree(c, m) \/ UnlockHandOver(c, m)
  PROVE  Inherited'
<1>1. MInv
  BY DEF PInv
<1>2. CASE UnlockFree(c, m)
  <2>1. owner'[m] = NULL
    BY <1>1, <1>2 DEF UnlockFree, MInv, MutexTypes
  <2> QED BY <2>1 DEF Inherited, OneMutex
<1>3. CASE UnlockHandOver(c, m)
  <2>1. PICK w \in Task : w = Highest(queue[m]) /\ w # c /\ w \in Members(queue[m])
    BY <1>1, <1>3, HandOverTarget, Zenon
  <2>2. /\ owner' = [owner EXCEPT ![m] = w] /\ queue' = [queue EXCEPT ![m] = Unqueue(queue[m], w)]
        /\ priority' = [priority EXCEPT ![c] = Restored(c)] /\ queue[m] # <<>> /\ Unlock(c, m)
    BY <1>3, <2>1, Zenon DEF UnlockHandOver, Unlock
  <2>3. /\ owner'[m] = w /\ queue'[m] = Unqueue(queue[m], w)
        /\ \A t \in Task \ {c} : priority'[t] = priority[t]
    BY SMTT(20), ZenonT(30), <1>1, <2>2 DEF MInv, MutexTypes
  <2>4. \A t \in Members(queue[m]) : priority[w] <= priority[t]
    BY <1>1, <2>1, <2>2, HighestFound DEF MInv, MutexTypes
  <2>5. Members(queue[m]) \subseteq Task \ {c}
    <3>1. Members(queue[m]) = {t \in Task : WaitingFor(t, "MUTEX", m)}
      BY <1>1, Zenon DEF MInv, MutexQueuesExact, QueueExact, Lists, WaitSet
    <3>2. pc[c] = "app" /\ state[c] = "RUNNING"
      BY SMTT(20), ZenonT(30), <1>1, <2>2, UnlockStays
    <3>3. ~WaitingFor(c, "MUTEX", m)
      BY <3>2 DEF WaitingFor
    <3> QED BY ONLY <3>1, <3>3, ZenonT(30)
  <2>6. \A t \in Members(queue'[m]) : priority'[w] <= priority'[t]
    <3>1. Members(queue'[m]) \subseteq Members(queue[m])
      BY <1>1, <2>3, UnqueueInside, Zenon
    <3> QED BY ONLY <2>1, <2>3, <2>4, <2>5, <3>1, Zenon
  <2> QED BY <2>3, <2>6, Zenon DEF Inherited, OneMutex
<1> QED BY <1>2, <1>3

LEMMA NextPInv ==
  ASSUME Restricted, OneMutex
  PROVE  PInv /\ [MutexNext]_allVars => PInv'
<1> SUFFICES ASSUME PInv, [MutexNext]_allVars PROVE PInv'
  OBVIOUS
<1>0. MInv /\ MInv'
  BY NextMInv, SMTT(20) DEF PInv
<1> DEFINE Calm == UNCHANGED <<owner, priority>> /\ (phase' = "boot" => phase = "boot")
<1>1. ASSUME Calm, \A m \in Object : Members(queue'[m]) \subseteq Members(queue[m]) PROVE PInv'
  BY SMTT(20), ZenonT(30), <1>0, <1>1, FewerWaiters DEF PInv, BootFree
<1>2. CASE WakeMutex
  <2>1. /\ queue' = [m \in Object |-> IF block_object[Scanned] = m THEN Unqueue(queue[m], Scanned)
                                      ELSE queue[m]]
        /\ owner' = owner /\ priority' = priority /\ WakeTimeout
    BY <1>2, Zenon DEF WakeMutex
  <2>2. phase' = phase
    BY <2>1, Zenon DEF WakeTimeout
  <2>3. ASSUME NEW m \in Object PROVE Members(queue'[m]) \subseteq Members(queue[m])
    <3>1. queue'[m] = queue[m] \/ queue'[m] = Unqueue(queue[m], Scanned)
      BY <2>1, Zenon
    <3>2. Members(Unqueue(queue[m], Scanned)) \subseteq Members(queue[m])
      BY <1>0, UnqueueInside, Zenon
    <3> QED BY ONLY <3>1, <3>2, Zenon
  <2> QED BY <1>1, <2>1, <2>2, <2>3, Zenon
<1>3. ASSUME NEW c \in User, NEW t \in User, MutexTaskDelete(c, t) PROVE PInv'
  <2>1. /\ queue' = [m \in Object |->
                       IF state[t] = "BLOCKED" /\ block_reason[t] = "MUTEX" /\ block_object[t] = m
                       THEN Unqueue(queue[m], t) ELSE queue[m]]
        /\ owner' = owner /\ priority' = priority /\ TaskDelete(c, t)
    BY <1>3, Zenon DEF MutexTaskDelete, WaitTaskDelete
  <2>2. phase' = phase
    BY <2>1, Zenon DEF TaskDelete, cpuVars
  <2>3. ASSUME NEW m \in Object PROVE Members(queue'[m]) \subseteq Members(queue[m])
    <3>1. queue'[m] = queue[m] \/ queue'[m] = Unqueue(queue[m], t)
      BY <2>1, Zenon
    <3>2. Members(Unqueue(queue[m], t)) \subseteq Members(queue[m])
      BY <1>0, UnqueueInside, ZenonT(30)
    <3> QED BY ONLY <3>1, <3>2, Zenon
  <2> QED BY <1>1, <2>1, <2>2, <2>3, Zenon
<1>4. ASSUME NEW t \in User, NEW p \in Priority, MutexTaskCreate(t, p) PROVE PInv'
  BY <1>0, <1>4, Zenon DEF MutexTaskCreate, TaskCreate, cpuVars, PInv, BootFree, Inherited
<1>5. ASSUME NEW c \in User, NEW m \in Object, NEW n \in Ticks \cup {0}, MutexLock(c, m, n)
      PROVE  PInv'
  BY <1>1, <1>5, SMTT(20) DEF MutexLock, CallWait, mutexVars, cpuVars
<1>6. ASSUME NEW c \in User, LockTake(c) PROVE PInv'
  <2>1. /\ phase = "multi" /\ UNCHANGED <<phase, priority, queue>>
        /\ \A m \in Object : owner'[m] # owner[m] => owner[m] = NULL
    BY ZenonT(30), <1>0, <1>6 DEF LockTake, AtTry, Executing, cpuVars, MInv, MutexTypes
  <2>2. \A m \in Object : owner'[m] # owner[m] => queue'[m] = <<>>
    BY SMTT(20), ZenonT(30), <1>0, <2>1 DEF MInv, MutexQueuesExact
  <2> QED BY SMTT(20), ZenonT(30), <1>0, <2>1, <2>2, FewerWaiters DEF PInv, BootFree
<1>7. ASSUME NEW c \in User, LockWait(c) PROVE PInv'
  BY ZenonT(30), <1>0, <1>7, LockWaitInherits DEF PInv, BootFree, LockWait, AtTry, Executing, cpuVars
<1>8. ASSUME NEW c \in User, NEW m \in Object, UnlockFree(c, m) \/ UnlockHandOver(c, m) PROVE PInv'
  <2>1. phase' = "multi"
    BY <1>8, Zenon DEF UnlockFree, UnlockHandOver, Unlock, InApp, Executing, cpuVars
  <2> QED BY ZenonT(30), <1>0, <1>8, <2>1, UnlockInherits DEF PInv, BootFree
<1>9. CASE OtherStep /\ UNCHANGED mutexVars
  <2>1. phase' = "boot" => phase = "boot"
    <3>1. CASE RtosStart \/ SVC_Handler \/ PendSV_Handler \/ rtos_tick_increment
      BY <3>1 DEF RtosStart, SVC_Handler, PendSV_Handler, rtos_tick_increment
    <3>2. CASE WakeSkip \/ WakeDelay \/ SysTickReturn
      BY SMTT(20), ZenonT(30), <3>2 DEF WakeSkip, WakeDelay, SysTickReturn
    <3>3. \A c \in User : TaskYield(c) \/ BlockCommit(c) \/ BlockMark(c) \/ DelayReturn(c)
            \/ (\E n \in Ticks : TaskDelay(c, n)) => phase' = phase
      BY SMTT(20), ZenonT(30) DEF TaskYield, BlockCommit, BlockMark, DelayReturn, TaskDelay, cpuVars
    <3>4. \A c \in User : WaitBlockStore(c) \/ Unblocked(c) \/ Posted(c) => phase' = phase
      BY Zenon DEF WaitBlockStore, BlockStore, Unblocked, Posted, cpuVars
    <3> QED BY <1>9, <3>1, <3>2, <3>3, <3>4, Zenon DEF OtherStep, KernelStep, WaitStep
  <2> QED BY <1>1, <1>9, <2>1 DEF mutexVars
<1>10. CASE UNCHANGED allVars
  BY <1>1, <1>10 DEF allVars, vars, mutexVars
<1> QED
  BY SMTT(20), ZenonT(30), <1>2, <1>3, <1>4, <1>5, <1>6, <1>7, <1>8, <1>9, <1>10
  DEF MutexNext, MutexStep

\* Priority inheritance, where there is one mutex: its owner is at least as urgent
\* as every task that waits for it, through timeouts, deletions and handovers.
THEOREM InheritanceHolds ==
  ASSUME Restricted, OneMutex
  PROVE  MutexSpec => []Inherited
<1>1. MutexInit => PInv
  <2>1. MutexInit => \A m \in Object : owner[m] = NULL
    <3>1. MutexInit => owner = [m \in Object |-> NULL]
      BY Zenon DEF MutexInit
    <3> QED BY ONLY <3>1
  <2>2. (\A m \in Object : owner[m] = NULL) => BootFree /\ Inherited
    BY Zenon DEF BootFree, Inherited
  <2> QED BY <2>1, <2>2, InitMInv, Zenon DEF PInv
<1>2. PInv => Inherited
  BY DEF PInv
<1> QED BY <1>1, <1>2, NextPInv, PTL DEF MutexSpec

-----------------------------------------------------------------------------
(* Lockers are woken in time *)

LEMMA MutexOnTime ==
  ASSUME NoWrap, MInv, OnTime, [MutexNext]_allVars
  PROVE  OnTime'
<1>0. WInv
  BY DEF MInv
<1>1. CASE WakeMutex
  BY <1>0, <1>1, WaitOnTime, Zenon DEF WakeMutex
<1>2. CASE OtherStep
  BY <1>0, <1>2, WaitOnTime, Zenon DEF OtherStep
<1>3. CASE UNCHANGED allVars
  <2>1. UNCHANGED vars
    BY <1>3 DEF allVars
  <2> QED BY <1>0, <2>1, WaitOnTime, Zenon
<1>4. ASSUME NEW t \in User, NEW p \in Priority, MutexTaskCreate(t, p) PROVE OnTime'
  <2>1. TaskCreate(t, p)
    BY <1>4 DEF MutexTaskCreate
  <2> QED BY <1>0, <2>1, WaitOnTime, Zenon
<1>5. ASSUME NEW c \in User, NEW m, NEW n, MutexLock(c, m, n) PROVE OnTime'
  <2>1. CallWait(c, "MUTEX", m, n)
    BY <1>5 DEF MutexLock
  <2> QED BY <1>0, <2>1, WaitOnTime, Zenon
<1>6. ASSUME NEW c \in User, LockTake(c) \/ LockWait(c) PROVE OnTime'
  <2>1. UNCHANGED <<wake_time, tick, isr, registry>> /\ UNCHANGED state
    BY <1>6, Zenon DEF LockTake, LockWait, tcbVars, cpuVars
  <2> QED BY <1>0, <2>1, WakingOnTime, Zenon
<1>7. ASSUME NEW c \in User, NEW m, UnlockFree(c, m) \/ UnlockHandOver(c, m) PROVE OnTime'
  <2>1. Unlock(c, m)
    BY <1>7 DEF UnlockFree, UnlockHandOver
  <2>2. UNCHANGED <<wake_time, tick, isr, registry>>
    BY <2>1, Zenon DEF Unlock, cpuVars
  <2>3. UNCHANGED state \/ \E w : state' = [state EXCEPT ![w] = "READY"]
    BY <1>7, Zenon DEF UnlockFree, UnlockHandOver, MakeReady
  <2> QED BY <1>0, <2>2, <2>3, WakingOnTime, Zenon
<1>8. ASSUME NEW c \in User, NEW t \in User, MutexTaskDelete(c, t) PROVE OnTime'
  <2>1. WaitTaskDelete(c, t)
    BY <1>8 DEF MutexTaskDelete
  <2> QED BY <1>0, <2>1, WaitOnTime, Zenon
<1> QED
  BY <1>1, <1>2, <1>3, <1>4, <1>5, <1>6, <1>7, <1>8, Zenon DEF MutexNext, MutexStep

\* Timeouts come on time: outside SysTick no task is still BLOCKED in task_delay or in
\* mutex_lock at a tick that has reached its wake_time, whatever hand-overs, boosts and
\* task_delete come in between.  For a counter that does not wrap.
THEOREM LockTimeoutsInTime ==
  ASSUME Restricted, NoWrap
  PROVE  MutexSpec => []NoOverdueSleeper
<1>0. MutexInit => Init
  BY Zenon DEF MutexInit, WaitInit
<1>1. MutexInit => MInv /\ OnTime
  BY <1>0, InitMInv, InitOnTime, Zenon
<1>2. MInv /\ OnTime /\ [MutexNext]_allVars => MInv' /\ OnTime'
  BY NextMInv, MutexOnTime
<1> QED BY <1>1, <1>2, OnTimeSuffices, PTL DEF MutexSpec
=============================================================================

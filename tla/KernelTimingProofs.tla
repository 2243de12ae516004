-------------------------- MODULE KernelTimingProofs --------------------------
(***************************************************************************)
(* Proofs about delays and about round robin.  As long as the tick counter *)
(* and the wake times computed from it do not wrap, no task sleeps past    *)
(* its wake_time and none is woken early; and no task of a bucket is       *)
(* served twice while another one of that bucket waits.                    *)
(***************************************************************************)
EXTENDS KernelTiming, KernelProofs

\* Places inside task_delay.
InDelay == {"enter", "block", "mark", "spin"}

\* The only blocking call of this module is task_delay.
DelayOnly ==
  \A t \in Task :
    /\ pc[t] \in InDelay => req[t].reason = "DELAY" /\ req[t].ticks \in Ticks
    /\ pc[t] = "block" => block_reason[t] = "DELAY"
    /\ state[t] = "BLOCKED" => block_reason[t] = "DELAY" /\ pc[t] \in {"mark", "spin"}

Timed == OnTime /\ DelayOnly

LEMMA InitTimed == Init => Timed
<1> SUFFICES ASSUME Init PROVE Timed
  OBVIOUS
<1>1. \A t \in Task : pc[t] = "app" /\ state[t] \in {"READY", "UNUSED"}
  BY Zenon DEF Init
<1>2. DelayOnly
  BY <1>1 DEF DelayOnly, InDelay
<1> QED
  BY <1>2, InitOnTime DEF Timed

\* A step that only one task can notice.
LEMMA OneDelay ==
  ASSUME DelayOnly, NEW c \in Task,
         \A t \in Task \ {c} : /\ pc'[t] = pc[t] /\ req'[t] = req[t]
                               /\ block_reason'[t] = block_reason[t]
                               /\ state'[t] = "BLOCKED" => state[t] = "BLOCKED",
         pc'[c] \in InDelay => req'[c].reason = "DELAY" /\ req'[c].ticks \in Ticks,
         pc'[c] = "block" => block_reason'[c] = "DELAY",
         state'[c] = "BLOCKED" => block_reason'[c] = "DELAY" /\ pc'[c] \in {"mark", "spin"}
  PROVE  DelayOnly'
<1>1. ASSUME NEW t \in Task
      PROVE  /\ pc'[t] \in InDelay => req'[t].reason = "DELAY" /\ req'[t].ticks \in Ticks
             /\ pc'[t] = "block" => block_reason'[t] = "DELAY"
             /\ state'[t] = "BLOCKED" => block_reason'[t] = "DELAY" /\ pc'[t] \in {"mark", "spin"}
  <2>1. CASE t = c
    BY <2>1, Zenon
  <2>2. CASE t # c
    BY <2>2, Zenon DEF DelayOnly
  <2> QED
    BY <2>1, <2>2
<1> QED
  BY <1>1, Zenon DEF DelayOnly, InDelay

LEMMA QuietDelay ==
  ASSUME DelayOnly, UNCHANGED <<block_reason, pc, req>>,
         \A t \in Task : state'[t] = "BLOCKED" => state[t] = "BLOCKED"
  PROVE  DelayOnly'
BY Zenon DEF DelayOnly, InDelay

LEMMA SystemDelay ==
  ASSUME Inv, DelayOnly, Boot \/ PendSV_Handler \/ SysTick_Handler
  PROVE  DelayOnly'
<1> USE DEF cpuVars, taskVars, tcbVars
<1>0. /\ state \in [Task -> {"UNUSED", "READY", "RUNNING", "BLOCKED", "TERMINATED"}]
      /\ block_reason \in [Task -> Reason] /\ registry \in Seq(Task)
  BY DEF Inv, TypeOK
<1>1. CASE RtosStart \/ rtos_tick_increment \/ WakeSkip \/ SysTickReturn
  <2>1. UNCHANGED <<state, block_reason, pc, req>>
    BY <1>1, Zenon DEF RtosStart, rtos_tick_increment, WakeSkip, SysTickReturn
  <2> QED
    BY <2>1, QuietDelay, Zenon
<1>2. CASE SVC_Handler \/ PendSV_Handler
  <2>1. scheduler_get_next /\ UNCHANGED <<prio_bucket, block_reason, pc, req>>
    BY <1>2, Zenon DEF SVC_Handler, PendSV_Handler
  <2>2. \A t \in Task : state'[t] = "BLOCKED" => state[t] = "BLOCKED"
    BY <2>1, GetNext
  <2> QED
    BY <2>1, <2>2, QuietDelay, Zenon
<1>3. ASSUME NEW t \in User, NEW p \in Priority, TaskCreate(t, p) PROVE DelayOnly'
  <2>1. state' = [state EXCEPT ![t] = "READY"] /\ UNCHANGED <<block_reason, pc, req>>
    BY <1>3, Zenon DEF TaskCreate
  <2>2. \A u \in Task : state'[u] = "BLOCKED" => state[u] = "BLOCKED"
    BY ONLY <1>0, <2>1
  <2> QED
    BY <2>1, <2>2, QuietDelay, Zenon
<1>4. CASE WakeDelay
  <2> DEFINE w == Scanned
  <2>1. /\ isr \in 1 .. Len(registry) /\ state[w] = "BLOCKED" /\ UNCHANGED <<pc, req>>
        /\ state' = [state EXCEPT ![w] = "READY"]
        /\ block_reason' = [block_reason EXCEPT ![w] = "NONE"]
    BY <1>4, Zenon DEF WakeDelay, Due
  <2>2. w \in Task
    BY <1>0, <2>1, EntryOfSeq DEF Scanned
  <2> HIDE DEF w
  <2>3. /\ state'[w] # "BLOCKED"
        /\ \A t \in Task \ {w} : state'[t] = state[t] /\ block_reason'[t] = block_reason[t]
    BY ONLY <1>0, <2>1, <2>2
  <2>4. pc[w] # "block" /\ (pc[w] \in InDelay => req[w].reason = "DELAY" /\ req[w].ticks \in Ticks)
    BY <2>1, <2>2 DEF DelayOnly
  <2> QED
    BY <2>1, <2>2, <2>3, <2>4, OneDelay, Zenon
<1> QED
  BY <1>1, <1>2, <1>3, <1>4, Zenon DEF Boot, SysTick_Handler

LEMMA TaskStepDelay ==
  ASSUME Inv, DelayOnly, NEW c \in User, TaskStep(c)
  PROVE  DelayOnly'
<1> USE DEF cpuVars, taskVars, tcbVars
<1>0. /\ c \in Task
      /\ state \in [Task -> {"UNUSED", "READY", "RUNNING", "BLOCKED", "TERMINATED"}]
      /\ pc \in [Task -> Place] /\ req \in [Task -> [reason : Reason, ticks : Ticks \cup {0}]]
      /\ block_reason \in [Task -> Reason]
  BY DEF Inv, TypeOK, User
<1>d. /\ pc[c] \in InDelay => req[c].reason = "DELAY" /\ req[c].ticks \in Ticks
      /\ pc[c] = "block" => block_reason[c] = "DELAY"
      /\ state[c] = "BLOCKED" => block_reason[c] = "DELAY" /\ pc[c] \in {"mark", "spin"}
  BY <1>0, Zenon DEF DelayOnly
<1>1. CASE TaskYield(c)
  BY <1>1, QuietDelay, Zenon DEF TaskYield
<1>2. ASSUME NEW n \in Ticks, TaskDelay(c, n) PROVE DelayOnly'
  <2>1. /\ pc[c] = "app" /\ pc' = [pc EXCEPT ![c] = "enter"]
        /\ req' = [req EXCEPT ![c] = [reason |-> "DELAY", ticks |-> n]]
        /\ UNCHANGED <<state, block_reason>>
    BY <1>2, Zenon DEF TaskDelay, InApp
  <2>2. pc'[c] = "enter" /\ \A t \in Task \ {c} : pc'[t] = pc[t] /\ req'[t] = req[t]
    BY ONLY <1>0, <2>1
  <2>3. req'[c].reason = "DELAY" /\ req'[c].ticks \in Ticks
    BY ONLY <1>0, <2>1, n \in Ticks, Zenon
  <2>4. state'[c] # "BLOCKED" /\ pc'[c] # "block"
    BY ONLY <1>d, <2>1, <2>2
  <2> QED
    BY <1>0, <2>1, <2>2, <2>3, <2>4, OneDelay, Zenon
<1>3. CASE BlockStore(c)
  <2>1. /\ pc[c] = "enter" /\ pc' = [pc EXCEPT ![c] = "block"]
        /\ block_reason' = [block_reason EXCEPT ![c] = req[c].reason]
        /\ UNCHANGED <<state, req>>
    BY <1>3, Zenon DEF BlockStore
  <2>2. /\ pc'[c] = "block" /\ block_reason'[c] = req[c].reason
        /\ \A t \in Task \ {c} : pc'[t] = pc[t] /\ block_reason'[t] = block_reason[t]
    BY ONLY <1>0, <2>1
  <2>3. req[c].reason = "DELAY" /\ req[c].ticks \in Ticks /\ state[c] # "BLOCKED"
    BY ONLY <1>d, <2>1 DEF InDelay
  <2> QED
    BY <1>0, <2>1, <2>2, <2>3, OneDelay, Zenon
<1>4. CASE BlockCommit(c)
  <2>1. /\ pc[c] = "block" /\ pc' = [pc EXCEPT ![c] = "mark"]
        /\ state' = [state EXCEPT ![c] = "BLOCKED"] /\ UNCHANGED <<block_reason, req>>
    BY <1>4, Zenon DEF BlockCommit
  <2>2. pc'[c] = "mark" /\ \A t \in Task \ {c} : pc'[t] = pc[t] /\ state'[t] = state[t]
    BY ONLY <1>0, <2>1
  <2>3. /\ req[c].reason = "DELAY" /\ req[c].ticks \in Ticks /\ block_reason[c] = "DELAY"
        /\ pc'[c] # "block" /\ pc'[c] \in {"mark", "spin"}
    BY ONLY <1>d, <2>1, <2>2 DEF InDelay
  <2> QED
    BY <1>0, <2>1, <2>2, <2>3, OneDelay, Zenon
<1>5. CASE BlockMark(c)
  <2>1. /\ pc[c] = "mark" /\ pc' = [pc EXCEPT ![c] = "spin"]
        /\ UNCHANGED <<state, block_reason, req>>
    BY <1>5, Zenon DEF BlockMark
  <2>2. pc'[c] = "spin" /\ \A t \in Task \ {c} : pc'[t] = pc[t]
    BY ONLY <1>0, <2>1
  <2>3. /\ req[c].reason = "DELAY" /\ req[c].ticks \in Ticks
        /\ pc'[c] # "block" /\ pc'[c] \in {"mark", "spin"}
    BY ONLY <1>d, <2>1, <2>2 DEF InDelay
  <2> QED
    BY <1>0, <1>d, <2>1, <2>2, <2>3, OneDelay, Zenon
<1>6. CASE DelayReturn(c)
  <2>1. /\ state[c] # "BLOCKED" /\ pc' = [pc EXCEPT ![c] = "app"]
        /\ req' = [req EXCEPT ![c] = NoReq] /\ UNCHANGED <<state, block_reason>>
    BY <1>6, Zenon DEF DelayReturn
  <2>2. pc'[c] = "app" /\ \A t \in Task \ {c} : pc'[t] = pc[t] /\ req'[t] = req[t]
    BY ONLY <1>0, <2>1
  <2>3. pc'[c] \notin InDelay /\ pc'[c] # "block"
    BY ONLY <2>2 DEF InDelay
  <2> QED
    BY <1>0, <2>1, <2>2, <2>3, OneDelay, Zenon
<1>7. ASSUME NEW t \in User, TaskDelete(c, t) PROVE DelayOnly'
  <2>1. /\ t \in Task /\ pc' = [pc EXCEPT ![t] = "app"] /\ req' = [req EXCEPT ![t] = NoReq]
        /\ state' = [state EXCEPT ![t] = "TERMINATED"]
        /\ \A u \in Task \ {t} : block_reason'[u] = block_reason[u]
    BY <1>0, <1>7 DEF TaskDelete, User
  <2>2. /\ pc'[t] = "app" /\ state'[t] = "TERMINATED"
        /\ \A u \in Task \ {t} : pc'[u] = pc[u] /\ req'[u] = req[u] /\ state'[u] = state[u]
    BY ONLY <1>0, <2>1
  <2>3. pc'[t] \notin InDelay /\ pc'[t] # "block" /\ state'[t] # "BLOCKED"
    BY ONLY <2>2 DEF InDelay
  <2> QED
    BY <2>1, <2>2, <2>3, OneDelay, Zenon
<1> QED
  BY <1>1, <1>2, <1>3, <1>4, <1>5, <1>6, <1>7, Zenon DEF TaskStep, Block

LEMMA NextTimed ==
  ASSUME NoWrap
  PROVE  Inv /\ Timed /\ [Next]_vars => Timed'
<1> SUFFICES ASSUME Inv, OnTime, DelayOnly, [Next]_vars PROVE OnTime' /\ DelayOnly'
  BY Zenon DEF Timed
<1>1. BlockedForReason
  BY DEF BlockedForReason, DelayOnly
<1>2. OnTime'
  BY <1>1, StepOnTime, Zenon DEF Next
<1>3. DelayOnly'
  <2>1. CASE UNCHANGED vars
    BY <2>1, QuietDelay, Zenon DEF vars
  <2> QED
    BY <2>1, SystemDelay, TaskStepDelay, Zenon DEF Next
<1> QED
  BY <1>2, <1>3

\* rtos_wake_delayed overlooks nobody: when SysTick_Handler is done, no task
\* sleeps past its wake_time, for any number of tasks and for as long as the
\* counter does not come to wrap.
THEOREM NobodyOversleeps ==
  ASSUME NoWrap
  PROVE  Spec => []NoOverdueSleeper
<1>1. Timed => NoOverdueSleeper
  BY OnTimeSuffices DEF Timed
<1>2. Inv /\ Timed /\ [Next]_vars => Timed'
  BY NextTimed
<1> QED
  BY <1>1, <1>2, InitTimed, Invariance, PTL DEF Spec

-----------------------------------------------------------------------------
(* How long a delay has lasted *)

Committed(t) == pc[t] \in {"mark", "spin"}

\* What is left of a delay, counted from wake_time, and what has passed make up at
\* least what was asked for; a delay that is over has lasted that long.
LastedFor(t) ==
  /\ elapsed[t] \in Nat /\ elapsed[t] <= tick
  /\ Committed(t) /\ state[t] = "BLOCKED" => elapsed[t] + wake_time[t] >= tick + req[t].ticks
  /\ Committed(t) /\ state[t] # "BLOCKED" => elapsed[t] >= req[t].ticks

Lasted == \A t \in Task : LastedFor(t)

LEMMA ElapsedSame ==
  ASSUME Lasted, Watch, tick' = tick
  PROVE  \A t \in Task : elapsed'[t] = IF pc[t] = "app" THEN 0 ELSE elapsed[t]
BY DEF Watch

LEMMA SameDelay ==
  ASSUME TypeOK, Lasted, Watch, tick' = tick, wake_time' = wake_time,
         \A t \in Task : Committed(t)' =>
           /\ Committed(t) /\ req'[t] = req[t]
           /\ state'[t] = "BLOCKED" <=> state[t] = "BLOCKED"
  PROVE  Lasted'
<1>1. tick \in Nat
  BY KernelAssumption DEF TypeOK, UINT32_MAX
<1>2. \A t \in Task : elapsed'[t] = IF pc[t] = "app" THEN 0 ELSE elapsed[t]
  BY ElapsedSame
<1> QED
  BY <1>1, <1>2 DEF Lasted, LastedFor, Committed

LEMMA NextLasted ==
  ASSUME NoWrap, Inv, Timed, Lasted, Next, Watch
  PROVE  Lasted'
<1> USE DEF cpuVars, taskVars, tcbVars
<1>0. /\ TypeOK /\ tick \in Nat /\ tick <= MaxTick /\ MaxTick \in Nat /\ TickMod \in Nat
      /\ \A t \in Task : wake_time[t] \in Nat /\ req[t].ticks \in Nat
      /\ pc \in [Task -> Place] /\ req \in [Task -> [reason : Reason, ticks : Ticks \cup {0}]]
      /\ state \in [Task -> {"UNUSED", "READY", "RUNNING", "BLOCKED", "TERMINATED"}]
      /\ wake_time \in [Task -> 0 .. UINT32_MAX] /\ registry \in Seq(Task)
  <2>1. \A n \in Ticks \cup {0} : n \in Nat
    BY KernelAssumption
  <2>2. \A t \in Task : req[t].ticks \in Ticks \cup {0}
    BY DEF Inv, TypeOK
  <2>3. \A t \in Task : req[t].ticks \in Nat
    BY <2>1, <2>2, Zenon
  <2>4. /\ TypeOK /\ tick \in Nat /\ tick <= MaxTick /\ MaxTick \in Nat /\ TickMod \in Nat
        /\ \A t \in Task : wake_time[t] \in Nat
    BY KernelAssumption DEF Inv, TypeOK, Timed, OnTime, UINT32_MAX
  <2> QED
    BY <2>3, <2>4 DEF TypeOK
<1>1. ASSUME NEW t \in User, NEW p \in Priority, TaskCreate(t, p) PROVE Lasted'
  <2>1. /\ UNCHANGED <<wake_time, tick, pc, req>> /\ state[t] = "UNUSED" /\ t \in Task
        /\ state' = [state EXCEPT ![t] = "READY"]
    BY <1>1 DEF TaskCreate, User
  <2>2. \A u \in Task : state'[u] = "BLOCKED" <=> state[u] = "BLOCKED"
    BY <1>0, <2>1
  <2> QED
    BY <1>0, <2>1, <2>2, SameDelay DEF Committed
<1>2. CASE RtosStart \/ WakeSkip \/ SysTickReturn
  <2>1. UNCHANGED <<state, wake_time, tick, pc, req>>
    BY <1>2 DEF RtosStart, WakeSkip, SysTickReturn
  <2> QED
    BY <1>0, <2>1, SameDelay DEF Committed
<1>3. CASE SVC_Handler \/ PendSV_Handler
  <2>1. /\ scheduler_get_next
        /\ UNCHANGED <<prio_bucket, wake_time, tick, pc, req>>
    BY <1>3 DEF SVC_Handler, PendSV_Handler
  <2>2. \A t \in Task : state'[t] = "BLOCKED" <=> state[t] = "BLOCKED"
    BY <2>1, GetNext DEF Runnable
  <2> QED
    BY <1>0, <2>1, <2>2, SameDelay DEF Committed
<1>4. CASE rtos_tick_increment
  <2>1. tick < MaxTick /\ tick' = (tick + 1) % TickMod
        /\ UNCHANGED <<state, wake_time, pc, req>>
    BY <1>4 DEF rtos_tick_increment
  <2>2. tick' = tick + 1
    BY <1>0, <2>1, TickNoWrap
  <2>3. \A t \in Task : elapsed'[t] = IF pc[t] = "app" THEN 0 ELSE elapsed[t] + 1
    BY <1>0, <2>1, <2>2 DEF Watch, Lasted, LastedFor
  <2>4. ASSUME NEW t \in Task PROVE LastedFor(t)'
    <3>1. /\ elapsed[t] \in Nat /\ wake_time[t] \in Nat /\ req[t].ticks \in Nat /\ LastedFor(t)
      BY <1>0 DEF Lasted, LastedFor
    <3>2. elapsed'[t] \in Nat /\ elapsed'[t] <= tick'
      <4>1. elapsed'[t] = 0 \/ elapsed'[t] = elapsed[t] + 1
        BY <2>3, Zenon
      <4> QED
        BY <1>0, <2>2, <3>1, <4>1 DEF LastedFor
    <3>3. Committed(t)' => Committed(t) /\ elapsed'[t] = elapsed[t] + 1
      BY <2>1, <2>3 DEF Committed
    <3>4. ASSUME Committed(t)', state'[t] = "BLOCKED"
          PROVE  elapsed'[t] + wake_time'[t] >= tick' + req'[t].ticks
      BY SMTT(20), ZenonT(30), <1>0, <2>1, <2>2, <3>1, <3>3, <3>4 DEF LastedFor
    <3>5. ASSUME Committed(t)', state'[t] # "BLOCKED"
          PROVE  elapsed'[t] >= req'[t].ticks
      BY SMTT(20), ZenonT(30), <2>1, <3>1, <3>3, <3>5 DEF LastedFor
    <3> QED
      BY <3>2, <3>4, <3>5 DEF LastedFor
  <2> QED
    BY <2>4 DEF Lasted
<1>5. CASE WakeDelay
  <2> DEFINE w == registry[isr]
  <2>1. /\ w \in Task /\ state[w] = "BLOCKED" /\ tick >= wake_time[w]
        /\ state' = [state EXCEPT ![w] = "READY"]
        /\ UNCHANGED <<wake_time, tick, pc, req>>
    BY <1>0, <1>5 DEF WakeDelay, Scanned, Due
  <2>2. state'[w] = "READY" /\ \A t \in Task \ {w} : state'[t] = state[t]
    BY <1>0, <2>1
  <2>3. \A t \in Task : elapsed'[t] = IF pc[t] = "app" THEN 0 ELSE elapsed[t]
    BY <2>1, ElapsedSame
  <2>4. pc[w] \in {"mark", "spin"}
    <3>1. \A t \in Task : state[t] = "BLOCKED" => pc[t] \in {"mark", "spin"}
      BY DEF Timed, DelayOnly
    <3> HIDE DEF w
    <3> QED
      BY ONLY <2>1, <3>1
  <2>5. elapsed[w] >= req[w].ticks
    <3>1. LastedFor(w) /\ wake_time[w] \in Nat /\ req[w].ticks \in Nat /\ tick \in Nat
      BY <1>0, <2>1, Zenon DEF Lasted
    <3> HIDE DEF w
    <3> QED
      BY ONLY <2>1, <2>4, <3>1 DEF LastedFor, Committed
  <2>6. ASSUME NEW t \in Task PROVE LastedFor(t)'
    <3>1. LastedFor(t)
      BY DEF Lasted
    <3> QED
      BY SMTT(20), ZenonT(30), <1>0, <2>1, <2>2, <2>3, <2>4, <2>5, <3>1 DEF LastedFor, Committed
  <2> QED
    BY <2>6 DEF Lasted
<1>6. ASSUME NEW c \in User, TaskStep(c) PROVE Lasted'
  <2>0. c \in Task
    BY DEF User
  <2>1. CASE TaskYield(c)
    BY <1>0, <2>1, SameDelay DEF TaskYield, Committed
  <2>2. CASE \/ BlockStore(c) \/ DelayReturn(c) \/ \E n \in Ticks : TaskDelay(c, n)
    <3>1. /\ pc'[c] \in {"block", "app", "enter"} /\ UNCHANGED <<state, wake_time, tick>>
          /\ \A t \in Task \ {c} : pc'[t] = pc[t] /\ req'[t] = req[t]
      BY <1>0, <2>0, <2>2 DEF BlockStore, DelayReturn, TaskDelay
    <3> QED
      BY SMTT(20), ZenonT(30), <1>0, <3>1, SameDelay DEF Committed
  <2>3. CASE BlockCommit(c)
    <3>1. /\ pc[c] = "block" /\ pc' = [pc EXCEPT ![c] = "mark"]
          /\ wake_time' = [wake_time EXCEPT ![c] = WakeTime(req[c].ticks)]
          /\ state' = [state EXCEPT ![c] = "BLOCKED"] /\ UNCHANGED <<tick, req>>
      BY <2>3 DEF BlockCommit
    <3>2. /\ pc'[c] = "mark" /\ state'[c] = "BLOCKED" /\ wake_time'[c] = WakeTime(req[c].ticks)
          /\ \A t \in Task \ {c} :
               pc'[t] = pc[t] /\ state'[t] = state[t] /\ wake_time'[t] = wake_time[t]
      BY SMTT(20), ZenonT(30), <1>0, <2>0, <3>1
    <3>3. req[c].ticks \in Ticks
      BY SMTT(20), ZenonT(30), <2>0, <3>1 DEF Timed, DelayOnly, InDelay
    <3>4. wake_time'[c] = tick + req[c].ticks
      BY SMTT(20), ZenonT(30), <1>0, <3>2, <3>3, WakeTimeNoWrap
    <3>5. \A t \in Task : elapsed'[t] = IF pc[t] = "app" THEN 0 ELSE elapsed[t]
      BY <3>1, ElapsedSame
    <3>6. LastedFor(c)'
      <4>1. elapsed[c] \in Nat /\ elapsed[c] <= tick /\ req[c].ticks \in Nat
        BY <1>0, <2>0 DEF Lasted, LastedFor
      <4>2. elapsed'[c] = elapsed[c]
        BY <2>0, <3>1, <3>5
      <4>3. elapsed'[c] + wake_time'[c] >= tick' + req'[c].ticks
        BY SMTT(20), ZenonT(30), <1>0, <3>1, <3>4, <4>1, <4>2
      <4> QED
        BY <3>1, <3>2, <4>1, <4>2, <4>3 DEF LastedFor
    <3>7. ASSUME NEW t \in Task \ {c} PROVE LastedFor(t)'
      <4>1. LastedFor(t)
        BY DEF Lasted
      <4>2. /\ pc'[t] = pc[t] /\ state'[t] = state[t] /\ wake_time'[t] = wake_time[t]
            /\ req'[t] = req[t] /\ tick' = tick
        BY ONLY <3>1, <3>2
      <4>3. elapsed'[t] = IF pc[t] = "app" THEN 0 ELSE elapsed[t]
        BY ONLY <3>5
      <4>4. tick \in Nat
        BY <1>0
      <4>5. elapsed'[t] \in Nat /\ elapsed'[t] <= tick
        BY ONLY <4>1, <4>3, <4>4 DEF LastedFor
      <4>6. pc[t] \in {"mark", "spin"} => elapsed'[t] = elapsed[t]
        BY ONLY <4>3
      <4> QED
        BY ONLY <4>1, <4>2, <4>5, <4>6 DEF LastedFor, Committed
    <3> QED
      BY SMTT(20), ZenonT(30), <3>6, <3>7 DEF Lasted
  <2>4. CASE BlockMark(c)
    <3>1. /\ pc[c] = "mark" /\ UNCHANGED <<state, wake_time, tick, req>>
          /\ \A t \in Task \ {c} : pc'[t] = pc[t]
      BY <1>0, <2>0, <2>4 DEF BlockMark
    <3> QED
      BY <1>0, <3>1, SameDelay DEF Committed
  <2>5. ASSUME NEW t \in User, TaskDelete(c, t) PROVE Lasted'
    <3>1. /\ pc'[t] = "app" /\ UNCHANGED <<wake_time, tick>>
          /\ \A u \in Task \ {t} : pc'[u] = pc[u] /\ req'[u] = req[u] /\ state'[u] = state[u]
      BY <1>0, <2>5 DEF TaskDelete, User
    <3> QED
      BY <1>0, <3>1, SameDelay DEF Committed
  <2> QED
    BY <1>6, <2>1, <2>2, <2>3, <2>4, <2>5 DEF TaskStep, Block
<1> QED
  BY <1>1, <1>2, <1>3, <1>4, <1>5, <1>6 DEF Next, Boot, SysTick_Handler

\* The only ways out of task_delay are its return, when the task was woken, and
\* the deletion of the task.
LEMMA LeavesDelay ==
  ASSUME Inv, Timed, Next, NEW t \in Task, pc[t] = "spin", pc'[t] = "app",
         state'[t] # "TERMINATED"
  PROVE  state[t] # "BLOCKED"
<1> USE DEF cpuVars, taskVars, tcbVars
<1>0. /\ pc \in [Task -> Place]
      /\ state \in [Task -> {"UNUSED", "READY", "RUNNING", "BLOCKED", "TERMINATED"}]
  BY DEF Inv, TypeOK
<1>1. ASSUME pc' = pc PROVE FALSE
  BY <1>1
<1>2. ASSUME NEW c \in User, NEW place \in Place \ {"app"}, pc' = [pc EXCEPT ![c] = place]
      PROVE  FALSE
  BY SMTT(20), ZenonT(30), <1>0, <1>2
<1>3. PICK c \in User : TaskStep(c)
  BY <1>1, Zenon DEF Next, Boot, SysTick_Handler, TaskCreate, RtosStart, SVC_Handler, PendSV_Handler,
     rtos_tick_increment, WakeSkip, WakeDelay, SysTickReturn
<1>4. CASE Block(c) \/ TaskYield(c) \/ \E n \in Ticks : TaskDelay(c, n)
  BY <1>1, <1>2, <1>4, Zenon DEF Block, BlockStore, BlockCommit, BlockMark, TaskYield, TaskDelay, Place
<1>5. CASE DelayReturn(c)
  BY <1>0, <1>5 DEF DelayReturn
<1>6. ASSUME NEW u \in User, TaskDelete(c, u) PROVE FALSE
  BY <1>0, <1>6 DEF TaskDelete
<1> QED
  BY <1>3, <1>4, <1>5, <1>6 DEF TaskStep

\* task_delay(n) returns after n ticks or more, for every n, for any number of
\* tasks, and whatever wakes, preempts or deletes other tasks meanwhile, for as
\* long as the counter does not come to wrap.
THEOREM DelayNeverEarly ==
  ASSUME NoWrap
  PROVE  TimingSpec => DelayNotEarly
<1> DEFINE LInv == Inv /\ Timed /\ Lasted
           Early == \A t \in Task : req[t].reason = "DELAY" /\ pc[t] = "spin" /\ pc'[t] = "app"
                                      /\ state'[t] # "TERMINATED"
                                      => elapsed[t] >= req[t].ticks
<1>1. TimingInit => LInv
  <2> SUFFICES ASSUME TimingInit PROVE LInv
    OBVIOUS
  <2>1. Inv /\ Timed
    BY InitInv, InitTimed, SMTT(20) DEF TimingInit
  <2>2. Lasted
    <3>1. /\ tick = 0 /\ \A t \in Task : elapsed[t] = 0 /\ pc[t] = "app"
      BY DEF TimingInit, Init
    <3>2. \A t \in Task : ~Committed(t)
      BY <3>1, Zenon DEF Committed
    <3>3. ASSUME NEW t \in Task PROVE elapsed[t] \in Nat /\ elapsed[t] <= tick
      <4>1. elapsed[t] = 0 /\ tick = 0
        BY <3>1, Zenon
      <4> QED
        BY <4>1
    <3> QED
      BY <3>2, <3>3, Zenon DEF Lasted, LastedFor
  <2> QED
    BY <2>1, <2>2
<1>2. LInv /\ [Next /\ Watch]_timingVars => LInv'
  <2> SUFFICES ASSUME LInv, [Next /\ Watch]_timingVars PROVE LInv'
    OBVIOUS
  <2>1. Inv' /\ Timed'
    BY NextInv, NextTimed DEF timingVars
  <2>2. Lasted'
    <3>1. CASE UNCHANGED timingVars
      BY <3>1 DEF timingVars, vars, Lasted, LastedFor, Committed
    <3> QED
      BY <3>1, NextLasted
  <2> QED
    BY <2>1, <2>2
<1>3. LInv /\ [Next /\ Watch]_timingVars => [Early]_timingVars
  <2> SUFFICES ASSUME LInv, Next, NEW t \in Task, pc[t] = "spin", pc'[t] = "app",
                      state'[t] # "TERMINATED"
               PROVE  elapsed[t] >= req[t].ticks
    OBVIOUS
  <2>1. state[t] # "BLOCKED"
    BY LeavesDelay
  <2> QED
    BY <2>1 DEF Lasted, LastedFor, Committed
<1> QED
  BY <1>1, <1>2, <1>3, PTL DEF TimingSpec, DelayNotEarly

-----------------------------------------------------------------------------
(* The order of a ring.  Walk(next, h, t) is what a walk from the head h    *)
(* meets up to t: the tasks that scheduler_get_next serves before t, and t. *)

\* A walk meets nothing outside a set that holds its start and that no link leaves.
LEMMA WalkLeast ==
  ASSUME NEW next, NEW h, NEW stop, NEW S \in SUBSET Task, h \in S,
         \A y \in S \ {stop} : next[y] \in Task => next[y] \in S
  PROVE  Walk(next, h, stop) \subseteq S
BY DEF Walk

\* A walk meets its start, and the successor of every node but the last.
LEMMA WalkCloses ==
  ASSUME NEW next, NEW h \in Task, NEW stop
  PROVE  /\ h \in Walk(next, h, stop) /\ Walk(next, h, stop) \in SUBSET Task
         /\ \A y \in Walk(next, h, stop) \ {stop} :
              next[y] \in Task => next[y] \in Walk(next, h, stop)
BY DEF Walk

\* What a walk meets on its way to t, it meets before t.
LEMMA WalkOrder ==
  ASSUME NEW next, NEW h \in Task, NEW t
  PROVE  \A x \in Walk(next, h, t) \ {t} : t \notin Walk(next, h, x)
<1> DEFINE W(x) == Walk(next, h, x)
           S == {x \in W(t) : x = t \/ t \notin W(x)}
<1>1. h \in W(t) /\ W(t) \in SUBSET Task
  BY WalkCloses
<1>2. h \in S
  <2>1. {h} \in SUBSET Task /\ h \in {h} /\ \A y \in {h} \ {h} : next[y] \in Task => next[y] \in {h}
    OBVIOUS
  <2>2. W(h) \subseteq {h}
    BY <2>1, WalkLeast, Zenon
  <2> QED BY <1>1, <2>2
<1>3. ASSUME NEW x \in S \ {t}, next[x] \in Task PROVE next[x] \in S
  <2> DEFINE y == next[x]
             Q == W(x) \cup {y}
  <2>1. y \in W(t)
    BY <1>3, WalkCloses
  <2>2. h \in W(x) /\ W(x) \in SUBSET Task /\ \A z \in W(x) \ {x} : next[z] \in Task => next[z] \in W(x)
    BY WalkCloses
  <2>3. Q \in SUBSET Task /\ h \in Q /\ \A z \in Q \ {y} : next[z] \in Task => next[z] \in Q
    BY <1>3, <2>2
  <2> HIDE DEF Q
  <2>4. W(y) \subseteq Q
    BY <2>3, WalkLeast, Zenon
  <2> QED BY <1>3, <2>1, <2>4 DEF Q
<1>4. S \in SUBSET Task
  BY <1>1
<1> HIDE DEF S
<1>5. W(t) \subseteq S
  BY <1>2, <1>3, <1>4, WalkLeast
<1> QED BY <1>5 DEF S

\* In a ring a walk does not come back to its start before it is at its end.
LEMMA WalkNoReturn ==
  ASSUME NEW next, NEW R \in SUBSET Task, Cycle(next, R), NEW h \in R, NEW t \in R
  PROVE  \A x \in Walk(next, h, t) \ {t} : next[x] # h
<1> SUFFICES ASSUME NEW x \in Walk(next, h, t) \ {t}, next[x] = h PROVE FALSE
  OBVIOUS
<1> DEFINE A == Walk(next, h, x)
<1>1. t \notin A
  BY WalkOrder
<1>2. A \in SUBSET R /\ h \in A
  BY WalkInside, WalkCloses
<1>3. \A y \in A : next[y] \in A
  <2>1. \A y \in A : next[y] \in Task
    BY <1>2 DEF Cycle
  <2> QED BY <1>2, <2>1, WalkCloses
<1> HIDE DEF A
<1>4. A = R
  BY <1>2, <1>3, Zenon DEF Cycle
<1> QED BY <1>1, <1>4

\* scheduler_get_next serves the head, and everybody else moves up by one.
LEMMA RotateWalk ==
  ASSUME NEW next, NEW R \in SUBSET Task, Cycle(next, R), NEW h \in R, NEW t \in R, h # t
  PROVE  Walk(next, next[h], t) \subseteq Walk(next, h, t) \ {h}
<1> DEFINE W == Walk(next, h, t)
<1>1. h \in W /\ W \in SUBSET Task /\ \A y \in W \ {t} : next[y] \in Task => next[y] \in W
  BY WalkCloses
<1>2. \A x \in W \ {t} : next[x] # h
  BY WalkNoReturn
<1>3. next[h] \in Task
  BY DEF Cycle
<1> HIDE DEF W
<1>4. next[h] \in W \ {h}
  BY <1>1, <1>2, <1>3
<1> DEFINE S == W \ {h}
<1>5. S \in SUBSET Task /\ next[h] \in S /\ \A y \in S \ {t} : next[y] \in Task => next[y] \in S
  BY <1>1, <1>2, <1>4
<1> HIDE DEF S
<1>6. Walk(next, next[h], t) \subseteq S
  BY <1>5, WalkLeast, Zenon
<1> QED BY <1>6 DEF S, W

\* A walk whose links stay as they are stays as it is, or becomes shorter.
LEMMA WalkFrame ==
  ASSUME NEW next, NEW next2, NEW h \in Task, NEW t,
         \A x \in Walk(next, h, t) \ {t} : next2[x] = next[x]
  PROVE  Walk(next2, h, t) \subseteq Walk(next, h, t)
BY WalkCloses, WalkLeast

\* _ring_insert puts the new task in front of nobody.
LEMMA InsertWalk ==
  ASSUME NEW B, NEW rq \in RingState(B), NEW f, Rings(rq, B, f), NEW b \in B,
         NEW u \in Task, \A c \in B : u \notin f[c], NEW c \in B, NEW t \in f[c]
  PROVE  Walk(RingInsert(rq, b, u).next, RingInsert(rq, b, u).head[c], t)
           \subseteq Walk(rq.next, rq.head[c], t)
<1> DEFINE h == rq.head[b]
           k == rq.head[c]
           new == RingInsert(rq, b, u)
           p == CHOOSE x \in Tails(rq.next, h) : TRUE
           W == Walk(rq.next, k, t)
<1>1. /\ f[b] \in SUBSET Task /\ IsRing(rq, b, f[b]) /\ rq.next \in Links /\ h \in Task \cup {NULL}
      /\ f[c] \in SUBSET Task /\ Cycle(rq.next, f[c]) /\ k \in f[c]
      /\ rq.head \in [B -> Task \cup {NULL}]
      /\ c # b => f[b] \cap f[c] = {}
  BY DEF Rings, RingState, IsRing
<1>2. W \subseteq f[c]
  BY <1>1, WalkInside
<1>3. CASE f[b] = {}
  <2>1. h = NULL /\ c # b
    BY <1>1, <1>3 DEF IsRing
  <2>2. new = [rq EXCEPT !.head = [@ EXCEPT ![b] = u], !.next = [@ EXCEPT ![u] = u]]
    BY <2>1 DEF RingInsert
  <2> HIDE DEF new
  <2>3. new.head[c] = k /\ \A x \in Task \ {u} : new.next[x] = rq.next[x]
    BY <1>1, <2>1, <2>2, Zenon DEF RingState, Links
  <2>4. \A x \in W \ {t} : new.next[x] = rq.next[x]
    BY <1>1, <1>2, <2>3
  <2>8. k \in Task
    BY <1>1
  <2>9. Walk(new.next, k, t) \subseteq W
    BY <2>4, <2>8, WalkFrame, Zenon
  <2> QED BY <2>3, <2>9 DEF new
<1>4. CASE f[b] # {}
  <2>1. h \in f[b] /\ h # NULL /\ Cycle(rq.next, f[b])
    BY <1>1, <1>4, NullIsNoTask DEF IsRing
  <2>2. Tails(rq.next, h) # {} /\ p \in f[b] /\ rq.next[p] = h
    <3>1. f[b] \in SUBSET Task /\ Cycle(rq.next, f[b]) /\ h \in f[b]
      BY <1>1, <2>1
    <3> QED BY ONLY <3>1, TailFound, Zenon
  <2>3. new = [rq EXCEPT !.next = [@ EXCEPT ![p] = u, ![u] = h]]
    BY <2>1, <2>2 DEF RingInsert
  <2> HIDE DEF new, p
  <2>4. new.head[c] = k /\ \A x \in Task \ {u, p} : new.next[x] = rq.next[x]
    BY <1>1, <2>2, <2>3 DEF RingState, Links
  <2>5. p \notin W \ {t}
    <3>1. CASE c = b
      BY <1>1, <2>2, <3>1, WalkNoReturn
    <3>2. CASE c # b
      BY <1>1, <1>2, <2>2, <3>2
    <3> QED BY <3>1, <3>2
  <2>6. \A x \in W \ {t} : new.next[x] = rq.next[x]
    BY <1>1, <1>2, <2>4, <2>5
  <2>8. k \in Task
    BY <1>1
  <2>9. Walk(new.next, k, t) \subseteq W
    BY <2>6, <2>8, WalkFrame, Zenon
  <2> QED BY <2>4, <2>9 DEF new
<1> QED BY <1>3, <1>4

\* scheduler_remove_task lets the tasks behind the one it takes out move up.
LEMMA RemoveWalk ==
  ASSUME NEW B, NEW rq \in RingState(B), NEW f, Rings(rq, B, f), NEW b \in B,
         NEW u \in Task, NEW c \in B, NEW t \in f[c], t # u
  PROVE  Walk(RingRemove(rq, b, u).next, RingRemove(rq, b, u).head[c], t)
           \subseteq Walk(rq.next, rq.head[c], t)
<1> DEFINE h == rq.head[b]
           k == rq.head[c]
           n == rq.next[u]
           new == RingRemove(rq, b, u)
           preds == Preds(rq.next, h, u)
           p == CHOOSE x \in preds : TRUE
           W == Walk(rq.next, k, t)
<1>1. /\ f[b] \in SUBSET Task /\ IsRing(rq, b, f[b]) /\ Cycle(rq.next, f[b])
      /\ rq.next \in Links /\ h \in Task \cup {NULL}
      /\ f[c] \in SUBSET Task /\ Cycle(rq.next, f[c]) /\ k \in f[c]
      /\ rq.head \in [B -> Task \cup {NULL}]
      /\ c # b => f[b] \cap f[c] = {}
  BY DEF Rings, RingState, IsRing
<1>2. /\ W \subseteq f[c] /\ k \in W
      /\ \A y \in W \ {t} : rq.next[y] \in Task => rq.next[y] \in W
  BY <1>1, WalkInside, WalkCloses
<1>3. CASE u \notin f[b]
  <2>1. new = rq
    <3>1. CASE f[b] = {}
      BY <1>1, <3>1 DEF RingRemove, IsRing
    <3>2. CASE f[b] # {}
      <4>1. h \in f[b]
        BY <1>1, <3>2 DEF IsRing
      <4>2. Tails(rq.next, h) # {} /\ Walk(rq.next, h, u) \subseteq f[b]
        <5>1. f[b] \in SUBSET Task /\ Cycle(rq.next, f[b])
          BY <1>1
        <5>2. Tails(rq.next, h) # {}
          BY ONLY <4>1, <5>1, TailFound
        <5>3. Walk(rq.next, h, u) \subseteq f[b]
          BY ONLY <4>1, <5>1, WalkInside
        <5> QED BY <5>2, <5>3
      <4>3. h # NULL
        BY <1>1, <4>1, NullIsNoTask
      <4> QED BY <1>3, <4>2, <4>3 DEF RingRemove
    <3> QED BY <3>1, <3>2
  <2> QED BY <2>1
<1>4. CASE u \in f[b]
  <2>1. h \in f[b] /\ h # NULL
    BY <1>1, <1>4, NullIsNoTask DEF IsRing
  <2>2. new = Unlink(rq, b, u, preds)
    <3>1. u \in Walk(rq.next, h, u)
      BY <1>1, <1>4, <2>1, WalkFinds
    <3> QED BY <2>1, <3>1 DEF RingRemove, Preds
  <2>3. CASE n = u
    <3>1. new = [rq EXCEPT !.head = [@ EXCEPT ![b] = NULL], !.next = [@ EXCEPT ![u] = NULL]]
      BY <2>2, <2>3 DEF Unlink
    <3>2. f[b] = {u}
      <4>1. {u} \in SUBSET f[b] /\ {u} # {} /\ \A x \in {u} : rq.next[x] \in {u}
        BY <1>4, <2>3
      <4> QED BY <1>1, <4>1, Zenon DEF Cycle
    <3>3. c # b
      BY <3>2
    <3> HIDE DEF new
    <3>4. new.head[c] = k /\ \A x \in Task \ {u} : new.next[x] = rq.next[x]
      BY <1>1, <3>1, <3>3, Zenon DEF RingState, Links
    <3>5. \A x \in W \ {t} : new.next[x] = rq.next[x]
      BY <1>1, <1>2, <1>4, <3>3, <3>4
    <3>8. k \in Task
      BY <1>1
    <3>9. Walk(new.next, k, t) \subseteq W
      BY <3>5, <3>8, WalkFrame, Zenon
    <3> QED BY <3>4, <3>9 DEF new
  <2>4. CASE n # u
    <3>1. preds # {} /\ p \in f[b] /\ rq.next[p] = u
      <4>1. /\ f[b] \in SUBSET Task /\ Cycle(rq.next, f[b]) /\ h \in f[b]
            /\ u \in f[b] /\ rq.next[u] # u
        BY <1>1, <1>4, <2>1, <2>4
      <4> QED BY ONLY <4>1, UnlinkPred
    <3>2. n \in f[b]
      BY <1>1, <1>4 DEF Cycle
    <3>3. new = [rq EXCEPT !.head = [@ EXCEPT ![b] = IF u = h THEN n ELSE h],
                           !.next = [@ EXCEPT ![p] = n, ![u] = NULL]]
      BY <2>2, <2>4, <3>1 DEF Unlink
    <3> HIDE DEF preds, p, new
    <3>4. /\ new.next = [rq.next EXCEPT ![p] = n, ![u] = NULL]
          /\ new.head = [rq.head EXCEPT ![b] = IF u = h THEN n ELSE h]
      BY <3>3, Zenon DEF RingState
    <3>5. /\ new.next[u] = NULL /\ (p # u => new.next[p] = n)
          /\ \A x \in Task \ {u, p} : new.next[x] = rq.next[x]
      BY <1>1, <3>1, <3>4 DEF Links
    <3>6. CASE c # b
      <4>1. new.head[c] = k
        BY <1>1, <3>4, <3>6
      <4>2. \A x \in W \ {t} : new.next[x] = rq.next[x]
        BY <1>1, <1>2, <1>4, <3>1, <3>5, <3>6
      <4>8. k \in Task
        BY <1>1
      <4>9. Walk(new.next, k, t) \subseteq W
        BY <4>2, <4>8, WalkFrame, Zenon
      <4> QED BY <4>1, <4>9 DEF new
    <3>7. CASE c = b
      <4>1. new.head[c] = IF u = h THEN n ELSE h
        BY <1>1, <3>4, <3>7
      <4>2. u \in W => n \in W
        BY <1>1, <1>2, <3>2
      <4>3. new.head[c] \in W
        BY <1>2, <3>7, <4>1, <4>2
      <4>4. ASSUME NEW y \in W \ {t}, new.next[y] \in Task PROVE new.next[y] \in W
        <5>1. y # u
          BY <3>5, <4>4, NullIsNoTask
        <5>2. CASE y = p
          BY <1>2, <3>1, <3>5, <4>2, <5>1, <5>2
        <5>3. CASE y # p
          BY <1>1, <1>2, <3>5, <4>4, <5>1, <5>3
        <5> QED BY <5>2, <5>3
      <4>5. W \in SUBSET Task
        BY <1>1, <1>2
      <4> HIDE DEF W
      <4>6. Walk(new.next, new.head[c], t) \subseteq W
        BY <4>3, <4>4, <4>5, WalkLeast
      <4> QED BY <4>6 DEF W, new
    <3> QED BY <3>6, <3>7
  <2> QED BY <2>3, <2>4
<1> QED BY <1>3, <1>4

-----------------------------------------------------------------------------
(* Round robin *)

\* The tasks of its ring that are served before t, and t.
InFront(t) == Walk(ready.next, ready.head[prio_bucket[t]], t)

\* Who was served since t became READY is behind t, wherever it has been meanwhile.
ServedBehind == \A t \in Task : state[t] = "READY" => passed[t] \cap InFront(t) = {}

\* Steps that dispatch nobody and put nobody in front of a READY task.
LEMMA QuietServed ==
  ASSUME ServedBehind, Watch, ~Dispatched,
         \A t \in Task : state[t] = "READY" /\ state'[t] = "READY" => InFront(t)' \subseteq InFront(t)
  PROVE  ServedBehind'
<1> SUFFICES ASSUME NEW t \in Task, state'[t] = "READY" PROVE passed'[t] \cap InFront(t)' = {}
  BY DEF ServedBehind
<1>1. passed'[t] = IF state'[t] = "READY" /\ state[t] = "READY" THEN passed[t] ELSE {}
  BY Zenon DEF Watch, PassedOver
<1>2. CASE state[t] = "READY"
  <2>1. passed[t] \cap InFront(t) = {} /\ InFront(t)' \subseteq InFront(t) /\ passed'[t] = passed[t]
    BY <1>1, <1>2, Zenon DEF ServedBehind
  <2> QED BY ONLY <2>1
<1>3. CASE state[t] # "READY"
  BY <1>1, <1>3, Zenon
<1> QED BY <1>2, <1>3

\* A READY task is in the ring of its bucket.
LEMMA ReadyInRing ==
  ASSUME Inv, NEW t \in Task, state[t] = "READY"
  PROVE  /\ prio_bucket[t] \in Bucket /\ t \in ReadySets[prio_bucket[t]]
         /\ ReadySets[prio_bucket[t]] \in SUBSET Task
         /\ Cycle(ready.next, ReadySets[prio_bucket[t]])
         /\ ready.head[prio_bucket[t]] \in ReadySets[prio_bucket[t]]
<1>1. prio_bucket[t] \in Bucket /\ t \in ReadySets[prio_bucket[t]]
  BY DEF Inv, TypeOK, ReadySets, RunnableIn, Runnable
<1>2. Rings(ready, Bucket, ReadySets)
  BY RingsOfReady DEF Inv
<1> QED BY <1>1, <1>2 DEF Rings, IsRing

\* scheduler_get_next: the peer it serves has not been served yet, and goes to the end.
LEMMA DispatchServed ==
  ASSUME Inv, ServedBehind, Watch, SVC_Handler \/ PendSV_Handler
  PROVE  /\ ServedBehind'
         /\ \A t \in Task : PassedOver(t) => current_tcb' \notin passed[t]
<1> DEFINE b == TopBucket
           sel == ready.head[b]
<1>1. /\ scheduler_get_next /\ prio_bucket' = prio_bucket /\ Dispatched
  BY DEF SVC_Handler, PendSV_Handler, Dispatched
<1>2. /\ current_tcb' \in Task /\ state[current_tcb'] \in Runnable
      /\ \A t \in Task : state'[t] = IF t = current_tcb' THEN "RUNNING"
                                     ELSE IF state[t] = "RUNNING" THEN "READY" ELSE state[t]
  BY <1>1, GetNext
<1>3. NonEmpty # {}
  <2>1. /\ RunnableIn(prio_bucket[Idle]) # {} /\ prio_bucket[Idle] \in Bucket
        /\ RunnableIn(prio_bucket[Idle]) \subseteq Task
    BY KernelAssumption DEF Inv, IdleRunnable, RunnableIn, TypeOK
  <2>2. ready.head[prio_bucket[Idle]] # NULL
    BY <2>1, NullIsNoTask DEF Inv, ReadyRingsExact, IsRing
  <2> QED BY <2>1, <2>2 DEF NonEmpty
<1>4. /\ b \in Bucket /\ sel # NULL
      /\ current_tcb' = sel
      /\ ready' = [ready EXCEPT !.head = [@ EXCEPT ![b] = ready.next[sel]]]
  BY <1>1, <1>3, TopBucketFound DEF Inv, scheduler_get_next, Dispatch, NonEmpty
<1>5. ready \in RingState(Bucket) /\ Rings(ready, Bucket, ReadySets)
  BY RingsOfReady DEF Inv
<1>6. prio_bucket[sel] = b
  <2>1. sel \in ReadySets[b]
    BY <1>4, <1>5, NullIsNoTask DEF Rings, IsRing
  <2> QED BY <1>4, <2>1 DEF ReadySets, RunnableIn
<1> HIDE DEF b, sel
<1>7. /\ ready'.next = ready.next /\ ready'.head[b] = ready.next[sel]
      /\ \A c \in Bucket \ {b} : ready'.head[c] = ready.head[c]
  BY <1>4, <1>5, Zenon DEF RingState
<1>8. ASSUME NEW t \in Task, state[t] = "READY", t # sel, prio_bucket[t] = b
      PROVE  sel \notin passed[t] /\ InFront(t)' \subseteq InFront(t) \ {sel}
  <2>1. /\ ReadySets[b] \in SUBSET Task /\ Cycle(ready.next, ReadySets[b])
        /\ sel \in ReadySets[b] /\ t \in ReadySets[b]
    BY <1>8, ReadyInRing DEF sel
  <2>2. Walk(ready.next, ready.next[sel], t) \subseteq Walk(ready.next, sel, t) \ {sel}
    BY <1>8, <2>1, RotateWalk
  <2>3. InFront(t) = Walk(ready.next, sel, t)
    BY <1>8 DEF InFront, sel
  <2>4. InFront(t)' = Walk(ready.next, ready.next[sel], t)
    BY <1>1, <1>7, <1>8 DEF InFront
  <2>5. sel \in InFront(t)
    BY <2>1, <2>3, WalkCloses
  <2> QED BY <1>8, <2>2, <2>3, <2>4, <2>5 DEF ServedBehind
<1>9. ASSUME NEW t \in Task, PassedOver(t) PROVE current_tcb' \notin passed[t]
  BY <1>4, <1>6, <1>8, <1>9 DEF PassedOver
<1>10. ASSUME NEW t \in Task, state'[t] = "READY" PROVE passed'[t] \cap InFront(t)' = {}
  <2>1. t # sel
    BY <1>2, <1>4, <1>10
  <2>2. CASE state[t] # "READY"
    BY <2>2, Zenon DEF Watch, PassedOver
  <2>3. CASE state[t] = "READY" /\ prio_bucket[t] = b
    <3>1. passed'[t] = passed[t] \cup {sel}
      BY <1>1, <1>4, <1>6, <1>10, <2>1, <2>3, Zenon DEF Watch, PassedOver
    <3> QED BY <1>8, <2>1, <2>3, <3>1 DEF ServedBehind
  <2>4. CASE state[t] = "READY" /\ prio_bucket[t] # b
    <3>1. passed'[t] = passed[t]
      BY <1>4, <1>6, <1>10, <2>4, Zenon DEF Watch, PassedOver
    <3>2. prio_bucket[t] \in Bucket
      BY <2>4, ReadyInRing
    <3>3. InFront(t)' = InFront(t)
      BY <1>1, <1>7, <2>4, <3>2 DEF InFront
    <3> QED BY <2>4, <3>1, <3>3 DEF ServedBehind
  <2> QED BY <2>2, <2>3, <2>4
<1> QED BY <1>9, <1>10 DEF ServedBehind

\* Steps that insert a task into its ring when it becomes READY.
LEMMA InsertServed ==
  ASSUME Inv, ServedBehind, Watch, ~Dispatched, NEW u \in Task, NEW b \in Bucket,
         state[u] \notin Runnable, ready' = RingInsert(ready, b, u),
         \A t \in Task \ {u} : prio_bucket'[t] = prio_bucket[t]
  PROVE  ServedBehind'
<1>1. ready \in RingState(Bucket) /\ Rings(ready, Bucket, ReadySets)
  BY RingsOfReady DEF Inv
<1>2. \A c \in Bucket : u \notin ReadySets[c]
  BY DEF ReadySets, RunnableIn
<1>3. ASSUME NEW t \in Task, state[t] = "READY" PROVE InFront(t)' \subseteq InFront(t)
  <2> DEFINE c == prio_bucket[t]
  <2>1. c \in Bucket /\ t \in ReadySets[c] /\ prio_bucket'[t] = c
    BY <1>3, ReadyInRing DEF Runnable
  <2> HIDE DEF c
  <2>2. Walk(RingInsert(ready, b, u).next, RingInsert(ready, b, u).head[c], t)
          \subseteq Walk(ready.next, ready.head[c], t)
    BY <1>1, <1>2, <2>1, InsertWalk
  <2> QED BY <2>1, <2>2 DEF InFront, c
<1> QED BY <1>3, QuietServed

\* Steps that take a task out of its ring when it is no longer READY.
LEMMA RemoveServed ==
  ASSUME Inv, ServedBehind, Watch, ~Dispatched, NEW u \in Task, NEW b \in Bucket,
         state'[u] # "READY", ready' = RingRemove(ready, b, u), prio_bucket' = prio_bucket
  PROVE  ServedBehind'
<1>1. ready \in RingState(Bucket) /\ Rings(ready, Bucket, ReadySets)
  BY RingsOfReady DEF Inv
<1>2. ASSUME NEW t \in Task, state[t] = "READY", state'[t] = "READY"
      PROVE  InFront(t)' \subseteq InFront(t)
  <2> DEFINE c == prio_bucket[t]
  <2>1. c \in Bucket /\ t \in ReadySets[c] /\ t # u
    BY <1>2, ReadyInRing
  <2> HIDE DEF c
  <2>2. Walk(RingRemove(ready, b, u).next, RingRemove(ready, b, u).head[c], t)
          \subseteq Walk(ready.next, ready.head[c], t)
    BY <1>1, <2>1, RemoveWalk
  <2> QED BY <2>2 DEF InFront, c
<1> QED BY <1>2, QuietServed

LEMMA NextServed ==
  ASSUME Inv, ServedBehind, Next, Watch
  PROVE  /\ ServedBehind'
         /\ \A t \in Task : PassedOver(t) => current_tcb' \notin passed[t]
<1> USE DEF cpuVars, taskVars, tcbVars
<1>0. /\ TypeOK /\ pendsv \in BOOLEAN /\ prio_bucket \in [Task -> Bucket]
      /\ state \in [Task -> {"UNUSED", "READY", "RUNNING", "BLOCKED", "TERMINATED"}]
  BY DEF Inv, TypeOK
<1>1. ASSUME ~Dispatched PROVE \A t \in Task : PassedOver(t) => current_tcb' \notin passed[t]
  BY <1>1 DEF PassedOver
<1>2. ASSUME UNCHANGED <<ready, prio_bucket>>, ~Dispatched PROVE ServedBehind'
  <2>1. \A t \in Task : InFront(t)' = InFront(t)
    BY <1>2 DEF InFront
  <2> QED BY <1>2, <2>1, QuietServed
<1>3. ASSUME NEW u \in User, NEW p \in Priority, TaskCreate(u, p) PROVE ServedBehind' /\ ~Dispatched
  <2>1. /\ u \in Task /\ state[u] \notin Runnable /\ PrioBucket(p) \in Bucket
        /\ ready' = RingInsert(ready, PrioBucket(p), u) /\ ~Dispatched
        /\ \A t \in Task \ {u} : prio_bucket'[t] = prio_bucket[t]
    BY <1>0, <1>3, PrioBucketType, KernelAssumption DEF TaskCreate, User, Runnable, Dispatched
  <2> QED BY <2>1, InsertServed
<1>4. CASE RtosStart \/ rtos_tick_increment \/ WakeSkip \/ SysTickReturn
  <2>1. /\ UNCHANGED <<ready, prio_bucket>>
        /\ pendsv' = TRUE \/ pendsv' = pendsv
        /\ phase' = "armed" \/ phase' = phase
    BY <1>4, Zenon DEF RtosStart, rtos_tick_increment, WakeSkip, SysTickReturn
  <2>2. ~Dispatched
    BY <2>1 DEF Dispatched
  <2> QED BY <1>1, <1>2, <2>1, <2>2
<1>5. CASE WakeDelay
  <2>1. /\ registry[isr] \in Task /\ state[registry[isr]] \notin Runnable
        /\ prio_bucket[registry[isr]] \in Bucket
    BY <1>0, <1>5, EntryOfSeq DEF WakeDelay, Scanned, Due, TypeOK, Runnable
  <2>2. /\ ready' = RingInsert(ready, prio_bucket[registry[isr]], registry[isr])
        /\ ~Dispatched /\ prio_bucket' = prio_bucket
    BY <1>5, Zenon DEF WakeDelay, Scanned, Dispatched
  <2> QED BY <1>1, <2>1, <2>2, InsertServed
<1>6. ASSUME NEW c \in User, TaskStep(c) PROVE ServedBehind' /\ ~Dispatched
  <2>0. c \in Task /\ prio_bucket[c] \in Bucket
    BY <1>0 DEF User
  <2>1. CASE \/ TaskYield(c) \/ BlockStore(c) \/ BlockMark(c) \/ DelayReturn(c)
             \/ \E n \in Ticks : TaskDelay(c, n)
    <3>1. UNCHANGED <<ready, prio_bucket, phase>> /\ (pendsv' = TRUE \/ pendsv' = pendsv)
      BY <2>1, Zenon DEF TaskYield, BlockStore, BlockMark, DelayReturn, TaskDelay
    <3>2. ~Dispatched
      BY <3>1 DEF Dispatched
    <3> QED BY <1>2, <3>1, <3>2
  <2>2. CASE BlockCommit(c)
    <3>1. /\ ready' = RingRemove(ready, prio_bucket[c], c) /\ prio_bucket' = prio_bucket
          /\ state' = [state EXCEPT ![c] = "BLOCKED"] /\ ~Dispatched
      BY <2>2, Zenon DEF BlockCommit, Dispatched
    <3> QED BY <1>0, <2>0, <3>1, RemoveServed
  <2>3. ASSUME NEW u \in User, TaskDelete(c, u) PROVE ServedBehind' /\ ~Dispatched
    <3>1. /\ ready' = RingRemove(ready, prio_bucket[u], u) /\ prio_bucket' = prio_bucket
          /\ state' = [state EXCEPT ![u] = "TERMINATED"] /\ ~Dispatched
      BY <2>3, Zenon DEF TaskDelete, Dispatched
    <3>2. u \in Task /\ prio_bucket[u] \in Bucket
      BY <1>0 DEF User
    <3> QED BY <1>0, <3>1, <3>2, RemoveServed
  <2> QED BY <1>6, <2>1, <2>2, <2>3, Zenon DEF TaskStep, Block
<1> QED
  BY <1>1, <1>3, <1>4, <1>5, <1>6, DispatchServed, Zenon DEF Next, Boot, SysTick_Handler

\* Bounded bypass: while a task waits READY, scheduler_get_next serves no other task
\* of its bucket twice, for any number of tasks and whatever delays, wakes, yields
\* and is deleted meanwhile; a peer that sleeps and comes back queues up behind it.
THEOREM RoundRobinIsFair == TimingSpec => NoPeerServedTwice
<1> DEFINE RInv == Inv /\ ServedBehind
           Once == \A t \in Task : PassedOver(t) => current_tcb' \notin passed[t]
<1>1. TimingInit => RInv
  <2> SUFFICES ASSUME TimingInit PROVE RInv
    OBVIOUS
  <2>1. Inv
    BY InitInv DEF TimingInit
  <2>2. ServedBehind
    BY Zenon DEF TimingInit, ServedBehind
  <2> QED BY <2>1, <2>2
<1>2. RInv /\ [Next /\ Watch]_timingVars => RInv' /\ [Once]_timingVars
  <2> SUFFICES ASSUME RInv, [Next /\ Watch]_timingVars PROVE RInv' /\ [Once]_timingVars
    OBVIOUS
  <2>1. Inv'
    BY NextInv DEF timingVars
  <2>2. CASE UNCHANGED timingVars
    <3>1. ServedBehind'
      BY <2>2 DEF timingVars, vars, ServedBehind, InFront
    <3> QED BY <2>1, <2>2, <3>1
  <2>3. CASE Next /\ Watch
    BY <2>1, <2>3, NextServed
  <2> QED BY <2>2, <2>3
<1> QED
  BY <1>1, <1>2, PTL DEF TimingSpec, NoPeerServedTwice
=============================================================================

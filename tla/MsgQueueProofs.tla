---------------------------- MODULE MsgQueueProofs ----------------------------
(***************************************************************************)
(* The message queue implements Fifo, for every depth, every set of tasks  *)
(* and messages, and every behaviour of the kernel around it.  It keeps    *)
(* its two wait queues exact, loses no wakeup and serves timeouts when     *)
(* they end where no SysTick comes in a window.                            *)
(***************************************************************************)
EXTENDS MsgQueue, WaitingProofs

\* An index that has gone past the last of d slots at most once.
Wrapped(a, d) == IF a < d THEN a ELSE a - d

\* This is what the % of "(mq->tail + 1U) % mq->depth" computes.
LEMMA ModOnce ==
  ASSUME NEW d \in Nat \ {0}
  PROVE  \A a \in 0 .. d + d - 1 : a % d = Wrapped(a, d)
<1> SUFFICES ASSUME NEW a \in 0 .. d + d - 1
             PROVE  a % d = IF a < d THEN a ELSE a - d
  BY DEF Wrapped
<1>1. CASE a < d
  BY <1>1, Z3
<1>2. CASE ~(a < d)
  BY <1>2, Z3
<1> QED
  BY <1>1, <1>2

\* Stepping an index once more and wrapping it is wrapping it after one more step.
LEMMA NextIndex ==
  ASSUME NEW d \in Nat \ {0}, NEW h \in 0 .. d - 1, NEW i \in 0 .. d - 1
  PROVE  /\ (h + i) % d \in 0 .. d - 1
         /\ (((h + i) % d) + 1) % d = (h + i + 1) % d
         /\ (((h + 1) % d) + i) % d = (h + i + 1) % d
<1>0. h + i \in 0 .. d + d - 1 /\ h + 1 \in 0 .. d + d - 1 /\ h + i + 1 \in 0 .. d + d - 1
  OBVIOUS
<1>1. (h + i) % d = Wrapped(h + i, d)
  BY <1>0, ModOnce, Zenon
<1>2. (h + 1) % d = Wrapped(h + 1, d)
  BY <1>0, ModOnce, Zenon
<1>3. (h + i + 1) % d = Wrapped(h + i + 1, d)
  BY <1>0, ModOnce, Zenon
<1>4. (h + i) % d \in 0 .. d - 1
  BY <1>1 DEF Wrapped
<1>5. (h + 1) % d \in 0 .. d - 1
  BY <1>2 DEF Wrapped
<1>6. (((h + i) % d) + 1) % d = (h + i + 1) % d
  <2> DEFINE a == (h + i) % d
  <2>1. a \in 0 .. d - 1
    BY <1>4
  <2> HIDE DEF a
  <2>3. a + 1 \in 0 .. d + d - 1
    BY <2>1
  <2>2. (a + 1) % d = Wrapped(a + 1, d)
    BY <2>3, ModOnce, Zenon
  <2>4. a = Wrapped(h + i, d)
    BY <1>1 DEF a
  <2>5. (a + 1) % d = (h + i + 1) % d
    BY <1>3, <2>2, <2>4 DEF Wrapped
  <2> QED
    BY <2>5 DEF a
<1>7. (((h + 1) % d) + i) % d = (h + i + 1) % d
  <2> DEFINE a == (h + 1) % d
  <2>1. a \in 0 .. d - 1
    BY <1>5
  <2> HIDE DEF a
  <2>3. a + i \in 0 .. d + d - 1
    BY <2>1
  <2>2. (a + i) % d = Wrapped(a + i, d)
    BY <2>3, ModOnce, Zenon
  <2>4. a = Wrapped(h + 1, d)
    BY <1>2 DEF a
  <2>5. (a + i) % d = (h + i + 1) % d
    BY <1>3, <2>2, <2>4 DEF Wrapped
  <2> QED
    BY <2>5 DEF a
<1> QED
  BY <1>4, <1>6, <1>7

\* One more element at the end, and one less at the front.
LEMMA AppendIs ==
  ASSUME NEW S, NEW n \in Nat, NEW s \in [1 .. n -> S], NEW v \in S,
         NEW t \in [1 .. n + 1 -> S], \A i \in 1 .. n : t[i] = s[i], t[n + 1] = v
  PROVE  t = Append(s, v)
<1>1. s \in Seq(S) /\ Len(s) = n
  OBVIOUS
<1>2. t \in Seq(S) /\ Len(t) = n + 1
  OBVIOUS
<1>3. Append(s, v) \in Seq(S) /\ Len(Append(s, v)) = n + 1
  BY <1>1
<1>4. \A i \in 1 .. n + 1 : t[i] = Append(s, v)[i]
  BY <1>1
<1> QED
  BY <1>2, <1>3, <1>4

LEMMA TailIs ==
  ASSUME NEW S, NEW n \in Nat \ {0}, NEW s \in [1 .. n -> S],
         NEW t \in [1 .. n - 1 -> S], \A i \in 1 .. n - 1 : t[i] = s[i + 1]
  PROVE  t = Tail(s)
<1>1. s \in Seq(S) /\ Len(s) = n /\ s # <<>>
  OBVIOUS
<1>2. t \in Seq(S) /\ Len(t) = n - 1
  OBVIOUS
<1>3. Tail(s) \in Seq(S) /\ Len(Tail(s)) = n - 1
  BY <1>1
<1>4. \A i \in 1 .. n - 1 : t[i] = Tail(s)[i]
  BY <1>1
<1> QED
  BY <1>2, <1>3, <1>4

\* Less than a round apart, two indices are two slots.
LEMMA OtherSlot ==
  ASSUME NEW d \in Nat \ {0}, NEW h \in 0 .. d - 1, NEW i \in 0 .. d - 1,
         NEW j \in 0 .. d - 1, i # j
  PROVE  (h + i) % d # (h + j) % d
<1>0. h + i \in 0 .. d + d - 1 /\ h + j \in 0 .. d + d - 1
  OBVIOUS
<1>1. (h + i) % d = Wrapped(h + i, d)
  BY <1>0, ModOnce, Zenon
<1>2. (h + j) % d = Wrapped(h + j, d)
  BY <1>0, ModOnce, Zenon
<1> QED
  BY <1>1, <1>2 DEF Wrapped

-----------------------------------------------------------------------------
(* The inductive invariant: where the next message goes is where count slots *)
(* from head leads.                                                          *)

IInv ==
  /\ buffer \in [Slot -> Msg] /\ head \in Slot /\ tail \in Slot /\ count \in 0 .. Depth
  /\ tail = (head + count) % Depth
  /\ msg \in [Task -> Msg] /\ out \in [Task -> Msg]

LEMMA DepthFacts == Depth \in Nat \ {0} /\ User \subseteq Task
BY MsgQueueAssumption DEF User

\* The action is one that stores a message of Msg or none, and moves no index.
SlotsKept == UNCHANGED slotVars /\ \/ UNCHANGED msg
                                   \/ \E c \in Task, v \in Msg : msg' = [msg EXCEPT ![c] = v]

Put == \E c \in User : SendPut(c)
Get == \E c \in User : RecvGet(c)

LEMMA StepKinds ==
  ASSUME [MsgNext]_allVars
  PROVE  SlotsKept \/ Put \/ Get
<1>1. CASE UNCHANGED allVars
  BY <1>1 DEF allVars, queueVars, slotVars, SlotsKept
<1>2. CASE UNCHANGED queueVars
  BY <1>2 DEF queueVars, slotVars, SlotsKept
<1>3. CASE WakeMsg
  BY <1>3 DEF WakeMsg, slotVars, SlotsKept
<1>4. ASSUME NEW c \in User, NEW v \in Msg, NEW n \in Ticks \cup {0}, MsgSend(c, v, n)
      PROVE  SlotsKept
  BY <1>4, DepthFacts, Zenon DEF MsgSend, slotVars, SlotsKept
<1>5. ASSUME NEW c \in User, NEW n \in Ticks \cup {0}, MsgRecv(c, n)
      PROVE  SlotsKept
  BY <1>5 DEF MsgRecv, queueVars, slotVars, SlotsKept
<1>6. ASSUME NEW c \in User, SendWait(c) \/ RecvWait(c)
      PROVE  SlotsKept
  BY <1>6 DEF SendWait, RecvWait, slotVars, SlotsKept
<1>7. ASSUME NEW c \in User, NEW t \in User, MsgTaskDelete(c, t)
      PROVE  SlotsKept
  BY <1>7 DEF MsgTaskDelete, slotVars, SlotsKept
<1> QED
  BY <1>1, <1>2, <1>3, <1>4, <1>5, <1>6, <1>7 DEF MsgNext, MsgStep, Put, Get

LEMMA InitIInv == MsgInit => IInv
<1>1. 0 \in Slot /\ 0 + 0 \in 0 .. Depth + Depth - 1
  BY DepthFacts DEF Slot
<1>2. (0 + 0) % Depth = 0
  BY <1>1, DepthFacts, ModOnce DEF Wrapped
<1> QED
  BY <1>1, <1>2, DepthFacts DEF MsgInit, IInv

LEMMA PutIInv == IInv /\ Put => IInv'
<1> SUFFICES ASSUME IInv, NEW c \in User, SendPut(c)
             PROVE  IInv'
  BY DEF Put
<1>1. head \in 0 .. Depth - 1 /\ count \in 0 .. Depth - 1 /\ count' = count + 1 /\ head' = head
  BY DepthFacts DEF IInv, SendPut, Slot
<1>2. /\ tail' = (head + count + 1) % Depth
      /\ tail \in 0 .. Depth - 1
  BY <1>1, DepthFacts, NextIndex DEF IInv, SendPut, After
<1>3. tail' \in Slot
  <2>1. tail + 1 \in 0 .. Depth + Depth - 1
    BY <1>2, DepthFacts
  <2> QED
    BY <1>2, <2>1, DepthFacts, ModOnce DEF SendPut, After, Slot, Wrapped
<1>4. tail' = (head' + count') % Depth
  BY <1>1, <1>2, DepthFacts
<1>5. buffer' \in [Slot -> Msg] /\ msg' = msg /\ out' = out
  BY DepthFacts DEF IInv, SendPut
<1> QED
  BY <1>1, <1>3, <1>4, <1>5, DepthFacts DEF IInv, Slot

LEMMA GetIInv == IInv /\ Get => IInv'
<1> SUFFICES ASSUME IInv, NEW c \in User, RecvGet(c)
             PROVE  IInv'
  BY DEF Get
<1>1. /\ head \in 0 .. Depth - 1 /\ count - 1 \in 0 .. Depth - 1
      /\ count' = count - 1 /\ tail' = tail /\ head' = (head + 1) % Depth
  BY DepthFacts DEF IInv, RecvGet, After, Slot
<1>2. (((head + 1) % Depth) + (count - 1)) % Depth = (head + (count - 1) + 1) % Depth
  BY <1>1, DepthFacts, NextIndex
<1>3. tail' = (head' + count') % Depth
  <2>1. head + (count - 1) + 1 = head + count
    BY <1>1, DepthFacts DEF IInv
  <2> QED
    BY <1>1, <1>2, <2>1 DEF IInv
<1>4. head' \in Slot
  <2>1. head + 1 \in 0 .. Depth + Depth - 1
    BY <1>1, DepthFacts
  <2> QED
    BY <1>1, <2>1, DepthFacts, ModOnce DEF Slot, Wrapped
<1>5. buffer' = buffer /\ msg' = msg /\ out' \in [Task -> Msg]
  BY DepthFacts DEF IInv, RecvGet
<1>6. tail' \in Slot /\ count' \in 0 .. Depth
  BY <1>1, DepthFacts DEF IInv
<1>7. Slot' = Slot
  BY DEF Slot
<1> QED
  BY <1>3, <1>4, <1>5, <1>6, <1>7 DEF IInv

LEMMA NextIInv == IInv /\ [MsgNext]_allVars => IInv'
<1> SUFFICES ASSUME IInv, [MsgNext]_allVars
             PROVE  IInv'
  OBVIOUS
<1>1. CASE SlotsKept
  BY <1>1 DEF SlotsKept, slotVars, IInv
<1> QED
  BY <1>1, StepKinds, PutIInv, GetIInv

-----------------------------------------------------------------------------
(* The steps of the ring buffer are those of the FIFO. *)

LEMMA PutIsSend ==
  ASSUME IInv, Put
  PROVE  \E v \in Msg : F!Send(v)
<1> PICK c \in User : SendPut(c)
  BY DEF Put
<1>1. /\ head \in 0 .. Depth - 1 /\ count \in 0 .. Depth - 1 /\ tail \in Slot
      /\ count' = count + 1 /\ head' = head /\ out' = out /\ msg[c] \in Msg
      /\ buffer' = [buffer EXCEPT ![tail] = msg[c]] /\ buffer \in [Slot -> Msg]
  BY DepthFacts DEF IInv, SendPut, Slot
<1>2. ASSUME NEW i \in 1 .. count
      PROVE  /\ (head + i - 1) % Depth \in Slot
             /\ (head + i - 1) % Depth # tail
  <2>1. i - 1 \in 0 .. Depth - 1 /\ i - 1 # count /\ head + (i - 1) = head + i - 1
    BY <1>1, DepthFacts
  <2>2. (head + (i - 1)) % Depth # (head + count) % Depth
    BY <1>1, <2>1, DepthFacts, OtherSlot
  <2>3. (head + (i - 1)) % Depth \in 0 .. Depth - 1
    BY <1>1, <2>1, DepthFacts, NextIndex
  <2> QED
    BY <2>1, <2>2, <2>3 DEF IInv, Slot
<1>3. ASSUME NEW i \in 1 .. count
      PROVE  buffer'[(head + i - 1) % Depth] = buffer[(head + i - 1) % Depth]
  BY <1>1, <1>2
<1>4. buffer'[(head + (count + 1) - 1) % Depth] = msg[c]
  <2>1. head + (count + 1) - 1 = head + count
    BY <1>1, DepthFacts
  <2> QED
    BY <1>1, <2>1 DEF IInv
<1>5. Contents \in [1 .. count -> Msg]
  BY <1>1, <1>2 DEF Contents
<1>6. Contents' = [i \in 1 .. count + 1 |-> buffer'[(head + i - 1) % Depth]]
  BY <1>1 DEF Contents
<1>7. \A i \in 1 .. count : Contents'[i] = Contents[i]
  BY <1>1, <1>3, <1>6, DepthFacts DEF Contents
<1>8. Contents'[count + 1] = msg[c]
  BY <1>1, <1>4, <1>6, DepthFacts
<1>9. Contents' \in [1 .. count + 1 -> Msg]
  <2>1. \A i \in 1 .. count + 1 : i \in 1 .. count \/ i = count + 1
    BY <1>1, DepthFacts
  <2>2. \A i \in 1 .. count + 1 : Contents'[i] \in Msg
    BY <1>1, <1>5, <1>7, <1>8, <2>1
  <2> QED
    BY <1>6, <2>2
<1>10. Contents' = Append(Contents, msg[c])
  <2> HIDE DEF Contents
  <2>1. count \in Nat
    BY <1>1, DepthFacts
  <2> QED
    BY <1>1, <1>5, <1>7, <1>8, <1>9, <2>1, AppendIs
<1>11. Len(Contents) = count /\ count < Depth
  BY <1>1, <1>5, DepthFacts
<1> QED
  BY <1>1, <1>10, <1>11 DEF F!Send

LEMMA GetIsRecv ==
  ASSUME IInv, Get
  PROVE  \E t \in Task : F!Recv(t)
<1> PICK c \in User : RecvGet(c)
  BY DEF Get
<1>1. /\ head \in 0 .. Depth - 1 /\ count \in 1 .. Depth /\ buffer \in [Slot -> Msg]
      /\ count' = count - 1 /\ head' = (head + 1) % Depth /\ buffer' = buffer
      /\ out' = [out EXCEPT ![c] = buffer[head]] /\ c \in Task
  BY DepthFacts DEF IInv, RecvGet, After, Slot
<1>2. ASSUME NEW i \in 1 .. count
      PROVE  (head + i - 1) % Depth \in Slot
  <2>1. i - 1 \in 0 .. Depth - 1 /\ head + (i - 1) = head + i - 1
    BY <1>1, DepthFacts
  <2>2. (head + (i - 1)) % Depth \in 0 .. Depth - 1
    BY <1>1, <2>1, DepthFacts, NextIndex
  <2> QED
    BY <2>1, <2>2 DEF Slot
<1>3. ASSUME NEW i \in 1 .. count - 1
      PROVE  (head' + i - 1) % Depth = (head + (i + 1) - 1) % Depth
  <2>1. i - 1 \in 0 .. Depth - 1 /\ head + (i - 1) + 1 = head + (i + 1) - 1
    BY <1>1, DepthFacts
  <2>2. (((head + 1) % Depth) + (i - 1)) % Depth = (head + (i - 1) + 1) % Depth
    BY <1>1, <2>1, DepthFacts, NextIndex
  <2>3. (head + 1) % Depth \in Int
    BY <1>1, DepthFacts
  <2>4. head' + (i - 1) = head' + i - 1
    BY <1>1, <2>3
  <2> QED
    BY <1>1, <2>1, <2>2, <2>4
<1>4. Contents \in [1 .. count -> Msg]
  BY <1>1, <1>2, Zenon DEF Contents
<1>5. Head(Contents) = buffer[head]
  <2>1. head + 1 - 1 = head /\ head \in 0 .. Depth + Depth - 1
    BY <1>1, DepthFacts
  <2>2. head % Depth = head
    BY <1>1, <2>1, DepthFacts, ModOnce DEF Wrapped
  <2>3. Contents[1] = buffer[head]
    BY <1>1, <2>1, <2>2, DepthFacts DEF Contents
  <2> QED
    BY <1>1, <1>4, <2>3, DepthFacts
<1>6. Contents' = [i \in 1 .. count - 1 |-> buffer[(head' + i - 1) % Depth]]
  BY <1>1 DEF Contents
<1>7. Contents' = Tail(Contents)
  <2>1. \A i \in 1 .. count - 1 : i + 1 \in 1 .. count
    BY <1>1, DepthFacts
  <2>2. \A i \in 1 .. count - 1 : Contents'[i] = Contents[i + 1]
    BY <1>3, <1>6, <2>1, Zenon DEF Contents
  <2>3. Contents' \in [1 .. count - 1 -> Msg]
    BY <1>4, <1>6, <2>1, <2>2
  <2>4. count \in Nat \ {0}
    BY <1>1, DepthFacts
  <2> QED
    BY <1>4, <2>2, <2>3, <2>4, TailIs
<1>8. Contents # <<>>
  BY <1>1, <1>4, DepthFacts
<1> QED
  BY <1>1, <1>5, <1>7, <1>8, Zenon DEF F!Recv

-----------------------------------------------------------------------------
\* Every index of the ring buffer names a slot and tail stays count slots after
\* head, whatever senders and receivers are preempted, time out or are deleted:
\* the % depth arithmetic of msg_queue_send and msg_queue_recv.
THEOREM RingBufferSound == MsgSpec => []IInv
<1>1. MsgInit => IInv
  BY InitIInv
<1>2. IInv /\ [MsgNext]_allVars => IInv'
  BY NextIInv
<1> QED
  BY <1>1, <1>2, PTL DEF MsgSpec

\* msg_queue_send and msg_queue_recv implement a FIFO of depth messages, for every
\* depth: no message is lost, duplicated, overwritten or overtaken in the buffer.
THEOREM MsgImplementsFifo == MsgSpec => FifoSpec
<1>1. MsgInit => F!Init
  <2> SUFFICES ASSUME MsgInit
               PROVE  Contents = <<>> /\ out \in [Task -> Msg]
    BY DEF F!Init
  <2> QED
    BY DEF MsgInit, Contents
<1>2. IInv /\ [MsgNext]_allVars => [F!Next]_<<Contents, out>>
  <2> SUFFICES ASSUME IInv, [MsgNext]_allVars
               PROVE  F!Next \/ UNCHANGED <<Contents, out>>
    OBVIOUS
  <2>1. CASE SlotsKept
    BY <2>1 DEF SlotsKept, slotVars, Contents
  <2> QED
    BY <2>1, StepKinds, PutIsSend, GetIsRecv DEF F!Next
<1> QED
  BY <1>1, <1>2, RingBufferSound, PTL DEF MsgSpec, FifoSpec, F!Spec

-----------------------------------------------------------------------------
(* The two wait queues.  Sending and receiving mirror each other: each has its *)
(* line of waiting tasks and what is open to them, free slots or messages.     *)

Ways == {"MSG_SEND", "MSG_RECV"}
Line(r) == IF r = "MSG_SEND" THEN send_wait ELSE recv_wait
Party(r) == IF r = "MSG_SEND" THEN Sender ELSE Receiver
Open(r) == IF r = "MSG_SEND" THEN Depth - count ELSE count

LineExact(r) == Line(r) \in Seq(Party(r)) /\ Lists(Line(r), WaitSet(r, Queue))

\* While tasks are in line, all that is open to them has a task on its way.
Served(r) == Line(r) # <<>> => Open(r) <= Cardinality(Takers(r, Queue))

AllServed == \A r \in Ways : Served(r)

\* Only senders send and only receivers receive.
InRole(t) == \/ req[t].reason \in {"NONE", "DELAY"}
             \/ \E r \in Ways : req[t].reason = r /\ t \in Party(r)

\* The inductive invariant.
QInv ==
  /\ WInv /\ MostUrgentRuns /\ WindowsClosed
  /\ \A t \in Task : InRole(t)
  /\ \A r \in Ways : LineExact(r)

LEMMA MsgConstants ==
  /\ Queue \in Object /\ Ways \subseteq WaitReason /\ IsFiniteSet(Task)
  /\ \A o \in Object : o = Queue
BY MsgQueueAssumption DEF WaitReason, Ways

LEMMA OpenType == ASSUME IInv, NEW r \in Ways PROVE Open(r) \in Nat
BY DepthFacts DEF IInv, Open

LEMMA InRoleKept ==
  ASSUME NEW t \in Task, InRole(t), SameCall(t)
  PROVE  InRole(t)'
BY DEF InRole, SameCall, Party

LEMMA ServedKept ==
  ASSUME NEW r \in Ways, Served(r), Open(r) \in Nat, Open(r)' = Open(r),
         Line(r)' # <<>> => Line(r) # <<>>,
         \A t \in Task : OnItsWay(t, r, Queue) => OnItsWay(t, r, Queue)'
  PROVE  Served(r)'
<1> DEFINE T == Takers(r, Queue)
<1>1. /\ Cardinality(T) \in Nat /\ Cardinality(T)' \in Nat /\ Cardinality(T) <= Cardinality(T)'
  BY TakersKept, MsgConstants
<1>2. Line(r) # <<>> => Open(r) <= Cardinality(T)
  BY DEF Served
<1>3. Line(r)' # <<>> => Open(r)' <= Cardinality(T)'
  BY <1>1, <1>2
<1> QED BY <1>3 DEF Served

\* The steps that leave the queue alone.
LEMMA SteadyQ ==
  ASSUME QInv, IInv, WInv', MostUrgentRuns', WindowsClosed',
         UNCHANGED <<send_wait, recv_wait, count>>,
         \A t \in Task : SameWait(t), \A t \in Task : InRole(t)'
  PROVE  QInv' /\ (AllServed => AllServed')
<1>1. ASSUME NEW r \in Ways PROVE LineExact(r)' /\ (Served(r) => Served(r)')
  <2>1. Line(r)' = Line(r) /\ Open(r)' = Open(r) /\ Party(r)' = Party(r) /\ r \in WaitReason
    BY MsgConstants DEF Line, Open, Party
  <2>2. LineExact(r)
    BY DEF QInv
  <2>3. Lists(Line(r), WaitSet(r, Queue)')
    BY <2>1, <2>2, ListsKept, MsgConstants DEF LineExact
  <2>4. \A t \in Task : OnItsWay(t, r, Queue) => OnItsWay(t, r, Queue)'
    BY <2>1, MsgConstants, Zenon DEF SameWait
  <2>5. Served(r) => Served(r)'
    BY <2>1, <2>4, ServedKept, OpenType
  <2>6. LineExact(r)'
    BY <2>1, <2>2, <2>3 DEF LineExact
  <2> QED BY <2>5, <2>6
<1>2. Ways' = Ways
  BY DEF Ways
<1> QED BY <1>1, <1>2, Zenon DEF QInv, AllServed

LEMMA OtherStepQ ==
  ASSUME QInv, IInv, TickInWindow = FALSE, UNCHANGED queueVars, OtherStep \/ UNCHANGED allVars
  PROVE  QInv' /\ (AllServed => AllServed')
<1>0. WInv /\ MostUrgentRuns /\ WindowsClosed /\ Inv /\ UNCHANGED <<send_wait, recv_wait, count>>
  BY DEF QInv, WInv, queueVars
<1>1. CASE KernelStep \/ WaitStep \/ UNCHANGED <<vars, waitVars>>
  <2>1. WInv' /\ MostUrgentRuns' /\ \A t \in Task : SameWait(t) /\ SameCall(t)
    BY <1>0, <1>1, OtherSteady, Zenon
  <2>2. WindowsClosed'
    BY <1>0, <1>1, WindowsSteady, Zenon
  <2>3. \A t \in Task : InRole(t)'
    BY <2>1, InRoleKept, Zenon DEF QInv
  <2> QED BY <1>0, <2>1, <2>2, <2>3, SteadyQ, Zenon
<1>2. CASE MsgTaskCreate
  <2>1. PICK x \in User, p \in Priority : TaskCreate(x, p) /\ UNCHANGED waitVars
    BY <1>2, MsgQueueAssumption, Zenon DEF MsgTaskCreate
  <2>2. WInv' /\ \A t \in Task : SameWait(t) /\ SameCall(t)
    BY <1>0, <2>1, CreateSteady
  <2>3. MostUrgentRuns'
    BY <1>0, <2>1, KernelStepUrgent
  <2>4. WindowsClosed'
    BY <1>0, <2>1, WindowsSteady, Zenon
  <2>5. \A t \in Task : InRole(t)'
    BY <2>2, InRoleKept, Zenon DEF QInv
  <2> QED BY <1>0, <2>2, <2>3, <2>4, <2>5, SteadyQ, Zenon
<1> QED BY <1>1, <1>2 DEF OtherStep, allVars

\* msg_queue_send and msg_queue_recv are called.
LEMMA CallQ ==
  ASSUME QInv, IInv, TickInWindow = FALSE, NEW c \in User, NEW a \in Ways, c \in Party(a),
         NEW n \in Ticks \cup {0}, CallWait(c, a, Queue, n), UNCHANGED <<send_wait, recv_wait, count>>
  PROVE  QInv' /\ (AllServed => AllServed')
<1>0. WInv /\ MostUrgentRuns /\ WindowsClosed /\ Inv /\ c \in Task /\ a \in WaitReason
  BY MsgConstants DEF QInv, WInv, User
<1>1. WindowsClosed'
  BY <1>0, WindowsSteady, Zenon
<1>2. /\ WInv' /\ MostUrgentRuns' /\ \A t \in Task : SameWait(t)
      /\ \A t \in Task \ {c} : SameCall(t)
  BY <1>0, CallSteady, MsgConstants
<1>3. req'[c].reason = a
  BY <1>0 DEF CallWait, Inv, TypeOK
<1>4. InRole(c)'
  BY <1>3 DEF InRole, Party
<1>5. \A t \in Task : InRole(t)'
  BY <1>2, <1>4, InRoleKept, Zenon DEF QInv
<1> QED BY <1>1, <1>2, <1>5, SteadyQ, Zenon

\* A queued task is BLOCKED when another runs outside a window.
LEMMA QueuedBlocked ==
  ASSUME QInv, NEW c \in User, Executing(c), pc[c] \in {"app", "try"},
         NEW r \in Ways, NEW w \in Task, WaitingFor(w, r, Queue)
  PROVE  state[w] = "BLOCKED" /\ block_reason[w] = r /\ w # c
<1>1. WInv /\ Inv /\ WindowsClosed /\ c \in Task
  BY DEF QInv, WInv, User
<1>2. state[c] = "RUNNING" /\ ~InWindow(c)
  BY <1>1, Runner DEF InWindow
<1>3. \A t \in Task : ~InWindow(t)
  BY <1>1, <1>2, NoneInWindow, Zenon
<1>4. r # "DELAY"
  BY DEF Ways
<1>5. state[w] = "BLOCKED" /\ block_reason[w] = r
  BY <1>3, <1>4 DEF WaitingFor, InWindow
<1> QED BY <1>2, <1>5

\* What the step of c at the test of its loop does to the two ways.
LEMMA TakerGone ==
  ASSUME IInv, NEW a \in Ways, NEW c, Served(a), Line(a)' = Line(a), Open(a)' = Open(a) - 1,
         \A t \in Task \ {c} : OnItsWay(t, a, Queue) => OnItsWay(t, a, Queue)'
  PROVE  Served(a)'
<1> DEFINE T == Takers(a, Queue)
<1>1. /\ Cardinality(T) \in Nat /\ Cardinality(T)' \in Nat
      /\ Cardinality(T) <= Cardinality(T)' + 1
  BY TakersLose, MsgConstants, Zenon
<1>2. Line(a) # <<>> => Open(a) <= Cardinality(T)
  BY DEF Served
<1>3. Open(a) \in Nat
  BY OpenType
<1>4. Line(a)' # <<>> => Open(a)' <= Cardinality(T)'
  BY <1>1, <1>2, <1>3
<1> QED BY <1>4 DEF Served

LEMMA TakerCame ==
  ASSUME IInv, NEW b \in Ways, NEW w \in Task, Served(b), Line(b) # <<>>, Open(b)' = Open(b) + 1,
         \A t \in Task : OnItsWay(t, b, Queue) => OnItsWay(t, b, Queue)',
         ~OnItsWay(w, b, Queue), OnItsWay(w, b, Queue)'
  PROVE  Served(b)'
<1> DEFINE T == Takers(b, Queue)
<1>1. /\ Cardinality(T) \in Nat /\ Cardinality(T)' \in Nat
      /\ Cardinality(T) + 1 <= Cardinality(T)'
  BY TakersGain, MsgConstants, Zenon
<1>2. Open(b) <= Cardinality(T)
  BY DEF Served
<1>3. Open(b) \in Nat
  BY OpenType
<1>4. Open(b)' <= Cardinality(T)'
  BY <1>1, <1>2, <1>3
<1> QED BY <1>4 DEF Served

\* The call of c, which goes way a, succeeds while nobody waits to go way b.
LEMMA PassAlone ==
  ASSUME QInv, IInv, NEW c \in User, NEW a \in Ways, NEW b \in Ways, Ways = {a, b}, a # b,
         AtTry(c, a), Line(b) = <<>>, WakeHead(Line(b)), Line(b)' = Popped(Line(b)),
         Line(a)' = Line(a), Open(a)' = Open(a) - 1, CallReturn(c),
         UNCHANGED <<prio_bucket, wake_time, time_slice_counter, registry, tick, current_tcb, isr,
                     phase, block_wake_status>>
  PROVE  QInv' /\ (AllServed => AllServed')
<1>0. /\ WInv /\ Inv /\ MostUrgentRuns /\ WindowsClosed
      /\ c \in Task /\ Executing(c) /\ pc[c] = "try" /\ Line(b)' = <<>>
      /\ UNCHANGED <<ready, tcbVars, registry, tick, current_tcb, pendsv, isr, phase>>
      /\ UNCHANGED <<block_object, block_wake_status, state, block_reason>>
  BY Zenon DEF QInv, WInv, AtTry, User, WakeHead, Popped, tcbVars
<1>1. pc' \in [Task -> Place] /\ req' \in [Task -> [reason : Reason, ticks : Ticks \cup {0}]]
  <2>1. "app" \in Place
    BY DEF Place
  <2> QED BY <1>0, <2>1, ReturnTypes, Zenon DEF CallReturn
<1>2. Inv' /\ MostUrgentRuns'
  BY <1>0, <1>1, PlaceStep, Zenon
<1>3. /\ CallOK(c)' /\ SameCall(c) /\ ~Waits(c) /\ ~Waits(c)'
      /\ object' \in [Task -> Object \cup {NULL}]
      /\ \A t \in Task \ {c} : pc'[t] = pc[t] /\ req'[t] = req[t] /\ object'[t] = object[t]
  BY <1>0, <1>2, Returns, Zenon
<1>4. \A t \in Task \ {c} : SameTask(t)
  BY <1>0, <1>3, Zenon DEF SameTask
<1>5. WaitTypes'
  BY <1>0, <1>3, Zenon DEF WInv, WaitTypes
<1>6. WInv' /\ \A t \in Task \ {c} : SameWait(t) /\ SameCall(t)
  BY <1>0, <1>2, <1>3, <1>4, <1>5, OthersSteady, Zenon
<1>7. \A t \in Task : InRole(t)'
  BY <1>3, <1>6, InRoleKept, Zenon DEF QInv
<1>8. WindowsClosed'
  <2>1. \A t \in Task \ {c} : InWindow(t)' => InWindow(t)
    BY <1>3, Zenon DEF InWindow
  <2>2. pc'[c] = "app"
    BY <1>0 DEF CallReturn, Inv, TypeOK
  <2>3. ~InWindow(c)'
    BY <2>2 DEF InWindow
  <2> QED BY <1>0, <2>1, <2>3, WindowsActor
<1>9. ASSUME NEW r \in Ways PROVE LineExact(r)'
  <2>1. LineExact(r) /\ Line(r)' = Line(r) /\ Party(r)' = Party(r) /\ r \in WaitReason
    BY <1>0, MsgConstants, SMTT(20) DEF QInv, Party
  <2>2. c \notin WaitSet(r, Queue)
    BY <1>3, <2>1, MsgConstants DEF WaitSet, Waits
  <2>3. WaitSet(r, Queue) = WaitSet(r, Queue) \ {c}
    BY <2>2
  <2>4. Lists(Line(r), WaitSet(r, Queue) \ {c})
    BY <2>1, <2>3, Zenon DEF LineExact
  <2>5. (\A t \in Task \ {c} : SameWait(t)) /\ (\A t \in Task \cap {c} : ~Waits(t)')
    BY <1>3, <1>6
  <2>6. Lists(Line(r), WaitSet(r, Queue)')
    BY <2>1, <2>4, <2>5, ListsLeft, MsgConstants, Zenon
  <2> QED BY <2>1, <2>6 DEF LineExact
<1>10. AllServed => AllServed'
  <2>1. Served(b)'
    BY <1>0 DEF Served
  <2>2. \A t \in Task \ {c} : OnItsWay(t, a, Queue) => OnItsWay(t, a, Queue)'
    BY <1>6, MsgConstants, Zenon DEF SameWait
  <2>3. Served(a) => Served(a)'
    BY <2>2, TakerGone
  <2> QED BY <2>1, <2>3, Zenon DEF AllServed, Ways
<1> QED BY <1>2, <1>6, <1>7, <1>8, <1>9, <1>10, Zenon DEF QInv, Ways

\* The call of c, which goes way a, succeeds and wakes the first in line for way b.
LEMMA PassWake ==
  ASSUME QInv, IInv, NEW c \in User, NEW a \in Ways, NEW b \in Ways, Ways = {a, b}, a # b,
         AtTry(c, a), Line(b) # <<>>, WakeHead(Line(b)), Line(b)' = Popped(Line(b)),
         Line(a)' = Line(a), Open(a)' = Open(a) - 1, Open(b)' = Open(b) + 1, CallReturn(c),
         UNCHANGED <<prio_bucket, wake_time, time_slice_counter, registry, tick, current_tcb, isr,
                     phase, block_wake_status>>
  PROVE  QInv' /\ (AllServed => AllServed')
<1> DEFINE S == WaitSet(b, Queue)
<1>w. PICK w : w = Head(Line(b))
  BY SMTT(20)
<1>0. /\ WInv /\ Inv /\ MostUrgentRuns /\ WindowsClosed
      /\ c \in Task /\ Executing(c) /\ pc[c] = "try"
      /\ Line(b)' = Tail(Line(b)) /\ MakeReady(w, ready) /\ pendsv' = TRUE
      /\ a \in WaitReason /\ b \in WaitReason
  BY <1>w, MsgConstants, Zenon DEF QInv, WInv, AtTry, User, WakeHead, Popped
<1>1. w \in S /\ Line(b)' \in Seq(Party(b)) /\ Lists(Line(b)', S \ {w})
  <2>1. Line(b) \in Seq(Party(b)) /\ Lists(Line(b), S)
    BY DEF QInv, LineExact
  <2>2. /\ Head(Line(b)) \in S /\ Tail(Line(b)) \in Seq(Party(b))
        /\ Lists(Tail(Line(b)), S \ {Head(Line(b))})
    BY ONLY Line(b) # <<>>, <2>1, ListsTail, SMTT(20)
  <2>3. Line(b)' = Tail(Line(b))
    BY <1>0
  <2> QED BY ONLY <1>w, <2>2, <2>3, SMTT(20)
<1>2. w \in Task /\ WaitingFor(w, b, Queue)
  BY <1>1, SMTT(20) DEF WaitSet
<1>3. state[w] = "BLOCKED" /\ w # c
  BY <1>0, <1>2, QueuedBlocked, Zenon
<1>4. pc' \in [Task -> Place] /\ req' \in [Task -> [reason : Reason, ticks : Ticks \cup {0}]]
  <2>1. "app" \in Place
    BY SMTT(20) DEF Place
  <2> QED BY <1>0, <2>1, ReturnTypes, Zenon DEF CallReturn
<1>5. Inv' /\ MostUrgentRuns'
  BY <1>0, <1>2, <1>3, <1>4, MakeReadyInv, Zenon
<1>6. state'[c] = state[c]
  BY <1>0, <1>3 DEF MakeReady, Inv, TypeOK
<1>7. /\ CallOK(c)' /\ SameCall(c) /\ ~Waits(c) /\ ~Waits(c)'
      /\ object' \in [Task -> Object \cup {NULL}]
      /\ \A t \in Task \ {c} : pc'[t] = pc[t] /\ req'[t] = req[t] /\ object'[t] = object[t]
      /\ \A s \in WaitReason, o \in Object : OnItsWay(c, s, o) => s = a
  BY <1>0, <1>5, <1>6, Returns, Zenon
<1>8. /\ WInv' /\ (\A t \in Task \ {c, w} : SameWait(t)) /\ (\A t \in Task \ {c} : SameCall(t))
      /\ ~Waits(w)'
      /\ \A r \in WaitReason, o \in Object :
           /\ ~OnItsWay(w, r, o)
           /\ OnItsWay(w, r, o)' <=> WaitingFor(w, r, o)
  BY <1>0, <1>2, <1>3, <1>5, <1>7, Wakes, Zenon
<1>9. \A t \in Task : InRole(t)'
  BY <1>7, <1>8, InRoleKept, Zenon DEF QInv
<1>10. WindowsClosed'
  <2>1. \A t \in Task \ {c} : InWindow(t)' => InWindow(t)
    BY <1>7, Zenon DEF InWindow
  <2>2. pc'[c] = "app"
    <3>1. c \in Task /\ pc \in [Task -> Place] /\ pc' = [pc EXCEPT ![c] = "app"]
      BY <1>0, Zenon DEF CallReturn, Inv, TypeOK, User
    <3> QED BY ONLY <3>1
  <2>3. ~InWindow(c)'
    BY ONLY <2>2 DEF InWindow
  <2> QED BY <1>0, <2>1, <2>3, WindowsActor
<1>11. \A t \in Task \cap {c, w} : ~Waits(t)'
  BY <1>7, <1>8, Zenon
<1>12. c \notin WaitSet(a, Queue) /\ w \notin WaitSet(a, Queue) /\ c \notin S
  <2>1. ~WaitingFor(c, a, Queue) /\ ~WaitingFor(c, b, Queue)
    BY <1>0, <1>7, MsgConstants, ZenonT(30) DEF Waits
  <2>2. ~WaitingFor(w, a, Queue)
    BY <1>0, <1>2, QueuedBlocked, ZenonT(30)
  <2> QED BY <2>1, <2>2, SMTT(20) DEF WaitSet
<1>13. LineExact(b)'
  <2>1. S \ {w} = S \ {c, w}
    BY <1>12
  <2>2. Lists(Line(b)', S \ {c, w})
    BY <1>1, <2>1, Zenon
  <2>3. Lists(Line(b)', WaitSet(b, Queue)')
    BY <1>0, <1>8, <1>11, <2>2, ListsLeft, MsgConstants, Zenon
  <2> QED BY <1>1, <2>3 DEF LineExact, Party
<1>14. LineExact(a)'
  <2>1. LineExact(a) /\ Party(a)' = Party(a)
    BY DEF QInv, Party
  <2>2. WaitSet(a, Queue) = WaitSet(a, Queue) \ {c, w}
    BY <1>12
  <2>3. Lists(Line(a), WaitSet(a, Queue) \ {c, w})
    BY <2>1, <2>2, Zenon DEF LineExact
  <2>4. Lists(Line(a), WaitSet(a, Queue)')
    BY <1>0, <1>8, <1>11, <2>3, ListsLeft, MsgConstants, Zenon
  <2> QED BY <2>1, <2>4 DEF LineExact
<1>15. AllServed => AllServed'
  <2>1. \A r \in WaitReason : \A t \in Task \ {c, w} :
          OnItsWay(t, r, Queue) => OnItsWay(t, r, Queue)'
    BY <1>8, MsgConstants, Zenon DEF SameWait
  <2>2. \A t \in Task \ {c} : OnItsWay(t, a, Queue) => OnItsWay(t, a, Queue)'
    <3>1. ~OnItsWay(w, a, Queue)
      BY <1>0, <1>8, MsgConstants, SMTT(20)
    <3> QED BY <1>0, <2>1, <3>1, SMTT(20)
  <2>3. Served(a) => Served(a)'
    BY <2>2, TakerGone
  <2>4. ~OnItsWay(w, b, Queue) /\ OnItsWay(w, b, Queue)'
    BY <1>0, <1>2, <1>8, MsgConstants, Zenon
  <2>5. \A t \in Task : OnItsWay(t, b, Queue) => OnItsWay(t, b, Queue)'
    <3>1. ~OnItsWay(c, b, Queue)
      BY <1>0, <1>7, MsgConstants, Zenon
    <3> QED BY <1>0, <2>1, <2>4, <3>1
  <2>6. Served(b) => Served(b)'
    BY <1>2, <2>4, <2>5, TakerCame
  <2> QED BY <2>3, <2>6, Zenon DEF AllServed, Ways
<1> QED BY <1>5, <1>8, <1>9, <1>10, <1>13, <1>14, <1>15, Zenon DEF QInv, Ways

\* The call of c finds nothing open and gets in line.
LEMMA EnterLine ==
  ASSUME QInv, IInv, NEW c \in User, NEW a \in Ways, NEW b \in Ways, Ways = {a, b}, a # b,
         AtTry(c, a), Open(a) = 0, UNCHANGED count, pc' = [pc EXCEPT ![c] = "enter"],
         Line(a)' = Enqueued(Line(a), c), Line(b)' = Line(b),
         UNCHANGED <<ready, tcbVars, registry, tick, cpuVars, req, waitVars>>
  PROVE  QInv' /\ (AllServed => AllServed')
<1>0. /\ WInv /\ Inv /\ MostUrgentRuns /\ WindowsClosed
      /\ c \in Task /\ Executing(c) /\ pc[c] = "try" /\ req[c].reason = a
      /\ UNCHANGED <<current_tcb, pendsv, isr, phase>>
      /\ UNCHANGED <<state, block_reason, req>> /\ UNCHANGED waitVars
      /\ a \in WaitReason /\ b \in WaitReason
      /\ Open(a)' = Open(a) /\ Open(b)' = Open(b)
  BY MsgConstants, Zenon DEF QInv, WInv, AtTry, User, cpuVars, tcbVars, Open
<1>1. pc' \in [Task -> Place] /\ req' \in [Task -> [reason : Reason, ticks : Ticks \cup {0}]]
  <2>1. "enter" \in Place
    BY DEF Place
  <2> QED BY <1>0, <2>1, ReturnTypes, Zenon
<1>2. Inv' /\ MostUrgentRuns'
  BY <1>0, <1>1, PlaceStep, Zenon
<1>3. /\ WInv' /\ (\A t \in Task \ {c} : SameWait(t)) /\ (\A t \in Task : SameCall(t))
      /\ ~Waits(c) /\ object[c] \in Object
      /\ \A s \in WaitReason, o \in Object :
           WaitingFor(c, s, o)' <=> s = a /\ o = object[c]
  <2>1. /\ WInv /\ c \in User /\ AtTry(c, a) /\ pc' = [pc EXCEPT ![c] = "enter"]
        /\ UNCHANGED <<state, block_reason, req>> /\ UNCHANGED waitVars
    BY <1>0
  <2> QED BY ONLY <1>2, <2>1, Enters, Zenon
<1>4. \A t \in Task : InRole(t)'
  BY <1>3, InRoleKept, Zenon DEF QInv
<1>5. WindowsClosed'
  <2>1. \A t \in Task \ {c} : InWindow(t)' => InWindow(t)
    BY <1>0 DEF InWindow, Inv, TypeOK
  <2>2. Executing(c)'
    BY <1>0, Zenon DEF Executing
  <2> QED BY <1>0, <2>1, <2>2, WindowsActor
<1>6. LineExact(a)'
  <2> DEFINE S == WaitSet(a, Queue)
  <2>1. c \notin S /\ Lists(Line(a), S) /\ Line(a) \in Seq(Party(a))
    BY <1>0, <1>3, MsgConstants, ZenonT(30) DEF WaitSet, Waits, QInv, LineExact
  <2>2. c \in Party(a)
    <3>1. InRole(c)
      BY <1>0 DEF QInv
    <3> QED BY <1>0, <3>1 DEF InRole, Ways
  <2>3. Lists(Line(a)', S \cup {c}) /\ Line(a)' \in Seq(Party(a))
    <3>1. Lists(Enqueued(Line(a), c), S \cup {c}) /\ Enqueued(Line(a), c) \in Seq(Party(a))
      BY ONLY <2>1, <2>2, ListsAppend, SMTT(20)
    <3> QED BY ONLY <3>1, Line(a)' = Enqueued(Line(a), c)
  <2>4. WaitingFor(c, a, Queue)'
    BY <1>0, <1>3, MsgConstants, Zenon
  <2>5. S' \ {c} = S \ {c}
    BY <1>0, <1>3, WaitSetStep, MsgConstants, Zenon
  <2>6. c \in S'
    BY <1>0, <2>4 DEF WaitSet
  <2>7. S' = S \cup {c}
    BY <2>5, <2>6
  <2> QED BY <2>3, <2>7, SMTT(20) DEF LineExact, Party
<1>7. LineExact(b)'
  <2> DEFINE S == WaitSet(b, Queue)
  <2>1. LineExact(b) /\ Party(b)' = Party(b)
    BY DEF QInv, Party
  <2>2. S' \ {c} = S \ {c}
    BY <1>0, <1>3, WaitSetStep, MsgConstants, Zenon
  <2>3. ~WaitingFor(c, b, Queue) /\ ~WaitingFor(c, b, Queue)'
    BY <1>0, <1>3, MsgConstants, Zenon DEF Waits
  <2>4. c \notin S /\ c \notin S'
    BY <2>3 DEF WaitSet
  <2>5. S' = S
    BY <2>2, <2>4
  <2> QED BY <2>1, <2>5 DEF LineExact
<1>8. AllServed => AllServed'
  <2>1. Served(a)'
    <3>1. IsFiniteSet({t \in Task : OnItsWay(t, a, Queue)'})
      BY MsgConstants, FS_Subset
    <3>2. Cardinality(Takers(a, Queue)') \in Nat
      BY <3>1, FS_CardinalityType, SMTT(20) DEF Takers
    <3>3. Open(a)' = 0
      BY <1>0
    <3> QED BY ONLY <3>2, <3>3 DEF Served
  <2>2. ~OnItsWay(c, b, Queue)
    BY <1>0, Zenon DEF OnItsWay
  <2>3. \A t \in Task \ {c} : OnItsWay(t, b, Queue) => OnItsWay(t, b, Queue)'
    BY <1>0, <1>3, MsgConstants, Zenon DEF SameWait
  <2>4. \A t \in Task : OnItsWay(t, b, Queue) => OnItsWay(t, b, Queue)'
    BY <2>2, <2>3
  <2>5. Served(b) => Served(b)'
    BY <1>0, <2>4, ServedKept, OpenType
  <2> QED BY <2>1, <2>5, Zenon DEF AllServed, Ways
<1> QED BY <1>2, <1>3, <1>4, <1>5, <1>6, <1>7, <1>8, Zenon DEF QInv, Ways

\* A task that waited leaves its line: the two lines without it.
LEMMA DetachQ ==
  ASSUME NEW x, NEW r \in Ways, LineExact(r), Detach(x),
         block_reason[x] # r => x \notin WaitSet(r, Queue)
  PROVE  /\ Line(r)' \in Seq(Party(r)) /\ Lists(Line(r)', WaitSet(r, Queue) \ {x})
         /\ Line(r)' # <<>> => Line(r) # <<>>
<1>0. Line(r) \in Seq(Party(r)) /\ Lists(Line(r), WaitSet(r, Queue))
  BY DEF LineExact
<1>1. CASE block_reason[x] = r
  <2>1. Line(r)' = Unqueue(Line(r), x)
    BY <1>1 DEF Detach, Line, Ways
  <2>2. /\ Unqueue(Line(r), x) \in Seq(Party(r))
        /\ Lists(Unqueue(Line(r), x), WaitSet(r, Queue) \ {x})
    BY ONLY <1>0, ListsUnqueue
  <2>3. Unqueue(Line(r), x) # <<>> => Line(r) # <<>>
    BY ONLY UnqueueEmpty, Zenon
  <2> QED BY ONLY <2>1, <2>2, <2>3, Zenon
<1>2. CASE block_reason[x] # r
  <2>1. Line(r)' = Line(r)
    BY <1>2 DEF Detach, Line, Ways
  <2>2. WaitSet(r, Queue) \ {x} = WaitSet(r, Queue)
    BY <1>2
  <2> QED BY <1>0, <2>1, <2>2, Zenon
<1> QED BY <1>1, <1>2

\* The lines are exact after a step that took x off its line and left the others.
LEMMA LeftLine ==
  ASSUME NEW x, NEW r \in Ways, Line(r)' \in Seq(Party(r)),
         Lists(Line(r)', WaitSet(r, Queue) \ {x}),
         \A t \in Task \ {x} : SameWait(t), ~Waits(x)'
  PROVE  LineExact(r)'
<1>1. \A t \in Task \cap {x} : ~Waits(t)'
  OBVIOUS
<1>2. Lists(Line(r)', WaitSet(r, Queue)')
  BY <1>1, ListsLeft, MsgConstants, Zenon
<1> QED BY <1>2 DEF LineExact, Party

LEMMA WakeMsgQ ==
  ASSUME QInv, IInv, TickInWindow = FALSE, WakeMsg
  PROVE  QInv' /\ (AllServed => AllServed')
<1>0. /\ WInv /\ Inv /\ WindowsClosed /\ WakeTimeout /\ UNCHANGED count
  BY DEF QInv, WInv, WakeMsg, slotVars
<1>1. PICK x : x = Scanned
  OBVIOUS
<1>2. /\ WInv' /\ x \in Task /\ (\A t \in Task \ {x} : SameWait(t))
      /\ \A t \in Task : SameCall(t)
      /\ ~Waits(x)' /\ ~(\E r, o : OnItsWay(x, r, o))
      /\ \A r \in WaitReason, o \in Object :
           WaitingFor(x, r, o) <=> r = block_reason[x] /\ o = block_object[x]
  BY <1>0, <1>1, TimesOut, Zenon
<1>3. Detach(x)
  BY <1>1 DEF WakeMsg
<1>4. ASSUME NEW r \in Ways
      PROVE  LineExact(r)' /\ (Served(r) => Served(r)')
  <2>1. block_reason[x] # r => x \notin WaitSet(r, Queue)
    BY <1>2, MsgConstants DEF WaitSet
  <2>2. LineExact(r)
    BY DEF QInv
  <2>3. /\ Line(r)' \in Seq(Party(r)) /\ Lists(Line(r)', WaitSet(r, Queue) \ {x})
        /\ Line(r)' # <<>> => Line(r) # <<>>
    BY <1>3, <2>1, <2>2, DetachQ, SMTT(20)
  <2>4. LineExact(r)'
    BY <1>2, <2>3, LeftLine, Zenon
  <2>5. \A t \in Task \ {x} : OnItsWay(t, r, Queue) => OnItsWay(t, r, Queue)'
    BY <1>2, MsgConstants, Zenon DEF SameWait
  <2>6. \A t \in Task : OnItsWay(t, r, Queue) => OnItsWay(t, r, Queue)'
    BY <1>2, <2>5, Zenon
  <2>7. Open(r)' = Open(r)
    BY <1>0 DEF Open
  <2>8. Served(r) => Served(r)'
    BY <2>3, <2>6, <2>7, ServedKept, OpenType
  <2> QED BY <2>4, <2>8, SMTT(20)
<1>5. \A t \in Task : InRole(t)'
  BY <1>2, InRoleKept, Zenon DEF QInv
<1>6. WindowsClosed'
  BY <1>0, WindowsSteady, Zenon
<1>7. MostUrgentRuns'
  BY <1>0, WakeTimeoutInv
<1> QED BY <1>2, <1>4, <1>5, <1>6, <1>7, Zenon DEF QInv, AllServed, Ways

LEMMA MsgTaskDeleteQ ==
  ASSUME QInv, IInv, TickInWindow = FALSE, NEW c \in User, NEW x \in User, MsgTaskDelete(c, x)
  PROVE  QInv'
<1>0. /\ WInv /\ Inv /\ WindowsClosed /\ MostUrgentRuns /\ c \in Task /\ WaitTaskDelete(c, x)
      /\ TaskDelete(c, x) /\ Executing(c) /\ pc[c] = "app"
  BY DEF QInv, WInv, MsgTaskDelete, WaitTaskDelete, TaskDelete, InApp, User
<1>2. /\ WInv' /\ x \in Task /\ (\A t \in Task \ {x} : SameWait(t))
      /\ (\A t \in Task : SameCall(t)) /\ ~Waits(x)'
  BY <1>0, DeleteSteady, Zenon
<1>3. ASSUME NEW r \in Ways PROVE LineExact(r)'
  <2>1. LineExact(r)
    BY SMTT(20) DEF QInv
  <2>2. x \in WaitSet(r, Queue) => state[x] = "BLOCKED" /\ block_reason[x] = r
    BY <1>0, QueuedBlocked DEF WaitSet
  <2>3. Line(r)' \in Seq(Party(r)) /\ Lists(Line(r)', WaitSet(r, Queue) \ {x})
    <3>1. CASE state[x] = "BLOCKED"
      <4>1. Detach(x)
        BY <3>1 DEF MsgTaskDelete
      <4> QED BY <2>1, <2>2, <4>1, DetachQ, Zenon
    <3>2. CASE state[x] # "BLOCKED"
      <4>1. Line(r)' = Line(r)
        BY <3>2 DEF MsgTaskDelete, Line
      <4>2. WaitSet(r, Queue) \ {x} = WaitSet(r, Queue)
        BY <2>2, <3>2
      <4> QED BY <2>1, <4>1, <4>2 DEF LineExact
    <3> QED BY <3>1, <3>2, SMTT(20)
  <2> QED BY <1>2, <2>3, LeftLine
<1>5. \A t \in Task : InRole(t)'
  BY <1>2, InRoleKept, Zenon DEF QInv
<1>6. WindowsClosed'
  BY <1>0, WindowsSteady, Zenon
<1>7. MostUrgentRuns'
  BY <1>0, KernelStepUrgent
<1> QED BY <1>2, <1>3, <1>5, <1>6, <1>7, Zenon DEF QInv, Ways

-----------------------------------------------------------------------------
LEMMA QInit == MsgInit => QInv /\ AllServed
<1> SUFFICES ASSUME MsgInit PROVE QInv /\ AllServed
  OBVIOUS
<1>1. Init /\ WaitInit /\ send_wait = <<>> /\ recv_wait = <<>>
  BY DEF MsgInit, WaitInit
<1>2. Inv
  BY <1>1, InitInv, SMTT(20)
<1>3. /\ \A t \in Task : pc[t] = "app" /\ req[t].reason = "NONE" /\ object[t] = NULL
      /\ \A t \in Task : state[t] \in {"READY", "UNUSED"}
  <2>1. \A t \in Task : pc[t] = "app" /\ req[t] = NoReq /\ object[t] = NULL
    BY <1>1, Zenon DEF Init, WaitInit
  <2>2. \A t \in Task : state[t] \in {"READY", "UNUSED"}
    BY <1>1, Zenon DEF Init
  <2>3. NoReq.reason = "NONE"
    BY DEF NoReq
  <2> QED BY <2>1, <2>2, <2>3, Zenon
<1>4. WInv
  <2>1. WaitTypes
    BY <1>1 DEF WaitInit, WaitTypes
  <2>2. \A t \in Task : CallOK(t)
    BY <1>3, WaitingAssumption, Zenon DEF CallOK, WaitReason
  <2> QED BY <1>2, <2>1, <2>2 DEF WInv
<1>5. MostUrgentRuns
  BY <1>1, Zenon DEF Init, MostUrgentRuns, Settled
<1>6. \A t \in Task : InRole(t)
  BY <1>3, Zenon DEF InRole
<1>7. ASSUME NEW r \in Ways PROVE LineExact(r) /\ Served(r)
  <2>1. WaitSet(r, Queue) = {}
    BY <1>3 DEF WaitSet, WaitingFor
  <2>2. Line(r) = <<>>
    BY <1>1 DEF Line
  <2>3. Lists(<<>>, {})
    BY DEF Lists, Members
  <2> QED BY <2>1, <2>2, <2>3, SMTT(20) DEF LineExact, Served
<1>8. WindowsClosed
  BY <1>3 DEF WindowsClosed, InWindow
<1> QED BY <1>4, <1>5, <1>6, <1>7, <1>8 DEF QInv, AllServed

LEMMA QNext ==
  ASSUME QInv, IInv, TickInWindow = FALSE, [MsgNext]_allVars
  PROVE  QInv' /\ ("delete" \notin Calls /\ AllServed => AllServed')
<1> DEFINE Kept == QInv' /\ (AllServed => AllServed')
<1>0. /\ "MSG_SEND" \in Ways /\ "MSG_RECV" \in Ways /\ "MSG_SEND" # "MSG_RECV"
      /\ Ways = {"MSG_SEND", "MSG_RECV"} /\ Ways = {"MSG_RECV", "MSG_SEND"}
      /\ count \in Int /\ Depth \in Int /\ count <= Depth
  BY DepthFacts DEF Ways, IInv
<1>1. CASE WakeMsg
  BY <1>1, WakeMsgQ, Zenon
<1>2. CASE (OtherStep /\ UNCHANGED queueVars) \/ UNCHANGED allVars
  BY <1>2, OtherStepQ, Zenon DEF allVars
<1>3. ASSUME NEW c \in User, NEW v \in Msg, NEW n \in Ticks \cup {0}, MsgSend(c, v, n)
      PROVE  Kept
  BY <1>0, <1>3, CallQ, Zenon DEF MsgSend, slotVars, Party
<1>4. ASSUME NEW c \in User, NEW n \in Ticks \cup {0}, MsgRecv(c, n)
      PROVE  Kept
  BY <1>0, <1>4, CallQ, Zenon DEF MsgRecv, queueVars, Party
<1>5. ASSUME NEW c \in User, SendPut(c)
      PROVE  Kept
  <2>1. /\ AtTry(c, "MSG_SEND") /\ WakeHead(Line("MSG_RECV")) /\ CallReturn(c)
        /\ Line("MSG_RECV")' = Popped(Line("MSG_RECV")) /\ Line("MSG_SEND")' = Line("MSG_SEND")
        /\ UNCHANGED <<prio_bucket, wake_time, time_slice_counter, registry, tick, current_tcb,
                       isr, phase, block_wake_status>>
    BY <1>5 DEF SendPut, Line
  <2>2. Open("MSG_SEND")' = Open("MSG_SEND") - 1 /\ Open("MSG_RECV")' = Open("MSG_RECV") + 1
    <3>1. count' = count + 1
      BY <1>5, Zenon DEF SendPut
    <3>2. count \in Int /\ Depth \in Int
      BY <1>0
    <3> QED BY ONLY <3>1, <3>2 DEF Open
  <2>3. CASE Line("MSG_RECV") = <<>>
    BY <1>0, <2>1, <2>2, <2>3, PassAlone
  <2>4. CASE Line("MSG_RECV") # <<>>
    BY <1>0, <2>1, <2>2, <2>4, PassWake
  <2> QED BY <2>3, <2>4
<1>6. ASSUME NEW c \in User, RecvGet(c)
      PROVE  Kept
  <2>1. /\ AtTry(c, "MSG_RECV") /\ WakeHead(Line("MSG_SEND")) /\ CallReturn(c)
        /\ Line("MSG_SEND")' = Popped(Line("MSG_SEND")) /\ Line("MSG_RECV")' = Line("MSG_RECV")
        /\ UNCHANGED <<prio_bucket, wake_time, time_slice_counter, registry, tick, current_tcb,
                       isr, phase, block_wake_status>>
    BY <1>6 DEF RecvGet, Line
  <2>2. Open("MSG_RECV")' = Open("MSG_RECV") - 1 /\ Open("MSG_SEND")' = Open("MSG_SEND") + 1
    <3>1. count' = count - 1
      BY <1>6, Zenon DEF RecvGet
    <3>2. count \in Int /\ Depth \in Int
      BY <1>0
    <3> QED BY ONLY <3>1, <3>2 DEF Open
  <2>3. CASE Line("MSG_SEND") = <<>>
    BY <1>0, <2>1, <2>2, <2>3, PassAlone
  <2>4. CASE Line("MSG_SEND") # <<>>
    BY <1>0, <2>1, <2>2, <2>4, PassWake
  <2> QED BY <2>3, <2>4
<1>7. ASSUME NEW c \in User, SendWait(c)
      PROVE  Kept
  <2>1. Open("MSG_SEND") = 0
    BY <1>0, <1>7 DEF SendWait, Open
  <2>2. /\ AtTry(c, "MSG_SEND") /\ UNCHANGED count /\ pc' = [pc EXCEPT ![c] = "enter"]
        /\ Line("MSG_SEND")' = Enqueued(Line("MSG_SEND"), c)
        /\ Line("MSG_RECV")' = Line("MSG_RECV")
        /\ UNCHANGED <<ready, tcbVars, registry, tick, cpuVars, req, waitVars>>
    BY <1>7 DEF SendWait, Line, slotVars
  <2> QED BY <1>0, <2>1, <2>2, EnterLine, Zenon
<1>8. ASSUME NEW c \in User, RecvWait(c)
      PROVE  Kept
  <2>1. Open("MSG_RECV") = 0
    BY <1>8 DEF RecvWait, Open
  <2>2. /\ AtTry(c, "MSG_RECV") /\ UNCHANGED count /\ pc' = [pc EXCEPT ![c] = "enter"]
        /\ Line("MSG_RECV")' = Enqueued(Line("MSG_RECV"), c)
        /\ Line("MSG_SEND")' = Line("MSG_SEND")
        /\ UNCHANGED <<ready, tcbVars, registry, tick, cpuVars, req, waitVars>>
    BY <1>8 DEF RecvWait, Line, slotVars
  <2> QED BY <1>0, <2>1, <2>2, EnterLine, Zenon
<1>9. ASSUME NEW c \in User, NEW t \in User, MsgTaskDelete(c, t)
      PROVE  QInv' /\ "delete" \in Calls
  <2>1. "delete" \in Calls
    BY <1>9 DEF MsgTaskDelete, WaitTaskDelete, TaskDelete
  <2> QED BY <1>9, <2>1, MsgTaskDeleteQ, Zenon
<1> QED BY <1>1, <1>2, <1>3, <1>4, <1>5, <1>6, <1>7, <1>8, <1>9, Zenon DEF MsgNext, MsgStep

\* The message queue keeps QInv: two exact wait queues, exact ready rings and
\* strict-priority preemption, through every interleaving of msg_queue_send,
\* msg_queue_recv, timeouts and task_delete.
THEOREM MsgInvariance ==
  ASSUME TickInWindow = FALSE
  PROVE  MsgSpec => []QInv
<1>1. MsgInit => QInv
  BY QInit
<1>2. QInv /\ IInv /\ [MsgNext]_allVars => QInv'
  BY QNext, Zenon
<1> QED BY <1>1, <1>2, RingBufferSound, PTL DEF MsgSpec

\* The fields of the message queue and of the TCBs keep their types: every index
\* names a slot, and each wait queue links tasks of its own side only.
THEOREM MsgTypesKept ==
  ASSUME TickInWindow = FALSE
  PROVE  MsgSpec => []MsgTypeOK
<1>1. QInv /\ IInv => MsgTypeOK
  <2> SUFFICES ASSUME QInv, IInv PROVE MsgTypeOK
    OBVIOUS
  <2>1. LineExact("MSG_SEND") /\ LineExact("MSG_RECV")
    BY DEF QInv, Ways
  <2>2. send_wait \in Seq(Sender) /\ recv_wait \in Seq(Receiver)
    BY <2>1 DEF LineExact, Line, Party
  <2>3. WaitTypeOK
    BY DEF QInv, WInv, Inv, WaitTypes, WaitTypeOK
  <2> QED BY <2>2, <2>3 DEF IInv, MsgTypeOK
<1> QED BY <1>1, MsgInvariance, RingBufferSound, PTL

\* Each of the two queues linked by mutex_wait_next holds each task that waits in it
\* once, and no other, whatever order messages, timeouts and task_delete come in.
THEOREM MsgQueuesStayExact ==
  ASSUME TickInWindow = FALSE
  PROVE  MsgSpec => []MsgQueuesExact
<1>1. QInv => MsgQueuesExact
  <2> SUFFICES ASSUME QInv PROVE MsgQueuesExact
    OBVIOUS
  <2>1. LineExact("MSG_SEND") /\ LineExact("MSG_RECV")
    BY DEF QInv, Ways
  <2> QED BY <2>1 DEF LineExact, Line, MsgQueuesExact, QueueExact
<1> QED BY <1>1, MsgInvariance, PTL

\* The ready rings hold exactly the runnable tasks, and the most urgent of them
\* runs once _wake_head or a timeout has woken a task and the reschedule is done.
THEOREM MsgScheduling ==
  ASSUME TickInWindow = FALSE
  PROVE  MsgSpec => [](ReadyRingsExact /\ MostUrgentRuns)
<1>1. QInv => ReadyRingsExact /\ MostUrgentRuns
  BY DEF QInv, WInv, Inv
<1> QED BY <1>1, MsgInvariance, PTL

\* No wakeup of _wake_head is lost where no task is deleted: while receivers are
\* queued every message has a receiver on its way, and while senders are queued
\* every free slot has a sender on its way.
THEOREM NoMsgWakeupLost ==
  ASSUME TickInWindow = FALSE, "delete" \notin Calls
  PROVE  MsgSpec => []MsgWakeups
<1>1. MsgInit => QInv /\ AllServed
  BY QInit
<1>2. QInv /\ IInv /\ AllServed /\ [MsgNext]_allVars => QInv' /\ AllServed'
  BY QNext, Zenon
<1>3. AllServed => MsgWakeups
  <2> SUFFICES ASSUME AllServed PROVE MsgWakeups
    OBVIOUS
  <2>1. Served("MSG_SEND") /\ Served("MSG_RECV")
    BY DEF AllServed, Ways
  <2> QED BY <2>1 DEF Served, Line, Open, Takers, MsgWakeups
<1> QED BY <1>1, <1>2, <1>3, RingBufferSound, PTL DEF MsgSpec

-----------------------------------------------------------------------------
(* Senders and receivers are woken in time *)

LEMMA MsgOnTime ==
  ASSUME NoWrap, QInv, OnTime, [MsgNext]_allVars
  PROVE  OnTime'
<1>0. WInv
  BY DEF QInv
<1>1. CASE WakeMsg
  BY <1>0, <1>1, WaitOnTime, Zenon DEF WakeMsg
<1>2. CASE OtherStep
  <2>1. CASE MsgTaskCreate
    <3>1. \E t \in User, p \in Priority : TaskCreate(t, p)
      BY <2>1, MsgQueueAssumption DEF MsgTaskCreate
    <3> QED BY <1>0, <3>1, WaitOnTime, Zenon
  <2> QED BY <1>0, <1>2, <2>1, WaitOnTime, Zenon DEF OtherStep
<1>3. CASE UNCHANGED allVars
  <2>1. UNCHANGED vars
    BY <1>3 DEF allVars
  <2> QED BY <1>0, <2>1, WaitOnTime, Zenon
<1>4. ASSUME NEW c \in User, NEW v, NEW n, MsgSend(c, v, n) \/ MsgRecv(c, n) PROVE OnTime'
  <2>1. CallWait(c, "MSG_SEND", Queue, n) \/ CallWait(c, "MSG_RECV", Queue, n)
    BY <1>4, Zenon DEF MsgSend, MsgRecv
  <2> QED BY <1>0, <2>1, WaitOnTime, Zenon
<1>5. ASSUME NEW c \in User, SendPut(c) \/ SendWait(c) \/ RecvGet(c) \/ RecvWait(c)
      PROVE  OnTime'
  <2>1. UNCHANGED <<wake_time, tick, isr, registry>>
    BY <1>5, Zenon DEF SendPut, SendWait, RecvGet, RecvWait, tcbVars, cpuVars
  <2>2. ASSUME NEW q, WakeHead(q)
        PROVE  UNCHANGED state \/ \E w : state' = [state EXCEPT ![w] = "READY"]
    BY <2>2, Zenon DEF WakeHead, MakeReady
  <2>3. UNCHANGED state \/ WakeHead(recv_wait) \/ WakeHead(send_wait)
    BY <1>5, Zenon DEF SendPut, SendWait, RecvGet, RecvWait, tcbVars
  <2>4. UNCHANGED state \/ \E w : state' = [state EXCEPT ![w] = "READY"]
    BY <2>2, <2>3, Zenon
  <2> QED BY <1>0, <2>1, <2>4, WakingOnTime, Zenon
<1>6. ASSUME NEW c \in User, NEW t \in User, MsgTaskDelete(c, t) PROVE OnTime'
  <2>1. WaitTaskDelete(c, t)
    BY <1>6 DEF MsgTaskDelete
  <2> QED BY <1>0, <2>1, WaitOnTime, Zenon
<1>7. ASSUME NEW c \in User, NEW n, MsgRecv(c, n) PROVE OnTime'
  BY <1>4, <1>7, Zenon
<1> QED BY <1>1, <1>2, <1>3, <1>4, <1>5, <1>6, <1>7, Zenon DEF MsgNext, MsgStep

\* Timeouts come on time: outside SysTick no task is still BLOCKED in task_delay,
\* msg_queue_send or msg_queue_recv at a tick that has reached its wake_time, whichever
\* of the two wait queues it is in.  For a counter that does not wrap.
THEOREM MsgTimeoutsInTime ==
  ASSUME TickInWindow = FALSE, NoWrap
  PROVE  MsgSpec => []NoOverdueSleeper
<1>0. MsgInit => Init
  BY Zenon DEF MsgInit, WaitInit
<1>1. MsgInit => QInv /\ OnTime
  BY <1>0, QInit, InitOnTime, Zenon
<1>2. QInv /\ IInv /\ OnTime /\ [MsgNext]_allVars => QInv' /\ OnTime'
  BY QNext, MsgOnTime, Zenon
<1> QED BY <1>1, <1>2, RingBufferSound, OnTimeSuffices, PTL DEF MsgSpec
=============================================================================

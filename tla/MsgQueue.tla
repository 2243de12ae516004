-------------------------------- MODULE MsgQueue --------------------------------
(***************************************************************************)
(* A message queue, src/ipc/msgqueue.c: msg_queue_send and msg_queue_recv  *)
(* by the tasks of Kernel, the BLOCK_MSG_SEND and BLOCK_MSG_RECV branches  *)
(* of rtos_wake_delayed and of task_delete.                                *)
(***************************************************************************)
EXTENDS Waiting

CONSTANTS
  Queue,                  \* the message queue
  Msg,                    \* messages
  Depth,                  \* argument of msg_queue_init
  Sender, Receiver,       \* the tasks that send and delete, that receive
  SenderPriority, ReceiverPriority

ASSUME MsgQueueAssumption ==
  /\ Object = {Queue} /\ IsFiniteSet(Task) /\ Msg # {} /\ Depth \in Nat \ {0}
  /\ Sender \subseteq User /\ Receiver \subseteq User
  /\ SenderPriority \subseteq Priority /\ ReceiverPriority \subseteq Priority

VARIABLES
  buffer, head, tail, count,   \* of msg_queue_t; buffer by slots
  send_wait, recv_wait,   \* the two wait queues
  msg,                    \* the message msg_queue_send was called with
  out                     \* what msg_queue_recv stored for its caller last

slotVars == <<buffer, head, tail, count, out>>
queueVars == <<buffer, head, tail, count, out, send_wait, recv_wait, msg>>
allVars == <<vars, waitVars, queueVars>>

Slot == 0 .. Depth - 1

\* msg_queue_init after task_init; the storage holds anything.
MsgInit ==
  /\ WaitInit
  /\ head = 0 /\ tail = 0 /\ count = 0
  /\ send_wait = <<>> /\ recv_wait = <<>>
  /\ \E v \in Msg : /\ buffer = [i \in Slot |-> v]
                    /\ msg = [t \in Task |-> v] /\ out = [t \in Task |-> v]

\* Mutant: the index is not brought back to the first slot in time.
AfterLate(i) == IF i = Depth THEN 0 ELSE i + 1

\* The slot after i.
After(i) == (i + 1) % Depth

\* Mutant: the task is woken and no reschedule is requested.
WakeHeadQuietly(q) ==
  /\ IF q = <<>> THEN UNCHANGED <<block_reason, block_object, state, ready>>
     ELSE MakeReady(Head(q), ready)
  /\ UNCHANGED pendsv

\* _wake_head: the task at the head of q is made READY and a reschedule requested.
WakeHead(q) ==
  IF q = <<>> THEN UNCHANGED <<block_reason, block_object, state, ready, pendsv>>
  ELSE MakeReady(Head(q), ready) /\ pendsv' = TRUE

Popped(q) == IF q = <<>> THEN q ELSE Tail(q)

-----------------------------------------------------------------------------
(* msg_queue_send *)

MsgSend(c, v, n) ==
  /\ c \in Sender
  /\ CallWait(c, "MSG_SEND", Queue, n)
  /\ msg' = [msg EXCEPT ![c] = v]
  /\ UNCHANGED <<slotVars, send_wait, recv_wait>>

\* Mutant: the message is stored in the slot that is read next.
SendPutAtHead(c) ==
  /\ AtTry(c, "MSG_SEND") /\ count < Depth
  /\ buffer' = [buffer EXCEPT ![head] = msg[c]]
  /\ tail' = After(tail)
  /\ count' = count + 1
  /\ WakeHead(recv_wait) /\ recv_wait' = Popped(recv_wait)
  /\ CallReturn(c)
  /\ UNCHANGED <<prio_bucket, wake_time, time_slice_counter, registry, tick, current_tcb,
                 isr, phase, block_wake_status, head, out, send_wait, msg>>

\* There is room: the message is stored and a receiver is woken.
SendPut(c) ==
  /\ AtTry(c, "MSG_SEND") /\ count < Depth
  /\ buffer' = [buffer EXCEPT ![tail] = msg[c]]
  /\ tail' = After(tail)
  /\ count' = count + 1
  /\ WakeHead(recv_wait) /\ recv_wait' = Popped(recv_wait)
  /\ CallReturn(c)
  /\ UNCHANGED <<prio_bucket, wake_time, time_slice_counter, registry, tick, current_tcb,
                 isr, phase, block_wake_status, head, out, send_wait, msg>>

SendWait(c) ==
  /\ AtTry(c, "MSG_SEND") /\ count >= Depth
  /\ send_wait' = Enqueued(send_wait, c)
  /\ pc' = [pc EXCEPT ![c] = "enter"]
  /\ UNCHANGED <<ready, tcbVars, registry, tick, cpuVars, req, waitVars, slotVars,
                 recv_wait, msg>>

-----------------------------------------------------------------------------
(* msg_queue_recv *)

MsgRecv(c, n) ==
  /\ c \in Receiver
  /\ CallWait(c, "MSG_RECV", Queue, n)
  /\ UNCHANGED queueVars

\* There is a message: it is copied out and a sender is woken.
RecvGet(c) ==
  /\ AtTry(c, "MSG_RECV") /\ count > 0
  /\ out' = [out EXCEPT ![c] = buffer[head]]
  /\ head' = After(head)
  /\ count' = count - 1
  /\ WakeHead(send_wait) /\ send_wait' = Popped(send_wait)
  /\ CallReturn(c)
  /\ UNCHANGED <<prio_bucket, wake_time, time_slice_counter, registry, tick, current_tcb,
                 isr, phase, block_wake_status, buffer, tail, recv_wait, msg>>

RecvWait(c) ==
  /\ AtTry(c, "MSG_RECV") /\ count = 0
  /\ recv_wait' = Enqueued(recv_wait, c)
  /\ pc' = [pc EXCEPT ![c] = "enter"]
  /\ UNCHANGED <<ready, tcbVars, registry, tick, cpuVars, req, waitVars, slotVars,
                 send_wait, msg>>

-----------------------------------------------------------------------------
(* Timeouts and deletion *)

\* Mutant: the task is looked for in the queue of the receivers only.
DetachRecv(t) == send_wait' = send_wait /\ recv_wait' = Unqueue(recv_wait, t)

\* The task leaves the wait queue that its block_reason names.
Detach(t) ==
  /\ send_wait' = IF block_reason[t] = "MSG_SEND" THEN Unqueue(send_wait, t) ELSE send_wait
  /\ recv_wait' = IF block_reason[t] = "MSG_RECV" THEN Unqueue(recv_wait, t) ELSE recv_wait

\* rtos_wake_delayed: msgqueue_wake_timeout.
WakeMsg ==
  /\ WakeTimeout
  /\ Detach(Scanned)
  /\ UNCHANGED <<slotVars, msg>>

\* task_delete: a BLOCKED task leaves its wait queue.
MsgTaskDelete(c, t) ==
  /\ c \in Sender
  /\ WaitTaskDelete(c, t)
  /\ IF state[t] = "BLOCKED" THEN Detach(t) ELSE UNCHANGED <<send_wait, recv_wait>>
  /\ UNCHANGED <<slotVars, msg>>

-----------------------------------------------------------------------------
MsgTaskCreate ==
  /\ \/ \E t \in Sender, p \in SenderPriority : TaskCreate(t, p)
     \/ \E t \in Receiver, p \in ReceiverPriority : TaskCreate(t, p)
  /\ UNCHANGED waitVars

MsgStep ==
  \/ WakeMsg
  \/ \E c \in User :
       \/ \E v \in Msg, n \in Ticks \cup {0} : MsgSend(c, v, n)
       \/ \E n \in Ticks \cup {0} : MsgRecv(c, n)
       \/ SendPut(c) \/ SendWait(c) \/ RecvGet(c) \/ RecvWait(c)
       \/ \E t \in User : MsgTaskDelete(c, t)

OtherStep == KernelStep \/ MsgTaskCreate \/ WaitStep

MsgNext == ~ready.stuck /\ (MsgStep \/ (OtherStep /\ UNCHANGED queueVars))

MsgSpec == MsgInit /\ [][MsgNext]_allVars

-----------------------------------------------------------------------------
(* Correctness *)

MsgTypeOK ==
  /\ WaitTypeOK
  /\ buffer \in [Slot -> Msg] /\ head \in Slot /\ tail \in Slot /\ count \in 0 .. Depth
  /\ send_wait \in Seq(Sender) /\ recv_wait \in Seq(Receiver)
  /\ msg \in [Task -> Msg] /\ out \in [Task -> Msg]

\* The messages in the slots, oldest first.
Contents == [i \in 1 .. count |-> buffer[(head + i - 1) % Depth]]

F == INSTANCE Fifo WITH chan <- Contents

\* The ring buffer is a FIFO of Depth messages, whatever senders and receivers
\* are preempted, time out or are deleted meanwhile.
FifoSpec == F!Spec

\* Each of the two wait queues holds each task that waits in it once, and no other.
MsgQueuesExact ==
  /\ QueueExact(send_wait, "MSG_SEND", Queue)
  /\ QueueExact(recv_wait, "MSG_RECV", Queue)

\* No wakeup is lost: while receivers are queued every message has a receiver on
\* its way, and while senders are queued every free slot has a sender on its way.
MsgWakeups ==
  /\ recv_wait # <<>> =>
       count <= Cardinality({t \in Task : OnItsWay(t, "MSG_RECV", Queue)})
  /\ send_wait # <<>> =>
       Depth - count <= Cardinality({t \in Task : OnItsWay(t, "MSG_SEND", Queue)})
=============================================================================

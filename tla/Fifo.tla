---------------------------------- MODULE Fifo ----------------------------------
(***************************************************************************)
(* What a message queue promises, src/ipc/msgqueue.h: "Fixed-size message  *)
(* queues (FIFO ring buffer)".  Messages come out in the order they went   *)
(* in, each of them once, and at most Depth are under way.                 *)
(***************************************************************************)
EXTENDS Naturals, Sequences

CONSTANTS Task, Msg, Depth

VARIABLES
  chan,                   \* the messages under way
  out                     \* the message each task received last

Init == chan = <<>> /\ out \in [Task -> Msg]

Send(v) == Len(chan) < Depth /\ chan' = Append(chan, v) /\ UNCHANGED out

Recv(t) == chan # <<>> /\ chan' = Tail(chan) /\ out' = [out EXCEPT ![t] = Head(chan)]

Next == (\E v \in Msg : Send(v)) \/ (\E t \in Task : Recv(t))

Spec == Init /\ [][Next]_<<chan, out>>
=============================================================================

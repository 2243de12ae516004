------------------------------ MODULE MCMsgQueue ------------------------------
(* Instances of MsgQueue for TLC. *)
EXTENDS MsgQueue, TLC

CONSTANTS s1, s2, r1, idle, queue, x, y

TasksS2R1 == {idle, s1, s2, r1}
Queues == {queue}
Msgs == {x, y}
S2 == {s1, s2}
R1 == {r1}
Symmetry == {f @@ g : f \in Permutations(S2), g \in Permutations(Msgs)}

\* As in MCSemaphore; a message is of no account once it is stored.
View ==
  <<ready, state, prio_bucket,
    [t \in Task |-> IF state[t] = "BLOCKED" THEN wake_time[t] ELSE UINT32_MAX],
    block_reason, time_slice_counter, registry, current_tcb, tick, pendsv, isr, phase, pc,
    [t \in Task |-> IF req[t].reason = "DELAY" /\ pc[t] \notin {"enter", "block"}
                    THEN [req[t] EXCEPT !.ticks = 0] ELSE req[t]],
    waitVars, Contents, head, tail, send_wait, recv_wait,
    [t \in Task |-> IF req[t].reason = "MSG_SEND" THEN msg[t] ELSE NULL]>>
=============================================================================

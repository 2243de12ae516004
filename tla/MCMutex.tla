------------------------------- MODULE MCMutex -------------------------------
(* Instances of Mutex for TLC. *)
EXTENDS Mutex, TLC

CONSTANTS t1, t2, t3, idle, m1

Tasks2 == {idle, t1, t2}
Tasks3 == {idle, t1, t2, t3}
Mutexes1 == {m1}
Symmetry3 == Permutations({t1, t2, t3})

\* As in MCSemaphore.
View ==
  <<ready, state, prio_bucket,
    [t \in Task |-> IF state[t] = "BLOCKED" THEN wake_time[t] ELSE UINT32_MAX],
    block_reason, time_slice_counter, registry, current_tcb, tick, pendsv, isr, phase, pc,
    [t \in Task |-> IF req[t].reason = "DELAY" /\ pc[t] \notin {"enter", "block"}
                    THEN [req[t] EXCEPT !.ticks = 0] ELSE req[t]],
    waitVars, mutexVars>>
=============================================================================

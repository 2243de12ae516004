----------------------------- MODULE MCSemaphore -----------------------------
(* Instances of Semaphore for TLC. *)
EXTENDS Semaphore, TLC

CONSTANTS w1, w2, p1, idle, sem

Tasks2 == {idle, w1, p1}
Tasks3 == {idle, w1, w2, p1}
Waiters1 == {w1}
Waiters2 == {w1, w2}
Posters1 == {p1}
Sems == {sem}
Symmetry == Permutations({w1, w2})

\* As in MCKernel; the tick count of semaphore_wait is read in every round.
View ==
  <<ready, state, prio_bucket,
    [t \in Task |-> IF state[t] = "BLOCKED" THEN wake_time[t] ELSE UINT32_MAX],
    block_reason, time_slice_counter, registry, current_tcb, tick, pendsv, isr, phase, pc,
    [t \in Task |-> IF req[t].reason = "DELAY" /\ pc[t] \notin {"enter", "block"}
                    THEN [req[t] EXCEPT !.ticks = 0] ELSE req[t]],
    waitVars, semVars>>
=============================================================================
